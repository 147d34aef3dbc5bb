------------------------------ MODULE TaskQueue ------------------------------
(***************************************************************************)
(* The shared task queue of gpt2agent (taskqueue.py, and the queue worker  *)
(* and queue_* tools of server.py) as an abstract specification: the       *)
(* ledger the docstring of taskqueue.py promises, in which every locked    *)
(* read-modify-write of a task file is one step.                           *)
(*                                                                         *)
(* The code does not keep that promise by itself: its lock is a lock on an *)
(* inode that every write replaces.  TaskFiles models what it does, and    *)
(* says until when the files are this ledger.  What is stated here, about  *)
(* listings, clocks and kills, is stated of the ledger; who may execute or *)
(* overwrite what is stated there, of the files.                           *)
(*                                                                         *)
(* Each process of Procs is one gpt2agent server.  It has one event loop,  *)
(* so its queue calls never overlap; while a task executes the loop is     *)
(* free to serve queue_submit and queue_cancel.                            *)
(*                                                                         *)
(* Clock readings are kept only as far as the code compares them: "due"    *)
(* says that a task's not_before has passed, "old" that its claim is at    *)
(* least _CLAIM_STALE_S seconds old.                                       *)
(***************************************************************************)
EXTENDS FiniteSets

CONSTANTS
    Procs,      \* gpt2agent server processes of this host
    Tasks,      \* task ids, each used by one queue_submit at most
    NoProc,     \* claimed_by = None
    NoTask,     \* a process executes nothing
    Workers,    \* processes with queue.enabled (GPT2AGENT_QUEUE_OFF unset)
    MayCrash,   \* processes that may be killed
    SlowJobs,   \* may an execution outlast _CLAIM_STALE_S?
    DiskFaults  \* may writing a task file raise?

ASSUME ConstantsAssumption ==
    /\ NoProc \notin Procs
    /\ NoTask \notin Tasks
    /\ Workers \subseteq Procs
    /\ MayCrash \subseteq Procs
    /\ SlowJobs \in BOOLEAN
    /\ DiskFaults \in BOOLEAN

VARIABLES
    task,    \* the task files: record of every task
    older,   \* older[t]: the tasks whose created_at precedes t's
    worker,  \* where the _queue_worker coroutine of a process stands
    job,     \* the task a process is executing
    todo     \* what is left of the list() a requeue or claim loop walks

vars == <<task, older, worker, job, todo>>

Terminal == {"done", "failed", "cancelled"}
Runnable == {"queued", "waiting"}
Status   == {"absent", "claimed"} \cup Terminal \cup Runnable

TaskRecord == [status : Status, owner : Procs \cup {NoProc},
               due : BOOLEAN, old : BOOLEAN]

WorkerState == {"off", "idle", "rescuing", "claiming", "running"}

NoRecord == [status |-> "absent", owner |-> NoProc, due |-> TRUE, old |-> FALSE]

TypeOK ==
    /\ task \in [Tasks -> TaskRecord]
    /\ older \in [Tasks -> SUBSET Tasks]
    /\ worker \in [Procs -> WorkerState]
    /\ job \in [Procs -> Tasks \cup {NoTask}]
    /\ todo \in [Procs -> SUBSET Tasks]

Init ==
    /\ task = [t \in Tasks |-> NoRecord]
    /\ older = [t \in Tasks |-> {}]
    /\ worker = [p \in Procs |-> "off"]
    /\ job = [p \in Procs |-> NoTask]
    /\ todo = [p \in Procs |-> {}]

-----------------------------------------------------------------------------
(* What each operation makes of a task record: the fn's that taskqueue.py  *)
(* hands to _mutate_locked.                                                *)

SubmittedRecord == [NoRecord EXCEPT !.status = "queued"]

ClaimedBy(r, p) == [r EXCEPT !.status = "claimed", !.owner = p, !.old = FALSE]

\* Mutant of Requeued: a status nobody knows.
PendingAgain(r) == [r EXCEPT !.status = "pending", !.owner = NoProc]

Requeued(r) == [r EXCEPT !.status = "queued", !.owner = NoProc]

Parked(r) == [r EXCEPT !.status = "waiting", !.owner = NoProc, !.due = FALSE]

Ended(r, how) == [r EXCEPT !.status = how]

\* The listing is sorted by created_at: the loops take its oldest task first.
Oldest(S) == {t \in S : older[t] \cap S = {}}

\* Mutant of StaleClaims: the wrong status is looked for.
StaleQueued == {t \in Tasks : task[t].status = "queued" /\ task[t].old}

StaleClaims == {t \in Tasks : task[t].status = "claimed" /\ task[t].old}

\* Mutants of Claimable: not_before is ignored; parked tasks are forgotten.
ClaimableEarly == {t \in Tasks : task[t].status \in Runnable}

ClaimableQueued == {t \in Tasks : task[t].status = "queued" /\ task[t].due}

Claimable == {t \in Tasks : task[t].status \in Runnable /\ task[t].due}

LoopFree(p) == worker[p] \in {"off", "idle", "running"}

-----------------------------------------------------------------------------
(* The queue_* tools                                                       *)

\* queue_submit: a new file, then _ensure_worker.  A failed write raises
\* before _ensure_worker and leaves nothing behind.
Submit(p, t) ==
    /\ LoopFree(p)
    /\ task[t].status = "absent"
    /\ task' = [task EXCEPT ![t] = SubmittedRecord]
    /\ older' = [older EXCEPT
                   ![t] = {u \in Tasks : task[u].status # "absent"}]
    /\ worker' = [worker EXCEPT
                    ![p] = IF @ = "off" /\ p \in Workers THEN "idle" ELSE @]
    /\ UNCHANGED <<job, todo>>

Cancel(p, t) ==
    /\ LoopFree(p)
    /\ task[t].status \notin Terminal \cup {"absent"}
    /\ task' = [task EXCEPT ![t] = Ended(@, "cancelled")]
    /\ UNCHANGED <<older, worker, job, todo>>

-----------------------------------------------------------------------------
(* The _queue_worker loop                                                  *)

\* requeue_stale lists the claims that are old enough ...
ListStale(p) ==
    /\ worker[p] = "idle"
    /\ worker' = [worker EXCEPT ![p] = "rescuing"]
    /\ todo' = [todo EXCEPT ![p] = StaleClaims]
    /\ UNCHANGED <<task, older, job>>

\* ... and puts each one back, looking again only at its status.
Requeue(p, t) ==
    /\ worker[p] = "rescuing"
    /\ t \in Oldest(todo[p])
    /\ task' = IF task[t].status = "claimed"
                 THEN [task EXCEPT ![t] = Requeued(@)]
                 ELSE task
    /\ todo' = [todo EXCEPT ![p] = @ \ {t}]
    /\ UNCHANGED <<older, worker, job>>

\* claim_next lists the runnable tasks whose not_before has passed ...
ListClaimable(p) ==
    /\ worker[p] = "rescuing"
    /\ todo[p] = {}
    /\ worker' = [worker EXCEPT ![p] = "claiming"]
    /\ todo' = [todo EXCEPT ![p] = Claimable]
    /\ UNCHANGED <<task, older, job>>

\* ... and tries them in turn.  Under the lock only the status is looked at
\* again; the task is ours when the record we come back with says so.
Claim(p, t) ==
    LET r == IF task[t].status \in Runnable THEN ClaimedBy(task[t], p)
                                            ELSE task[t]
    IN /\ worker[p] = "claiming"
       /\ t \in Oldest(todo[p])
       /\ task' = [task EXCEPT ![t] = r]
       /\ \/ /\ r.owner = p
             /\ worker' = [worker EXCEPT ![p] = "running"]
             /\ job' = [job EXCEPT ![p] = t]
             /\ todo' = [todo EXCEPT ![p] = {}]
          \/ /\ r.owner # p
             /\ todo' = [todo EXCEPT ![p] = @ \ {t}]
             /\ UNCHANGED <<worker, job>>
       /\ UNCHANGED older

\* Nothing to claim: sleep ten seconds and start over.
NothingToClaim(p) ==
    /\ worker[p] = "claiming"
    /\ todo[p] = {}
    /\ worker' = [worker EXCEPT ![p] = "idle"]
    /\ UNCHANGED <<task, older, job, todo>>

\* A write that raises inside requeue_stale or claim_next is logged and the
\* round given up.
RoundFails(p) ==
    /\ DiskFaults
    /\ worker[p] \in {"rescuing", "claiming"}
    /\ todo[p] # {}
    /\ worker' = [worker EXCEPT ![p] = "idle"]
    /\ todo' = [todo EXCEPT ![p] = {}]
    /\ UNCHANGED <<task, older, job>>

\* _execute_task has returned or raised, and its outcome r is recorded by
\* complete, wait_until or fail: none of them looks at status or owner.
Finish(p, r) ==
    /\ worker[p] = "running"
    /\ task' = [task EXCEPT ![job[p]] = r]
    /\ worker' = [worker EXCEPT ![p] = "idle"]
    /\ job' = [job EXCEPT ![p] = NoTask]
    /\ UNCHANGED <<older, todo>>

Complete(p) == Finish(p, Ended(task[job[p]], "done"))

\* Any other exception, among them complete's own failure to write.
Fail(p) == Finish(p, Ended(task[job[p]], "failed"))

\* UsageLimitError and LocalRateLimitError.
Park(p) == Finish(p, Parked(task[job[p]]))

\* fail or wait_until raises inside an except clause: the coroutine ends.
WorkerDies(p) ==
    /\ DiskFaults
    /\ worker[p] = "running"
    /\ worker' = [worker EXCEPT ![p] = "off"]
    /\ job' = [job EXCEPT ![p] = NoTask]
    /\ UNCHANGED <<task, older, todo>>

-----------------------------------------------------------------------------
(* The environment                                                         *)

\* A process is killed, and started again: nothing starts its worker.
Crash(p) ==
    /\ p \in MayCrash
    /\ worker[p] # "off"
    /\ worker' = [worker EXCEPT ![p] = "off"]
    /\ job' = [job EXCEPT ![p] = NoTask]
    /\ todo' = [todo EXCEPT ![p] = {}]
    /\ UNCHANGED <<task, older>>

\* The not_before of a parked task passes.  Nobody looks at it once the task
\* has ended.
ComesDue(t) ==
    /\ task[t].status \notin Terminal
    /\ ~task[t].due
    /\ task' = [task EXCEPT ![t].due = TRUE]
    /\ UNCHANGED <<older, worker, job, todo>>

\* _CLAIM_STALE_S pass since a claim.
ClaimAges(t) ==
    /\ task[t].status = "claimed"
    /\ ~task[t].old
    /\ SlowJobs \/ \A p \in Procs : job[p] # t
    /\ task' = [task EXCEPT ![t].old = TRUE]
    /\ UNCHANGED <<older, worker, job, todo>>

-----------------------------------------------------------------------------
WorkerStep(p) ==
    \/ ListStale(p)
    \/ \E t \in Tasks : Requeue(p, t)
    \/ ListClaimable(p)
    \/ \E t \in Tasks : Claim(p, t)
    \/ NothingToClaim(p)
    \/ RoundFails(p)
    \/ Complete(p)
    \/ Fail(p)
    \/ Park(p)
    \/ WorkerDies(p)

Next ==
    \/ \E p \in Procs : WorkerStep(p) \/ Crash(p)
    \/ \E p \in Procs, t \in Tasks : Submit(p, t) \/ Cancel(p, t)
    \/ \E t \in Tasks : ComesDue(t) \/ ClaimAges(t)

Spec == Init /\ [][Next]_vars

\* A coroutine that can run is run by its loop, executions end (every stream
\* has a timeout) and clocks advance.  Nobody has to submit or cancel.
Fairness ==
    /\ \A p \in Procs : WF_vars(WorkerStep(p))
    /\ \A t \in Tasks : WF_vars(ComesDue(t)) /\ WF_vars(ClaimAges(t))

FairSpec == Spec /\ Fairness
-----------------------------------------------------------------------------
(* Properties *)

Running(t) == {p \in Procs : job[p] = t}

\* What a worker executes is what the ledger says it claimed: whoever runs a
\* task owns its record, which says "claimed", or "cancelled" when a client
\* called queue_cancel meanwhile.  TaskFiles says until when the files do so.
JobOwnsClaim ==
    \A p \in Procs :
        /\ worker[p] = "running" <=> job[p] # NoTask
        /\ job[p] # NoTask =>
             /\ task[job[p]].owner = p
             /\ task[job[p]].status \in {"claimed", "cancelled"}

\* An execution starts only when the task's not_before has passed (claim_next).
StartsWhenDue ==
    [][\A p \in Procs : job'[p] # job[p] /\ job'[p] # NoTask =>
           task[job'[p]].due]_vars

\* A claimed task nobody executes: its worker was killed or gave up.
Orphan(t) == task[t].status = "claimed" /\ Running(t) = {}

\* Some worker is alive in a process that is never killed.
SafeWorker == \E p \in Procs \ MayCrash : worker[p] # "off"

\* As long as one worker survives, every orphan is put back in the queue or
\* cancelled: no claim outlives its worker for ever (requeue_stale).
OrphansAreReleased == \A t \in Tasks : Orphan(t) /\ SafeWorker ~> ~Orphan(t)

\* A runnable task with no unfinished task before it.
FirstInLine(t) ==
    /\ task[t].status \in Runnable
    /\ \A u \in older[t] : task[u].status \in Terminal

\* As long as one worker survives, the task at the head of the queue does not
\* stay there: parked or queued, it is claimed or cancelled in the end, unless
\* a cancelled task before it comes back (wait_until revives what was cancelled
\* while it ran, and what it revives may be claimed first every time).
HeadIsServed ==
    \A t \in Tasks : FirstInLine(t) /\ SafeWorker ~> ~FirstInLine(t)
=============================================================================
