------------------------------ MODULE TaskFiles ------------------------------
(***************************************************************************)
(* The task queue as taskqueue.py really runs it: a locked change of a     *)
(* task file is an open(), a flock() on the descriptor, a read of what the *)
(* descriptor names, and an os.replace() that puts a new inode under the   *)
(* path.  The lock is therefore a lock on one inode, not on the path: who  *)
(* opened the file before it was replaced waits for, gets and reads the    *)
(* inode that is no longer there.                                          *)
(*                                                                         *)
(* An inode is never written in place, so what a descriptor will read is   *)
(* settled when it is opened; a descriptor carries a copy of that content. *)
(*                                                                         *)
(* The docstring's atomic task file is TaskQueue.  It is what the files    *)
(* give until some call has a superseded inode open, and not from then on: *)
(* every property here says which of the two it is about.                  *)
(***************************************************************************)
EXTENDS FiniteSets

CONSTANTS
    Procs, Tasks, NoProc, NoTask, Workers, MayCrash, SlowJobs, DiskFaults,
    Inodes,     \* inode numbers of one directory entry, reused when free
    NoFile,     \* no such path
    NoCall,     \* the event loop is in no queue call
    HasFlock    \* fcntl was imported

VARIABLES
    file,    \* what the path of each task names: an inode and its content
    call,    \* the _mutate_locked call a process is in
    older, worker, job, todo,    \* as in TaskQueue
    overtaken   \* history: some call has had a superseded inode open

files == <<file, call, older, worker, job, todo>>

vars == <<files, overtaken>>

\* The ledger the files stand for, and the worker as the ledger sees it: an
\* execution is over when its outcome is on disk.
ledger == [t \in Tasks |->
             IF file[t] = NoFile
               THEN [status |-> "absent", owner |-> NoProc,
                     due |-> TRUE, old |-> FALSE]
               ELSE file[t].data]

ledgerWorker == [p \in Procs |->
                   IF worker[p] = "recording" THEN "running" ELSE worker[p]]

Ledger == INSTANCE TaskQueue WITH task <- ledger, worker <- ledgerWorker

File == [ino : Inodes, data : Ledger!TaskRecord]

Fn == {"requeue", "claim", "cancel", "complete", "fail", "park"}

Call == [task : Tasks, fn : Fn, fd : File, held : BOOLEAN]

ASSUME FileAssumption ==
    /\ NoProc \notin Procs
    /\ NoTask \notin Tasks
    /\ NoFile \notin File
    /\ NoCall \notin Call
    /\ Workers \subseteq Procs
    /\ MayCrash \subseteq Procs
    /\ {SlowJobs, DiskFaults, HasFlock} \subseteq BOOLEAN

FilesTypeOK ==
    /\ file \in [Tasks -> File \cup {NoFile}]
    /\ call \in [Procs -> Call \cup {NoCall}]
    /\ older \in [Tasks -> SUBSET Tasks]
    /\ worker \in [Procs -> Ledger!WorkerState \cup {"recording"}]
    /\ job \in [Procs -> Tasks \cup {NoTask}]
    /\ todo \in [Procs -> SUBSET Tasks]

TypeOK == FilesTypeOK /\ overtaken \in BOOLEAN

Init ==
    /\ file = [t \in Tasks |-> NoFile]
    /\ call = [p \in Procs |-> NoCall]
    /\ older = [t \in Tasks |-> {}]
    /\ worker = [p \in Procs |-> "off"]
    /\ job = [p \in Procs |-> NoTask]
    /\ todo = [p \in Procs |-> {}]
    /\ overtaken = FALSE

-----------------------------------------------------------------------------
(* _mutate_locked                                                          *)

\* Inode numbers neither the path nor an open descriptor uses.
FreeInodes(t) ==
    {i \in Inodes :
        /\ file[t] # NoFile => file[t].ino # i
        /\ \A p \in Procs :
             call[p] # NoCall /\ call[p].task = t => call[p].fd.ino # i}

\* os.replace of a freshly written temporary file.
Replace(t, r) ==
    \E i \in FreeInodes(t) : file' = [file EXCEPT ![t] = [ino |-> i, data |-> r]]

Open(p, t, fn) ==
    /\ call[p] = NoCall
    /\ file[t] # NoFile
    /\ call' = [call EXCEPT ![p] =
                  [task |-> t, fn |-> fn, fd |-> file[t], held |-> FALSE]]

\* Two descriptors exclude each other when they name the same inode.
Conflict(c, d) == c.task = d.task /\ c.fd.ino = d.fd.ino

\* flock(LOCK_EX) returns; without fcntl there is nothing to wait for.
Lock(p) ==
    /\ call[p] # NoCall
    /\ ~call[p].held
    /\ HasFlock => \A q \in Procs \ {p} :
                     ~(call[q] # NoCall /\ call[q].held
                                        /\ Conflict(call[p], call[q]))
    /\ call' = [call EXCEPT ![p].held = TRUE]
    /\ UNCHANGED <<file, older, worker, job, todo>>

\* Mutant of Changes: queue_cancel does not spare finished tasks.
ChangesFinished(c) ==
    /\ c.fn = "requeue" => c.fd.data.status = "claimed"
    /\ c.fn = "claim"   => c.fd.data.status \in Ledger!Runnable

\* Mutant of Changes: claim_next trusts its listing.
ChangesUnseen(c) ==
    /\ c.fn = "requeue" => c.fd.data.status = "claimed"
    /\ c.fn = "cancel"  => c.fd.data.status \notin Ledger!Terminal

\* Does fn return a record to write, rather than None?  An outcome always does.
Changes(c) ==
    /\ c.fn = "requeue" => c.fd.data.status = "claimed"
    /\ c.fn = "claim"   => c.fd.data.status \in Ledger!Runnable
    /\ c.fn = "cancel"  => c.fd.data.status \notin Ledger!Terminal

\* Mutant of Result: a misspelt status.
ResultMisspelt(p, c) ==
    LET r == c.fd.data
    IN IF ~Changes(c) THEN r
       ELSE CASE c.fn = "requeue"  -> Ledger!Requeued(r)
              [] c.fn = "claim"    -> Ledger!ClaimedBy(r, p)
              [] c.fn = "cancel"   -> Ledger!Ended(r, "canceled")
              [] c.fn = "complete" -> Ledger!Ended(r, "done")
              [] c.fn = "fail"     -> Ledger!Ended(r, "failed")
              [] c.fn = "park"     -> Ledger!Parked(r)

\* The record _mutate_locked returns: fn's, or the one it read.
Result(p, c) ==
    LET r == c.fd.data
    IN IF ~Changes(c) THEN r
       ELSE CASE c.fn = "requeue"  -> Ledger!Requeued(r)
              [] c.fn = "claim"    -> Ledger!ClaimedBy(r, p)
              [] c.fn = "cancel"   -> Ledger!Ended(r, "cancelled")
              [] c.fn = "complete" -> Ledger!Ended(r, "done")
              [] c.fn = "fail"     -> Ledger!Ended(r, "failed")
              [] c.fn = "park"     -> Ledger!Parked(r)

\* Write if there is something to write, unlock and close.
Persist(p) ==
    /\ call[p] # NoCall
    /\ call[p].held
    /\ IF Changes(call[p]) THEN Replace(call[p].task, Result(p, call[p]))
                           ELSE UNCHANGED file
    /\ call' = [call EXCEPT ![p] = NoCall]
    /\ UNCHANGED older

-----------------------------------------------------------------------------
(* The queue_* tools                                                       *)

LoopFree(p) == worker[p] \in {"off", "idle", "running"} /\ call[p] = NoCall

Submit(p, t) ==
    /\ LoopFree(p)
    /\ file[t] = NoFile
    /\ Replace(t, Ledger!SubmittedRecord)
    /\ older' = [older EXCEPT ![t] = {u \in Tasks : file[u] # NoFile}]
    /\ worker' = [worker EXCEPT
                    ![p] = IF @ = "off" /\ p \in Workers THEN "idle" ELSE @]
    /\ UNCHANGED <<call, job, todo>>

OpenCancel(p, t) ==
    /\ LoopFree(p)
    /\ Open(p, t, "cancel")
    /\ UNCHANGED <<file, older, worker, job, todo>>

Cancelled(p) ==
    /\ Persist(p)
    /\ call[p].fn = "cancel"
    /\ UNCHANGED <<worker, job, todo>>

-----------------------------------------------------------------------------
(* The _queue_worker loop                                                  *)

Inside(p, state) == worker[p] = state /\ call[p] = NoCall

ListStale(p) ==
    /\ Inside(p, "idle")
    /\ worker' = [worker EXCEPT ![p] = "rescuing"]
    /\ todo' = [todo EXCEPT ![p] = Ledger!StaleClaims]
    /\ UNCHANGED <<file, call, older, job>>

OpenRequeue(p, t) ==
    /\ Inside(p, "rescuing")
    /\ t \in Ledger!Oldest(todo[p])
    /\ Open(p, t, "requeue")
    /\ UNCHANGED <<file, older, worker, job, todo>>

RequeueReturns(p) ==
    /\ Persist(p)
    /\ call[p].fn = "requeue"
    /\ todo' = [todo EXCEPT ![p] = @ \ {call[p].task}]
    /\ UNCHANGED <<worker, job>>

ListClaimable(p) ==
    /\ Inside(p, "rescuing")
    /\ todo[p] = {}
    /\ worker' = [worker EXCEPT ![p] = "claiming"]
    /\ todo' = [todo EXCEPT ![p] = Ledger!Claimable]
    /\ UNCHANGED <<file, call, older, job>>

OpenClaim(p, t) ==
    /\ Inside(p, "claiming")
    /\ t \in Ledger!Oldest(todo[p])
    /\ Open(p, t, "claim")
    /\ UNCHANGED <<file, older, worker, job, todo>>

\* Mutant of ClaimWon: a record that came back is taken for ours.
ClaimTaken(p) ==
    /\ Persist(p)
    /\ call[p].fn = "claim"
    /\ worker' = [worker EXCEPT ![p] = "running"]
    /\ job' = [job EXCEPT ![p] = call[p].task]
    /\ todo' = [todo EXCEPT ![p] = {}]

ClaimWon(p) ==
    /\ Persist(p)
    /\ call[p].fn = "claim"
    /\ Result(p, call[p]).owner = p
    /\ worker' = [worker EXCEPT ![p] = "running"]
    /\ job' = [job EXCEPT ![p] = call[p].task]
    /\ todo' = [todo EXCEPT ![p] = {}]

ClaimLost(p) ==
    /\ Persist(p)
    /\ call[p].fn = "claim"
    /\ Result(p, call[p]).owner # p
    /\ todo' = [todo EXCEPT ![p] = @ \ {call[p].task}]
    /\ UNCHANGED <<worker, job>>

NothingToClaim(p) ==
    /\ Inside(p, "claiming")
    /\ todo[p] = {}
    /\ worker' = [worker EXCEPT ![p] = "idle"]
    /\ UNCHANGED <<file, call, older, job, todo>>

\* _execute_task returns or raises; the call that records it begins.
OpenOutcome(p, fn) ==
    /\ Inside(p, "running")
    /\ Open(p, job[p], fn)
    /\ worker' = [worker EXCEPT ![p] = "recording"]
    /\ UNCHANGED <<file, older, job, todo>>

OutcomeRecorded(p) ==
    /\ Persist(p)
    /\ worker[p] = "recording"
    /\ worker' = [worker EXCEPT ![p] = "idle"]
    /\ job' = [job EXCEPT ![p] = NoTask]
    /\ UNCHANGED todo

-----------------------------------------------------------------------------
(* A write raises: the lock is released, the temporary file removed, the   *)
(* path left alone, and the exception goes to whoever called.              *)

WriteRaises(p) ==
    /\ DiskFaults
    /\ call[p] # NoCall
    /\ call[p].held
    /\ Changes(call[p])

\* Mutant of CancelRaises: written in place, a file is lost with its write.
CancelTruncates(p) ==
    /\ WriteRaises(p)
    /\ call[p].fn = "cancel"
    /\ file' = [file EXCEPT ![call[p].task] = NoFile]
    /\ call' = [call EXCEPT ![p] = NoCall]
    /\ UNCHANGED <<older, worker, job, todo>>

\* ... to the tool's caller;
CancelRaises(p) ==
    /\ WriteRaises(p)
    /\ call[p].fn = "cancel"
    /\ call' = [call EXCEPT ![p] = NoCall]
    /\ UNCHANGED <<file, older, worker, job, todo>>

\* ... to the except clause around requeue_stale and claim_next;
RoundFails(p) ==
    /\ WriteRaises(p)
    /\ call[p].fn \in {"requeue", "claim"}
    /\ call' = [call EXCEPT ![p] = NoCall]
    /\ worker' = [worker EXCEPT ![p] = "idle"]
    /\ todo' = [todo EXCEPT ![p] = {}]
    /\ UNCHANGED <<file, older, job>>

\* ... from complete to fail;
CompleteRaises(p) ==
    /\ WriteRaises(p)
    /\ call[p].fn = "complete"
    /\ call' = [call EXCEPT ![p] = [task |-> job[p], fn |-> "fail",
                                    fd |-> file[job[p]], held |-> FALSE]]
    /\ UNCHANGED <<file, older, worker, job, todo>>

\* ... or out of the coroutine.
WorkerDies(p) ==
    /\ WriteRaises(p)
    /\ call[p].fn \in {"fail", "park"}
    /\ call' = [call EXCEPT ![p] = NoCall]
    /\ worker' = [worker EXCEPT ![p] = "off"]
    /\ job' = [job EXCEPT ![p] = NoTask]
    /\ UNCHANGED <<file, older, todo>>

-----------------------------------------------------------------------------
(* The environment                                                         *)

\* The kernel closes the descriptors, and so unlocks them.
Crash(p) ==
    /\ p \in MayCrash
    /\ worker[p] # "off" \/ call[p] # NoCall
    /\ call' = [call EXCEPT ![p] = NoCall]
    /\ worker' = [worker EXCEPT ![p] = "off"]
    /\ job' = [job EXCEPT ![p] = NoTask]
    /\ todo' = [todo EXCEPT ![p] = {}]
    /\ UNCHANGED <<file, older>>

\* A time stored in an inode passes, for the path and for whoever has it open.
\* Superseded copies keep their flag: what they write comes due later.
Passes(t, r) ==
    /\ file' = [file EXCEPT ![t].data = r]
    /\ call' = [p \in Procs |->
                  IF call[p] # NoCall /\ call[p].task = t
                                      /\ call[p].fd = file[t]
                    THEN [call[p] EXCEPT !.fd.data = r]
                    ELSE call[p]]
    /\ UNCHANGED <<older, worker, job, todo>>

ComesDue(t) ==
    /\ file[t] # NoFile
    /\ file[t].data.status \notin Ledger!Terminal
    /\ ~file[t].data.due
    /\ Passes(t, [file[t].data EXCEPT !.due = TRUE])

ClaimAges(t) ==
    /\ file[t] # NoFile
    /\ file[t].data.status = "claimed"
    /\ ~file[t].data.old
    /\ SlowJobs \/ \A p \in Procs : job[p] # t
    /\ Passes(t, [file[t].data EXCEPT !.old = TRUE])

-----------------------------------------------------------------------------
CallReturns(p) ==
    \/ Cancelled(p)
    \/ RequeueReturns(p)
    \/ ClaimWon(p)
    \/ ClaimLost(p)
    \/ OutcomeRecorded(p)
    \/ CancelRaises(p)
    \/ RoundFails(p)
    \/ CompleteRaises(p)
    \/ WorkerDies(p)

WorkerStep(p) ==
    \/ ListStale(p)
    \/ ListClaimable(p)
    \/ NothingToClaim(p)
    \/ \E t \in Tasks : OpenRequeue(p, t) \/ OpenClaim(p, t)
    \/ \E fn \in {"complete", "fail", "park"} : OpenOutcome(p, fn)

Step ==
    \/ \E p \in Procs : \/ WorkerStep(p)
                        \/ Lock(p)
                        \/ CallReturns(p)
                        \/ Crash(p)
    \/ \E p \in Procs, t \in Tasks : Submit(p, t) \/ OpenCancel(p, t)
    \/ \E t \in Tasks : ComesDue(t) \/ ClaimAges(t)

\* Nobody has a superseded inode open: what a call will read is what its path
\* names.  Processes still wait for each other, as long as the one that holds
\* the lock changes nothing or raises.
NoneSuperseded ==
    \A p \in Procs : call[p] # NoCall => call[p].fd = file[call[p].task]

Next == Step /\ overtaken' = (overtaken \/ ~NoneSuperseded')

Spec == Init /\ [][Next]_vars

-----------------------------------------------------------------------------
(* Properties *)

\* Until some call has had a superseded inode open, the files behave as the
\* ledger of TaskQueue: opening, locking, reading and replacing a task file
\* amounts to one atomic step, whoever waited for the lock, whatever writes
\* fail and whoever is killed on the way (_mutate_locked, _write).
ActsAtomically ==
    Ledger!Init /\ [][~overtaken => [Ledger!Next]_(Ledger!vars)]_vars

\* Until then, whoever executes a task owns the record its path names, which
\* says "claimed", or "cancelled" when a client called queue_cancel meanwhile
\* (claim_next, and the coroutine that records its outcome).
JobOwnsClaim == ~overtaken => Ledger!JobOwnsClaim

\* Until then, a path that says "done" or "failed" never says anything else:
\* no complete, fail, park, cancel, requeue or claim rewrites it.  (Later, a
\* queue_cancel that had opened the file before complete replaced it does.)
FinishedIsFinal ==
    [][~overtaken =>
         \A t \in Tasks : ledger[t].status \in {"done", "failed"} =>
             ledger'[t] = ledger[t]]_vars

\* Until then, a task cancelled while nobody executes it stays cancelled and is
\* never executed, although claim_next listed it before the cancel.  (Later, a
\* claim that had opened the file before cancel replaced it takes the task.)
CancelledStays ==
    [][~overtaken =>
         \A t \in Tasks :
             ledger[t].status = "cancelled" /\ (\A p \in Procs : job[p] # t) =>
                 /\ ledger'[t].status = "cancelled"
                 /\ \A p \in Procs : job'[p] # t]_vars

\* Two gpt2agent processes never execute one task at the same time: what the
\* flock of claim_next is there for (taskqueue.py docstring).
ExclusiveRun ==
    \A p, q \in Procs : job[p] # NoTask /\ job[p] = job[q] => p = q
=============================================================================
