--------------------------- MODULE TaskFilesProofs ---------------------------
(***************************************************************************)
(* The files of taskqueue.py implement the ledger of TaskQueue, for any    *)
(* processes, tasks and inodes, until some call has had a superseded inode *)
(* open; and always, when the host has one process only.                   *)
(***************************************************************************)
EXTENDS TaskFiles, TLAPS

USE FileAssumption

-----------------------------------------------------------------------------
(* The invariant                                                           *)

Outcome == {"complete", "fail", "park"}

\* What is at a path is a record that has been submitted.
Submitted == \A t \in Tasks : file[t] # NoFile => file[t].data.status # "absent"

\* The files a process has to do with exist.
FilesExist(p) ==
    /\ \A t \in todo[p] : file[t] # NoFile
    /\ job[p] # NoTask => file[job[p]] # NoFile
    /\ call[p] # NoCall => file[call[p].task] # NoFile

\* A process executes a task from its claim to the end of the call that records
\* the outcome, and has a listing in hand only while a loop walks it.
JobWhileRunning(p) ==
    /\ job[p] # NoTask <=> worker[p] \in {"running", "recording"}
    /\ todo[p] # {} => worker[p] \in {"rescuing", "claiming"}

\* The call a process is in belongs to where its worker stands: the loops work
\* at the head of their listing, an outcome is that of the job, and only
\* queue_cancel comes from elsewhere.
CallFitsWorker(p) ==
    /\ worker[p] = "recording" => call[p] # NoCall
    /\ call[p] # NoCall =>
         LET c == call[p]
         IN /\ c.fn = "requeue" =>
                 worker[p] = "rescuing" /\ c.task \in Ledger!Oldest(todo[p])
            /\ c.fn = "claim" =>
                 worker[p] = "claiming" /\ c.task \in Ledger!Oldest(todo[p])
            /\ c.fn = "cancel" => worker[p] \in {"off", "idle", "running"}
            /\ c.fn \in Outcome => worker[p] = "recording" /\ c.task = job[p]

ProcessInv(p) == FilesExist(p) /\ JobWhileRunning(p) /\ CallFitsWorker(p)

FilesInv == FilesTypeOK /\ Submitted /\ \A p \in Procs : ProcessInv(p)

-----------------------------------------------------------------------------
(* What a call reads and writes                                            *)

LEMMA RecordTypes ==
    ASSUME NEW r \in Ledger!TaskRecord, NEW how \in Ledger!Terminal, NEW p \in Procs
    PROVE  /\ Ledger!SubmittedRecord \in Ledger!TaskRecord
           /\ Ledger!ClaimedBy(r, p) \in Ledger!TaskRecord
           /\ Ledger!Requeued(r) \in Ledger!TaskRecord
           /\ Ledger!Parked(r) \in Ledger!TaskRecord
           /\ Ledger!Ended(r, how) \in Ledger!TaskRecord
           /\ [r EXCEPT !.due = TRUE] \in Ledger!TaskRecord
           /\ [r EXCEPT !.old = TRUE] \in Ledger!TaskRecord
  BY DEF Ledger!SubmittedRecord, Ledger!NoRecord, Ledger!ClaimedBy, Ledger!Requeued,
         Ledger!Parked, Ledger!Ended, Ledger!TaskRecord, Ledger!Status, Ledger!Terminal,
         Ledger!Runnable

LEMMA RecordStatus ==
    ASSUME NEW r \in Ledger!TaskRecord, NEW how, NEW p
    PROVE  /\ Ledger!SubmittedRecord.status = "queued"
           /\ Ledger!ClaimedBy(r, p).status = "claimed"
           /\ Ledger!Requeued(r).status = "queued"
           /\ Ledger!Parked(r).status = "waiting"
           /\ Ledger!Ended(r, how).status = how
           /\ [r EXCEPT !.due = TRUE].status = r.status
           /\ [r EXCEPT !.old = TRUE].status = r.status
  BY DEF Ledger!SubmittedRecord, Ledger!NoRecord, Ledger!ClaimedBy, Ledger!Requeued,
         Ledger!Parked, Ledger!Ended, Ledger!TaskRecord

LEMMA CallFields ==
    ASSUME NEW c \in Call
    PROVE  /\ c.task \in Tasks /\ c.fn \in Fn /\ c.fd \in File /\ c.held \in BOOLEAN
           /\ c.fd.ino \in Inodes /\ c.fd.data \in Ledger!TaskRecord
  BY DEF Call, File

LEMMA ChangesOf ==
    ASSUME NEW c \in Call
    PROVE  /\ c.fn = "requeue" => (Changes(c) <=> c.fd.data.status = "claimed")
           /\ c.fn = "claim" => (Changes(c) <=> c.fd.data.status \in Ledger!Runnable)
           /\ c.fn = "cancel" => (Changes(c) <=> c.fd.data.status \notin Ledger!Terminal)
           /\ c.fn \in Outcome => Changes(c)
  BY DEF Changes, Outcome

\* What a call writes is a record that exists, by what its fn does.
LEMMA ResultOf ==
    ASSUME NEW p \in Procs, NEW c \in Call
    PROVE  LET d == c.fd.data
           IN /\ c.fn = "requeue" => Result(p, c) = IF d.status = "claimed"
                                                      THEN Ledger!Requeued(d) ELSE d
              /\ c.fn = "claim" => Result(p, c) = IF d.status \in Ledger!Runnable
                                                    THEN Ledger!ClaimedBy(d, p) ELSE d
              /\ c.fn = "cancel" => Result(p, c) = IF d.status \notin Ledger!Terminal
                                                     THEN Ledger!Ended(d, "cancelled") ELSE d
              /\ c.fn = "complete" => Result(p, c) = Ledger!Ended(d, "done")
              /\ c.fn = "fail" => Result(p, c) = Ledger!Ended(d, "failed")
              /\ c.fn = "park" => Result(p, c) = Ledger!Parked(d)
<1> DEFINE d == c.fd.data
           w == CASE c.fn = "requeue"  -> Ledger!Requeued(d)
                  [] c.fn = "claim"    -> Ledger!ClaimedBy(d, p)
                  [] c.fn = "cancel"   -> Ledger!Ended(d, "cancelled")
                  [] c.fn = "complete" -> Ledger!Ended(d, "done")
                  [] c.fn = "fail"     -> Ledger!Ended(d, "failed")
                  [] c.fn = "park"     -> Ledger!Parked(d)
<1>1. Result(p, c) = IF ~Changes(c) THEN d ELSE w
  BY DEF Result
<1>2. /\ c.fn = "requeue" => w = Ledger!Requeued(d)
      /\ c.fn = "claim" => w = Ledger!ClaimedBy(d, p)
      /\ c.fn = "cancel" => w = Ledger!Ended(d, "cancelled")
      /\ c.fn = "complete" => w = Ledger!Ended(d, "done")
      /\ c.fn = "fail" => w = Ledger!Ended(d, "failed")
      /\ c.fn = "park" => w = Ledger!Parked(d)
  OBVIOUS
<1> HIDE DEF w, d
<1>3. CASE Changes(c)
  <2>1. Result(p, c) = w
    BY <1>1, <1>3
  <2> QED
    BY <1>2, <1>3, <2>1, ChangesOf DEF d
<1>4. CASE ~Changes(c)
  <2>1. Result(p, c) = d
    BY <1>1, <1>4
  <2> QED
    BY <1>4, <2>1, ChangesOf DEF Outcome, d
<1> QED
  BY <1>3, <1>4

LEMMA ResultType ==
    ASSUME NEW p \in Procs, NEW c \in Call
    PROVE  /\ Result(p, c) \in Ledger!TaskRecord
           /\ ~Changes(c) => Result(p, c) = c.fd.data
           /\ Changes(c) => Result(p, c).status # "absent"
<1> DEFINE d == c.fd.data
<1>1. d \in Ledger!TaskRecord /\ c.fn \in Fn
  BY CallFields
<1>2. \A how \in Ledger!Terminal : Ledger!Ended(d, how) \in Ledger!TaskRecord
                                   /\ Ledger!Ended(d, how).status # "absent"
  <2> TAKE how \in Ledger!Terminal
  <2>1. Ledger!Ended(d, how) \in Ledger!TaskRecord
    BY <1>1, RecordTypes
  <2>2. Ledger!Ended(d, how).status = how
    BY <1>1, RecordStatus
  <2> QED
    BY <2>1, <2>2 DEF Ledger!Terminal
<1>3. /\ Ledger!ClaimedBy(d, p) \in Ledger!TaskRecord
      /\ Ledger!ClaimedBy(d, p).status # "absent"
      /\ Ledger!Requeued(d) \in Ledger!TaskRecord /\ Ledger!Requeued(d).status # "absent"
      /\ Ledger!Parked(d) \in Ledger!TaskRecord /\ Ledger!Parked(d).status # "absent"
  BY <1>1, RecordTypes, RecordStatus DEF Ledger!Terminal
<1>4. {"done", "failed", "cancelled"} = Ledger!Terminal
  BY DEF Ledger!Terminal
<1>5. ~Changes(c) => Result(p, c) = d
  BY DEF Result
<1> HIDE DEF d
<1>6. Changes(c) => Result(p, c) \in Ledger!TaskRecord /\ Result(p, c).status # "absent"
  BY <1>1, <1>2, <1>3, <1>4, ResultOf, ChangesOf DEF Fn, Outcome, d
<1> QED
  BY <1>1, <1>5, <1>6 DEF d

\* The three ways a file changes: not at all, by a new inode, by a time that passes.
LEMMA FileTypes ==
    ASSUME FilesTypeOK, NEW t \in Tasks, NEW r \in Ledger!TaskRecord
    PROVE  /\ \A i \in Inodes : [file EXCEPT ![t] = [ino |-> i, data |-> r]]
                                  \in [Tasks -> File \cup {NoFile}]
           /\ file[t] # NoFile =>
                [file EXCEPT ![t].data = r] \in [Tasks -> File \cup {NoFile}]
  BY DEF FilesTypeOK, File

-----------------------------------------------------------------------------
(* The invariant is kept                                                   *)

\* Files never go, and what precedes a task is settled when it is submitted.
FilesGrow ==
    \A t \in Tasks : file[t] # NoFile => file'[t] # NoFile /\ older'[t] = older[t]

LEMMA OldestKept ==
    ASSUME FilesTypeOK, FilesGrow, NEW p \in Procs, FilesExist(p), todo'[p] = todo[p]
    PROVE  Ledger!Oldest(todo[p]) \subseteq Ledger!Oldest(todo[p])'
<1> SUFFICES ASSUME NEW t \in Ledger!Oldest(todo[p]) PROVE t \in Ledger!Oldest(todo[p])'
  OBVIOUS
<1>1. t \in todo[p] /\ older[t] \cap todo[p] = {}
  BY DEF Ledger!Oldest
<1>2. older'[t] = older[t]
  BY <1>1 DEF FilesTypeOK, FilesExist, FilesGrow
<1> QED
  BY <1>1, <1>2 DEF Ledger!Oldest

\* A process that does nothing meanwhile, or only to its call what leaves task and
\* fn alone.
LEMMA BystanderKeeps ==
    ASSUME FilesTypeOK, FilesGrow, NEW p \in Procs, ProcessInv(p),
           worker'[p] = worker[p], job'[p] = job[p], todo'[p] = todo[p],
           \/ call'[p] = call[p]
           \/ /\ call[p] # NoCall /\ call'[p] # NoCall
              /\ call'[p].task = call[p].task /\ call'[p].fn = call[p].fn
    PROVE  ProcessInv(p)'
<1>1. /\ todo[p] \subseteq Tasks
      /\ job[p] # NoTask => job[p] \in Tasks
      /\ call[p] # NoCall => call[p].task \in Tasks
  BY CallFields DEF FilesTypeOK
<1>2. FilesExist(p)'
  BY <1>1 DEF ProcessInv, FilesExist, FilesGrow
<1>3. JobWhileRunning(p)'
  BY DEF ProcessInv, JobWhileRunning
<1>4. CallFitsWorker(p)'
  BY OldestKept DEF ProcessInv, CallFitsWorker
<1> QED
  BY <1>2, <1>3, <1>4 DEF ProcessInv

\* A step of one process.
LEMMA ProcessKeeps ==
    ASSUME FilesInv, NEW p \in Procs, FilesTypeOK', Submitted', FilesGrow, ProcessInv(p)',
           \A q \in Procs \ {p} : /\ worker'[q] = worker[q] /\ job'[q] = job[q]
                                  /\ todo'[q] = todo[q] /\ call'[q] = call[q]
    PROVE  FilesInv'
<1>1. ASSUME NEW q \in Procs, q # p PROVE ProcessInv(q)'
  BY <1>1, BystanderKeeps DEF FilesInv
<1> QED
  BY <1>1 DEF FilesInv

\* Persist replaces the file of the call's task, or nothing.
LEMMA PersistFiles ==
    ASSUME FilesInv, NEW p \in Procs, Persist(p)
    PROVE  /\ call[p] \in Call /\ file[call[p].task] # NoFile
           /\ call' \in [Procs -> Call \cup {NoCall}] /\ call'[p] = NoCall
           /\ \A q \in Procs \ {p} : call'[q] = call[q]
           /\ file' \in [Tasks -> File \cup {NoFile}]
           /\ older' = older
           /\ FilesGrow
           /\ Submitted'
           /\ \/ file' = file /\ ~Changes(call[p])
              \/ \E i \in Inodes :
                   file' = [file EXCEPT ![call[p].task] =
                              [ino |-> i, data |-> Result(p, call[p])]]
<1>0. FilesTypeOK /\ call[p] # NoCall /\ ProcessInv(p) /\ Submitted
  BY DEF Persist, FilesInv
<1>1. call[p] \in Call /\ file[call[p].task] # NoFile
  BY <1>0 DEF FilesTypeOK, ProcessInv, FilesExist
<1>2. /\ call' \in [Procs -> Call \cup {NoCall}] /\ call'[p] = NoCall
      /\ \A q \in Procs \ {p} : call'[q] = call[q]
      /\ older' = older
  BY <1>0 DEF Persist, FilesTypeOK
<1> DEFINE t == call[p].task
           r == Result(p, call[p])
<1>3. t \in Tasks /\ r \in Ledger!TaskRecord
  BY <1>1, CallFields, ResultType
<1>4. CASE Changes(call[p])
  <2>1. PICK i \in Inodes : file' = [file EXCEPT ![t] = [ino |-> i, data |-> r]]
    BY <1>4 DEF Persist, Replace, FreeInodes
  <2>2. file' \in [Tasks -> File \cup {NoFile}]
    BY <1>0, <1>3, <2>1, FileTypes
  <2>3. r.status # "absent"
    BY <1>1, <1>4, ResultType
  <2> HIDE DEF r
  <2>4. [ino |-> i, data |-> r] # NoFile
    BY <1>3 DEF File
  <2>5. Submitted'
    BY <1>0, <1>3, <2>1, <2>3 DEF Submitted, FilesTypeOK
  <2>6. FilesGrow
    BY <1>0, <1>2, <1>3, <2>1, <2>4 DEF FilesGrow, FilesTypeOK
  <2> QED
    BY <1>1, <1>2, <2>1, <2>2, <2>5, <2>6 DEF r
<1>5. CASE ~Changes(call[p])
  <2>1. file' = file
    BY <1>5 DEF Persist
  <2> QED
    BY <1>0, <1>1, <1>2, <1>5, <2>1 DEF Submitted, FilesGrow, FilesTypeOK
<1> QED
  BY <1>4, <1>5

\* An open() gives a process a call; its worker may go to record an outcome.
LEMMA OpenKeeps ==
    ASSUME FilesInv, NEW p \in Procs, NEW t \in Tasks, NEW fn \in Fn, Open(p, t, fn),
           UNCHANGED <<file, older, job, todo>>,
           worker' \in [Procs -> Ledger!WorkerState \cup {"recording"}],
           \A q \in Procs \ {p} : worker'[q] = worker[q],
           worker'[p] = "recording" <=> fn \in Outcome,
           fn \notin Outcome => worker'[p] = worker[p],
           fn = "requeue" => worker[p] = "rescuing" /\ t \in Ledger!Oldest(todo[p]),
           fn = "claim" => worker[p] = "claiming" /\ t \in Ledger!Oldest(todo[p]),
           fn = "cancel" => worker[p] \in {"off", "idle", "running"},
           fn \in Outcome => worker[p] = "running" /\ t = job[p]
    PROVE  FilesInv'
<1> DEFINE c == [task |-> t, fn |-> fn, fd |-> file[t], held |-> FALSE]
<1>0. FilesTypeOK /\ Submitted /\ ProcessInv(p) /\ file[t] # NoFile /\ file[t] \in File
  BY DEF FilesInv, Open, FilesTypeOK
<1>1. c \in Call
  BY <1>0 DEF Call
<1>2. call' = [call EXCEPT ![p] = c]
  BY DEF Open
<1>3. FilesTypeOK'
  BY <1>0, <1>1, <1>2 DEF FilesTypeOK
<1>4. call'[p] = c /\ c # NoCall /\ c.task = t /\ c.fn = fn
  BY <1>0, <1>1, <1>2 DEF FilesTypeOK
<1> HIDE DEF c
<1>5. FilesExist(p)'
  BY <1>0, <1>4 DEF ProcessInv, FilesExist
<1>6. JobWhileRunning(p)'
  BY <1>0 DEF ProcessInv, JobWhileRunning, Outcome
<1>7. CallFitsWorker(p)'
  BY <1>0, <1>4 DEF ProcessInv, CallFitsWorker, Ledger!Oldest, Outcome
<1>8. \A q \in Procs \ {p} : call'[q] = call[q]
  BY <1>0, <1>2 DEF FilesTypeOK
<1>9. Submitted' /\ FilesGrow
  BY <1>0 DEF Submitted, FilesGrow
<1> QED
  BY <1>3, <1>5, <1>6, <1>7, <1>8, <1>9, ProcessKeeps DEF ProcessInv

LEMMA OpensKeep ==
    ASSUME FilesInv, NEW p \in Procs,
           \/ \E t \in Tasks : OpenCancel(p, t) \/ OpenRequeue(p, t) \/ OpenClaim(p, t)
           \/ \E fn \in Outcome : OpenOutcome(p, fn)
    PROVE  FilesInv'
<1>0. FilesTypeOK /\ ProcessInv(p)
  BY DEF FilesInv
<1>1. CASE \E t \in Tasks : OpenCancel(p, t)
  BY <1>0, <1>1, OpenKeeps DEF OpenCancel, LoopFree, Fn, Outcome, FilesTypeOK
<1>2. CASE \E t \in Tasks : OpenRequeue(p, t)
  BY <1>0, <1>2, OpenKeeps DEF OpenRequeue, Inside, Fn, Outcome, FilesTypeOK
<1>3. CASE \E t \in Tasks : OpenClaim(p, t)
  BY <1>0, <1>3, OpenKeeps DEF OpenClaim, Inside, Fn, Outcome, FilesTypeOK
<1>4. ASSUME NEW fn \in Outcome, OpenOutcome(p, fn) PROVE FilesInv'
  <2>1. job[p] \in Tasks
    BY <1>0, <1>4 DEF ProcessInv, JobWhileRunning, OpenOutcome, Inside, FilesTypeOK
  <2>2. /\ worker[p] = "running" /\ Open(p, job[p], fn)
        /\ worker' = [worker EXCEPT ![p] = "recording"]
        /\ UNCHANGED <<file, older, job, todo>>
    BY <1>4 DEF OpenOutcome, Inside
  <2>3. worker' \in [Procs -> Ledger!WorkerState \cup {"recording"}]
    BY <1>0, <2>2 DEF FilesTypeOK
  <2>4. worker'[p] = "recording" /\ \A q \in Procs \ {p} : worker'[q] = worker[q]
    BY <1>0, <2>2 DEF FilesTypeOK
  <2>5. fn \in Fn
    BY DEF Outcome, Fn
  <2> QED
    BY <2>1, <2>2, <2>3, <2>4, <2>5, OpenKeeps DEF Outcome
<1> QED
  BY <1>1, <1>2, <1>3, <1>4

\* A step of a worker, or of a client, that is in no call before and after.
LEMMA IdleCallKeeps ==
    ASSUME FilesInv, NEW p \in Procs, FilesTypeOK', FilesGrow, Submitted', call'[p] = NoCall,
           \A q \in Procs \ {p} : /\ worker'[q] = worker[q] /\ job'[q] = job[q]
                                  /\ todo'[q] = todo[q] /\ call'[q] = call[q],
           \A t \in todo'[p] : file'[t] # NoFile,
           job'[p] # NoTask => file'[job'[p]] # NoFile,
           job'[p] # NoTask <=> worker'[p] = "running",
           todo'[p] # {} => worker'[p] \in {"rescuing", "claiming"},
           worker'[p] # "recording"
    PROVE  FilesInv'
<1>1. ProcessInv(p)'
  BY DEF ProcessInv, FilesExist, JobWhileRunning, CallFitsWorker
<1> QED
  BY <1>1, ProcessKeeps

LEMMA PersistKeeps ==
    ASSUME FilesInv, NEW p \in Procs,
           \/ Cancelled(p) \/ RequeueReturns(p) \/ ClaimWon(p) \/ ClaimLost(p)
           \/ OutcomeRecorded(p)
    PROVE  FilesInv'
<1>0. FilesTypeOK /\ ProcessInv(p) /\ Persist(p)
  BY DEF FilesInv, Cancelled, RequeueReturns, ClaimWon, ClaimLost, OutcomeRecorded
<1>1. /\ call[p] \in Call /\ call[p] # NoCall /\ file[call[p].task] # NoFile
      /\ call' \in [Procs -> Call \cup {NoCall}] /\ call'[p] = NoCall
      /\ \A q \in Procs \ {p} : call'[q] = call[q]
      /\ file' \in [Tasks -> File \cup {NoFile}]
      /\ older' = older /\ FilesGrow /\ Submitted'
  BY <1>0, PersistFiles DEF Persist
<1>2. call[p].task \in Tasks
  BY <1>1, CallFields
<1>3. /\ todo[p] \subseteq Tasks
      /\ \A t \in todo[p] : file'[t] # NoFile
      /\ job[p] # NoTask => job[p] \in Tasks /\ file'[job[p]] # NoFile
      /\ file'[call[p].task] # NoFile
  BY <1>0, <1>1, <1>2 DEF ProcessInv, FilesExist, FilesGrow, FilesTypeOK
<1>4. FilesTypeOK'
  BY <1>0, <1>1, <1>2 DEF Cancelled, RequeueReturns, ClaimWon, ClaimLost, OutcomeRecorded,
                          FilesTypeOK, Ledger!WorkerState
<1>5. /\ worker'[p] # "recording"
      /\ job'[p] # NoTask <=> worker'[p] = "running"
      /\ todo'[p] # {} => worker'[p] \in {"rescuing", "claiming"}
  BY <1>0, <1>1, <1>2 DEF Cancelled, RequeueReturns, ClaimWon, ClaimLost, OutcomeRecorded,
                    FilesTypeOK, ProcessInv, JobWhileRunning, CallFitsWorker
<1>6. /\ \A t \in todo'[p] : file'[t] # NoFile
      /\ job'[p] # NoTask => file'[job'[p]] # NoFile
  BY <1>0, <1>2, <1>3 DEF Cancelled, RequeueReturns, ClaimWon, ClaimLost, OutcomeRecorded, FilesTypeOK
<1>7. \A q \in Procs \ {p} : /\ worker'[q] = worker[q] /\ job'[q] = job[q]
                             /\ todo'[q] = todo[q] /\ call'[q] = call[q]
  BY <1>0, <1>1 DEF Cancelled, RequeueReturns, ClaimWon, ClaimLost, OutcomeRecorded, FilesTypeOK
<1> QED
  BY <1>1, <1>4, <1>5, <1>6, <1>7, IdleCallKeeps

LEMMA SubmitKeeps ==
    ASSUME FilesInv, NEW p \in Procs, NEW t \in Tasks, Submit(p, t) PROVE FilesInv'
<1>0. FilesTypeOK /\ Submitted /\ ProcessInv(p) /\ file[t] = NoFile /\ call[p] = NoCall
  BY DEF FilesInv, Submit, LoopFree
<1> DEFINE r == Ledger!SubmittedRecord
<1>1. r \in Ledger!TaskRecord /\ r.status = "queued"
  BY DEF Ledger!SubmittedRecord, Ledger!NoRecord, Ledger!TaskRecord, Ledger!Status,
         Ledger!Runnable
<1>2. PICK i \in Inodes : file' = [file EXCEPT ![t] = [ino |-> i, data |-> r]]
  BY DEF Submit, Replace, FreeInodes
<1>3. file' \in [Tasks -> File \cup {NoFile}]
  BY <1>0, <1>1, <1>2, FileTypes
<1> HIDE DEF r
<1>4. [ino |-> i, data |-> r] \in File
  BY <1>1 DEF File
<1>5. Submitted'
  BY <1>0, <1>1, <1>2 DEF Submitted, FilesTypeOK
<1>6. FilesGrow
  BY <1>0, <1>2, <1>4 DEF FilesGrow, FilesTypeOK, Submit
<1>7. FilesTypeOK'
  <2>1. older' \in [Tasks -> SUBSET Tasks]
    BY <1>0 DEF FilesTypeOK, Submit
  <2> QED
    BY <1>0, <1>3, <2>1 DEF FilesTypeOK, Submit, Ledger!WorkerState
<1>8. /\ \A u \in todo[p] : file'[u] # NoFile
      /\ job[p] # NoTask => file'[job[p]] # NoFile
  BY <1>0, <1>6 DEF ProcessInv, FilesExist, FilesGrow, FilesTypeOK
<1>9. /\ job'[p] # NoTask <=> worker'[p] = "running"
      /\ todo'[p] # {} => worker'[p] \in {"rescuing", "claiming"}
      /\ worker'[p] # "recording"
  BY <1>0 DEF ProcessInv, JobWhileRunning, CallFitsWorker, Submit, LoopFree, FilesTypeOK
<1>10. \A q \in Procs \ {p} : /\ worker'[q] = worker[q] /\ job'[q] = job[q]
                              /\ todo'[q] = todo[q] /\ call'[q] = call[q]
  BY <1>0 DEF Submit, FilesTypeOK
<1> QED
  BY <1>0, <1>5, <1>6, <1>7, <1>8, <1>9, <1>10, IdleCallKeeps DEF Submit

LEMMA LoopKeeps ==
    ASSUME FilesInv, NEW p \in Procs,
           \/ ListStale(p) \/ ListClaimable(p) \/ NothingToClaim(p)
           \/ CancelRaises(p) \/ RoundFails(p) \/ WorkerDies(p) \/ Crash(p)
    PROVE  FilesInv'
<1>0. FilesTypeOK /\ Submitted /\ ProcessInv(p)
  BY DEF FilesInv
<1>1. UNCHANGED <<file, older>> /\ Submitted' /\ FilesGrow
  BY <1>0 DEF ListStale, ListClaimable, NothingToClaim, CancelRaises, RoundFails, WorkerDies,
              Crash, Submitted, FilesGrow
<1>2. \A t \in Ledger!StaleClaims \cup Ledger!Claimable : t \in Tasks /\ file[t] # NoFile
  BY DEF Ledger!StaleClaims, Ledger!Claimable, ledger, Ledger!Runnable
<1>3. FilesTypeOK'
  BY <1>0, <1>1, <1>2 DEF ListStale, ListClaimable, NothingToClaim, CancelRaises, RoundFails,
              WorkerDies, Crash, FilesTypeOK, Ledger!WorkerState
<1>4. /\ call'[p] = NoCall
      /\ \A q \in Procs \ {p} : /\ worker'[q] = worker[q] /\ job'[q] = job[q]
                                /\ todo'[q] = todo[q] /\ call'[q] = call[q]
  BY <1>0 DEF ListStale, ListClaimable, NothingToClaim, CancelRaises, RoundFails,
              WorkerDies, Crash, FilesTypeOK, Inside
<1>5. /\ job'[p] # NoTask <=> worker'[p] = "running"
      /\ todo'[p] # {} => worker'[p] \in {"rescuing", "claiming"}
      /\ worker'[p] # "recording"
  BY <1>0 DEF ListStale, ListClaimable, NothingToClaim, CancelRaises, RoundFails, WriteRaises,
              WorkerDies, Crash, FilesTypeOK, Inside, ProcessInv, JobWhileRunning, CallFitsWorker,
              Outcome
<1>6. /\ \A t \in todo'[p] : file'[t] # NoFile
      /\ job'[p] # NoTask => file'[job'[p]] # NoFile
  BY <1>0, <1>1, <1>2 DEF ListStale, ListClaimable, NothingToClaim, CancelRaises, RoundFails,
              WorkerDies, Crash, FilesTypeOK, ProcessInv, FilesExist
<1> QED
  BY <1>1, <1>3, <1>4, <1>5, <1>6, IdleCallKeeps

LEMMA CompleteRaisesKeeps ==
    ASSUME FilesInv, NEW p \in Procs, CompleteRaises(p) PROVE FilesInv'
<1>0. FilesTypeOK /\ Submitted /\ ProcessInv(p)
  BY DEF FilesInv
<1> DEFINE c == [task |-> job[p], fn |-> "fail", fd |-> file[job[p]], held |-> FALSE]
<1>1. worker[p] = "recording" /\ job[p] \in Tasks /\ file[job[p]] \in File
  BY <1>0 DEF CompleteRaises, WriteRaises, ProcessInv, JobWhileRunning, CallFitsWorker,
              FilesExist, Outcome, FilesTypeOK
<1>2. c \in Call
  BY <1>1 DEF Call, Fn
<1>3. call' = [call EXCEPT ![p] = c] /\ UNCHANGED <<file, older, worker, job, todo>>
  BY DEF CompleteRaises
<1>4. c.task = job[p] /\ c.fn = "fail"
  OBVIOUS
<1> HIDE DEF c
<1>5. FilesTypeOK' /\ call'[p] = c /\ \A q \in Procs \ {p} : call'[q] = call[q]
  BY <1>0, <1>2, <1>3 DEF FilesTypeOK
<1>6. FilesExist(p)' /\ JobWhileRunning(p)'
  BY <1>0, <1>1, <1>3, <1>4, <1>5 DEF ProcessInv, FilesExist, JobWhileRunning
<1>7. CallFitsWorker(p)'
  BY <1>1, <1>2, <1>3, <1>4, <1>5, FileAssumption DEF CallFitsWorker, Outcome
<1>8. Submitted' /\ FilesGrow
  BY <1>0, <1>3 DEF Submitted, FilesGrow
<1> QED
  BY <1>3, <1>5, <1>6, <1>7, <1>8, ProcessKeeps DEF ProcessInv

LEMMA LockKeeps ==
    ASSUME FilesInv, NEW p \in Procs, Lock(p) PROVE FilesInv'
<1>0. FilesTypeOK /\ Submitted /\ call[p] \in Call
  BY DEF FilesInv, Lock, FilesTypeOK
<1> DEFINE c == [call[p] EXCEPT !.held = TRUE]
<1>1. /\ c \in Call /\ c.task = call[p].task /\ c.fn = call[p].fn
      /\ call[p] # NoCall /\ c # NoCall
  BY <1>0 DEF Call
<1>2. call' = [call EXCEPT ![p] = c] /\ UNCHANGED <<file, older, worker, job, todo>>
  BY DEF Lock
<1> HIDE DEF c
<1>3. FilesTypeOK' /\ call'[p] = c /\ \A q \in Procs \ {p} : call'[q] = call[q]
  BY <1>0, <1>1, <1>2 DEF FilesTypeOK
<1>4. Submitted' /\ FilesGrow
  BY <1>0, <1>2 DEF Submitted, FilesGrow
<1>5. ProcessInv(p)'
  BY <1>0, <1>1, <1>2, <1>3, <1>4, BystanderKeeps DEF FilesInv
<1> QED
  BY <1>2, <1>3, <1>4, <1>5, ProcessKeeps

\* A time passes, of a file and of whoever has it open.
LEMMA PassesKeeps ==
    ASSUME FilesInv, NEW t \in Tasks, file[t] # NoFile, NEW r \in Ledger!TaskRecord,
           r.status = file[t].data.status, Passes(t, r)
    PROVE  FilesInv'
<1>0. FilesTypeOK /\ Submitted /\ file[t] \in File
  BY DEF FilesInv, FilesTypeOK
<1>1. /\ file' = [file EXCEPT ![t].data = r] /\ UNCHANGED <<older, worker, job, todo>>
      /\ file' \in [Tasks -> File \cup {NoFile}]
  BY <1>0, FileTypes DEF Passes
<1>2. file'[t] = [ino |-> file[t].ino, data |-> r] /\ \A u \in Tasks \ {t} : file'[u] = file[u]
  BY <1>0, <1>1 DEF FilesTypeOK, File
<1>3. file'[t] # NoFile
  BY <1>0, <1>2 DEF File
<1>4. Submitted' /\ FilesGrow
  BY <1>0, <1>1, <1>2, <1>3 DEF Submitted, FilesGrow
<1>5. ASSUME NEW q \in Procs
      PROVE  /\ call'[q] \in Call \cup {NoCall}
             /\ \/ call'[q] = call[q]
                \/ /\ call[q] # NoCall /\ call'[q] # NoCall
                   /\ call'[q].task = call[q].task /\ call'[q].fn = call[q].fn
  <2>1. CASE call[q] # NoCall /\ call[q].task = t /\ call[q].fd = file[t]
    <3>1. call'[q] = [call[q] EXCEPT !.fd.data = r] /\ call[q] \in Call
      BY <1>0, <2>1 DEF Passes, FilesTypeOK
    <3>2. /\ [call[q] EXCEPT !.fd.data = r] \in Call
          /\ [call[q] EXCEPT !.fd.data = r].task = call[q].task
          /\ [call[q] EXCEPT !.fd.data = r].fn = call[q].fn
      BY <3>1 DEF Call, File
    <3> QED
      BY <2>1, <3>1, <3>2
  <2>2. CASE ~(call[q] # NoCall /\ call[q].task = t /\ call[q].fd = file[t])
    BY <1>0, <2>2 DEF Passes, FilesTypeOK
  <2> QED
    BY <2>1, <2>2
<1>6. call' \in [Procs -> Call \cup {NoCall}]
  BY <1>5 DEF Passes
<1>7. FilesTypeOK'
  BY <1>0, <1>1, <1>6 DEF FilesTypeOK
<1>8. ASSUME NEW q \in Procs PROVE ProcessInv(q)'
  BY <1>0, <1>1, <1>4, <1>5, BystanderKeeps DEF FilesInv
<1> QED
  BY <1>4, <1>7, <1>8 DEF FilesInv

LEMMA TimeKeeps ==
    ASSUME FilesInv, NEW t \in Tasks, ComesDue(t) \/ ClaimAges(t) PROVE FilesInv'
<1>1. file[t] \in File /\ file[t] # NoFile /\ file[t].data \in Ledger!TaskRecord
  BY DEF FilesInv, FilesTypeOK, ComesDue, ClaimAges, File
<1> DEFINE d == file[t].data
<1>2. /\ [d EXCEPT !.due = TRUE] \in Ledger!TaskRecord
      /\ [d EXCEPT !.old = TRUE] \in Ledger!TaskRecord
      /\ [d EXCEPT !.due = TRUE].status = d.status
      /\ [d EXCEPT !.old = TRUE].status = d.status
  BY <1>1 DEF Ledger!TaskRecord
<1>3. Passes(t, [d EXCEPT !.due = TRUE]) \/ Passes(t, [d EXCEPT !.old = TRUE])
  BY DEF ComesDue, ClaimAges
<1> HIDE DEF d
<1> QED
  BY <1>1, <1>2, <1>3, PassesKeeps DEF d

LEMMA InitFiles == Init => FilesInv
BY DEF Init, FilesInv, FilesTypeOK, Submitted, ProcessInv, FilesExist, JobWhileRunning,
       CallFitsWorker, Ledger!WorkerState

\* The history variable adds nothing to what a step does to the files.
LEMMA FilesStep == [Next]_vars => [Step]_files
BY DEF Next, vars

LEMMA StepFiles == FilesInv /\ [Next]_vars => FilesInv'
<1> SUFFICES ASSUME FilesInv, [Next]_vars PROVE FilesInv'
  OBVIOUS
<1>0. [Step]_files
  BY FilesStep
<1>1. CASE UNCHANGED files
  BY <1>0, <1>1 DEF files, FilesInv, FilesTypeOK, Submitted, ProcessInv, FilesExist, JobWhileRunning,
              CallFitsWorker, Ledger!Oldest
<1>2. ASSUME NEW p \in Procs, WorkerStep(p) PROVE FilesInv'
  BY <1>2, LoopKeeps, OpensKeep DEF WorkerStep, Outcome
<1>3. ASSUME NEW p \in Procs, CallReturns(p) PROVE FilesInv'
  BY <1>3, LoopKeeps, PersistKeeps, CompleteRaisesKeeps DEF CallReturns
<1>4. ASSUME NEW p \in Procs, NEW t \in Tasks, Submit(p, t) \/ OpenCancel(p, t)
      PROVE  FilesInv'
  BY <1>4, SubmitKeeps, OpensKeep
<1> QED
  BY <1>0, <1>1, <1>2, <1>3, <1>4, LockKeeps, LoopKeeps, TimeKeeps DEF Step

LEMMA Files == Spec => []FilesInv
BY InitFiles, StepFiles, PTL DEF Spec

-----------------------------------------------------------------------------
(* The files as a ledger                                                   *)

LEMMA LedgerAt ==
    ASSUME NEW t \in Tasks, file[t] # NoFile PROVE ledger[t] = file[t].data
BY DEF ledger

\* What a changed file does to the ledger: the record is another, at one task.
LEMMA LedgerWrite ==
    ASSUME FilesTypeOK, NEW t \in Tasks, NEW r \in Ledger!TaskRecord,
           \/ \E i \in Inodes : file' = [file EXCEPT ![t] = [ino |-> i, data |-> r]]
           \/ file[t] # NoFile /\ file' = [file EXCEPT ![t].data = r]
    PROVE  ledger' = [ledger EXCEPT ![t] = r]
<1>1. file'[t] # NoFile /\ file'[t].data = r
  <2>1. CASE \E i \in Inodes : file' = [file EXCEPT ![t] = [ino |-> i, data |-> r]]
    <3>1. PICK i \in Inodes : file' = [file EXCEPT ![t] = [ino |-> i, data |-> r]]
      BY <2>1
    <3> DEFINE f == [ino |-> i, data |-> r]
    <3>2. f \in File /\ f.data = r
      BY DEF File
    <3>3. file'[t] = f
      BY <3>1 DEF FilesTypeOK
    <3> HIDE DEF f
    <3> QED
      BY <3>2, <3>3
  <2>2. CASE file[t] # NoFile /\ file' = [file EXCEPT ![t].data = r]
    <3> DEFINE f == [file[t] EXCEPT !.data = r]
    <3>1. f \in File /\ f.data = r
      BY <2>2 DEF FilesTypeOK, File
    <3>2. file'[t] = f
      BY <2>2 DEF FilesTypeOK
    <3> HIDE DEF f
    <3> QED
      BY <3>1, <3>2
  <2> QED
    BY <2>1, <2>2
<1>2. \A u \in Tasks \ {t} : file'[u] = file[u]
  BY DEF FilesTypeOK
<1>3. \A u \in Tasks : ledger'[u] = [ledger EXCEPT ![t] = r][u]
  BY <1>1, <1>2 DEF ledger
<1> QED
  BY <1>3 DEF ledger

LEMMA LedgerSame == UNCHANGED file => UNCHANGED ledger
BY DEF ledger

LEMMA WorkerMoves ==
    ASSUME FilesTypeOK, NEW p \in Procs, NEW s, s # "recording",
           worker' = [worker EXCEPT ![p] = s]
    PROVE  ledgerWorker' = [ledgerWorker EXCEPT ![p] = s]
BY DEF ledgerWorker, FilesTypeOK

LEMMA WorkerSame == UNCHANGED worker => UNCHANGED ledgerWorker
BY DEF ledgerWorker

LEMMA WorkerAt ==
    ASSUME NEW p \in Procs
    PROVE  /\ worker[p] = "recording" => ledgerWorker[p] = "running"
           /\ worker[p] # "recording" => ledgerWorker[p] = worker[p]
BY DEF ledgerWorker

\* A call that opened what is still at the path when it returns is one step of the
\* ledger: what it read is the record now, and its result is the record then.
LEMMA PersistWrites ==
    ASSUME FilesInv, NoneSuperseded, NEW p \in Procs, Persist(p)
    PROVE  LET c == call[p]
           IN /\ c \in Call /\ c.task \in Tasks /\ c.fn \in Fn
              /\ ledger[c.task] = c.fd.data
              /\ ledger[c.task].status # "absent"
              /\ ledger' = [ledger EXCEPT ![c.task] = Result(p, c)]
              /\ UNCHANGED older
<1> DEFINE c == call[p]
           t == call[p].task
<1>0. FilesTypeOK /\ Submitted /\ ProcessInv(p)
  BY DEF FilesInv
<1>1. c \in Call /\ c # NoCall
  BY <1>0 DEF Persist, FilesTypeOK
<1>2. t \in Tasks /\ c.fn \in Fn
  BY <1>1, CallFields
<1>3. file[t] # NoFile /\ c.fd = file[t] /\ file[t].data.status # "absent"
  BY <1>0, <1>1, <1>2 DEF NoneSuperseded, ProcessInv, FilesExist, Submitted
<1>4. ledger[t] = c.fd.data
  BY <1>2, <1>3, LedgerAt
<1>5. Result(p, c) \in Ledger!TaskRecord /\ (~Changes(c) => Result(p, c) = c.fd.data)
  BY <1>1, ResultType
<1>6. CASE Changes(c)
  <2>1. \E i \in Inodes : file' = [file EXCEPT ![t] = [ino |-> i, data |-> Result(p, c)]]
    BY <1>6 DEF Persist, Replace, FreeInodes
  <2> QED
    BY <1>0, <1>1, <1>2, <1>3, <1>4, <1>5, <2>1, LedgerWrite DEF Persist
<1>7. CASE ~Changes(c)
  <2>1. UNCHANGED <<file, older>>
    BY <1>7 DEF Persist
  <2>2. ledger' = ledger /\ Result(p, c) = ledger[t]
    BY <1>4, <1>5, <1>7, <2>1, LedgerSame
  <2>3. [ledger EXCEPT ![t] = ledger[t]] = ledger
    BY DEF ledger
  <2> QED
    BY <1>1, <1>2, <1>3, <1>4, <2>1, <2>2, <2>3
<1> QED
  BY <1>6, <1>7

-----------------------------------------------------------------------------
(* Every step of the files is a step of the ledger, or none                *)

\* Opening, locking, and a raise that is somebody's to handle do not show.
LEMMA Unseen ==
    ASSUME FilesInv, NEW p \in Procs,
           \/ Lock(p) \/ CancelRaises(p) \/ CompleteRaises(p)
           \/ \E t \in Tasks : OpenCancel(p, t) \/ OpenRequeue(p, t) \/ OpenClaim(p, t)
           \/ \E fn \in Outcome : OpenOutcome(p, fn)
    PROVE  UNCHANGED Ledger!vars
<1>1. UNCHANGED <<file, older, job, todo>>
  BY DEF Lock, CancelRaises, CompleteRaises, OpenCancel, OpenRequeue, OpenClaim, OpenOutcome
<1>2. \/ UNCHANGED worker
      \/ worker[p] = "running" /\ worker' = [worker EXCEPT ![p] = "recording"]
  BY DEF Lock, CancelRaises, CompleteRaises, OpenCancel, OpenRequeue, OpenClaim, OpenOutcome,
         Inside
<1>3. UNCHANGED ledgerWorker
  BY <1>2, WorkerSame DEF ledgerWorker, FilesInv, FilesTypeOK
<1> QED
  BY <1>1, <1>3, LedgerSame DEF Ledger!vars

LEMMA SubmitsOnce ==
    ASSUME FilesInv, NEW p \in Procs, NEW t \in Tasks, Submit(p, t)
    PROVE  Ledger!Submit(p, t)
<1>0. FilesTypeOK /\ Submitted
  BY DEF FilesInv
<1>1. \A u \in Tasks : file[u] # NoFile <=> ledger[u].status # "absent"
  BY <1>0 DEF ledger, Submitted
<1>2. ledger' = [ledger EXCEPT ![t] = Ledger!SubmittedRecord]
  <2>1. \E i \in Inodes :
          file' = [file EXCEPT ![t] = [ino |-> i, data |-> Ledger!SubmittedRecord]]
    BY DEF Submit, Replace, FreeInodes
  <2>2. Ledger!SubmittedRecord \in Ledger!TaskRecord
    BY DEF Ledger!SubmittedRecord, Ledger!NoRecord, Ledger!TaskRecord, Ledger!Status,
           Ledger!Runnable
  <2> QED
    BY <1>0, <2>1, <2>2, LedgerWrite
<1>3. worker[p] # "recording" /\ ledgerWorker[p] = worker[p]
  BY WorkerAt DEF Submit, LoopFree
<1>4. ledgerWorker' = [ledgerWorker EXCEPT
                         ![p] = IF @ = "off" /\ p \in Workers THEN "idle" ELSE @]
  <2> DEFINE s == IF worker[p] = "off" /\ p \in Workers THEN "idle" ELSE worker[p]
  <2>1. worker' = [worker EXCEPT ![p] = s] /\ s # "recording"
    BY <1>3 DEF Submit
  <2>2. ledgerWorker' = [ledgerWorker EXCEPT ![p] = s]
    BY <1>0, <2>1, WorkerMoves
  <2> QED
    BY <1>3, <2>2
<1>5. Ledger!LoopFree(p)
  BY <1>3 DEF Submit, LoopFree, Ledger!LoopFree
<1>6. older' = [older EXCEPT ![t] = {u \in Tasks : ledger[u].status # "absent"}]
  <2>1. {u \in Tasks : file[u] # NoFile} = {u \in Tasks : ledger[u].status # "absent"}
    BY <1>1
  <2> QED
    BY <2>1 DEF Submit
<1> QED
  BY <1>1, <1>2, <1>4, <1>5, <1>6 DEF Submit, Ledger!Submit

\* A queue_cancel that was in time cancels; one that was not leaves no trace.
LEMMA CancelsOnce ==
    ASSUME FilesInv, NoneSuperseded, NEW p \in Procs, Cancelled(p)
    PROVE  (\E t \in Tasks : Ledger!Cancel(p, t)) \/ UNCHANGED Ledger!vars
<1> DEFINE c == call[p]
<1>0. Persist(p) /\ c # NoCall /\ c.fn = "cancel" /\ UNCHANGED <<worker, job, todo>>
  BY DEF Cancelled, Persist
<1>1. /\ c \in Call /\ c.task \in Tasks
      /\ ledger[c.task] = c.fd.data /\ ledger[c.task].status # "absent"
      /\ ledger' = [ledger EXCEPT ![c.task] = Result(p, c)]
      /\ UNCHANGED older
  BY <1>0, PersistWrites
<1>2. worker[p] \in {"off", "idle", "running"}
  BY <1>0 DEF FilesInv, ProcessInv, CallFitsWorker
<1>3. ledgerWorker[p] = worker[p] /\ UNCHANGED ledgerWorker
  BY <1>0, <1>2, WorkerAt, WorkerSame
<1> HIDE DEF c
<1> DEFINE r == ledger[c.task]
<1>4. Result(p, c) = IF r.status \notin Ledger!Terminal THEN Ledger!Ended(r, "cancelled")
                                                        ELSE r
  BY <1>0, <1>1, ResultOf
<1>5. CASE r.status \notin Ledger!Terminal
  BY <1>0, <1>1, <1>2, <1>3, <1>4, <1>5 DEF Ledger!Cancel, Ledger!LoopFree
<1>6. CASE r.status \in Ledger!Terminal
  <2>1. [ledger EXCEPT ![c.task] = r] = ledger
    BY DEF ledger
  <2> QED
    BY <1>0, <1>1, <1>3, <1>4, <1>6, <2>1 DEF Ledger!vars
<1> QED
  BY <1>5, <1>6

LEMMA RequeuesOnce ==
    ASSUME FilesInv, NoneSuperseded, NEW p \in Procs, RequeueReturns(p)
    PROVE  \E t \in Tasks : Ledger!Requeue(p, t)
<1> DEFINE c == call[p]
<1>0. /\ Persist(p) /\ c # NoCall /\ c.fn = "requeue"
      /\ todo' = [todo EXCEPT ![p] = @ \ {c.task}] /\ UNCHANGED <<worker, job>>
  BY DEF RequeueReturns, Persist
<1>1. /\ c \in Call /\ c.task \in Tasks
      /\ ledger[c.task] = c.fd.data
      /\ ledger' = [ledger EXCEPT ![c.task] = Result(p, c)]
      /\ UNCHANGED older
  BY <1>0, PersistWrites
<1>2. worker[p] = "rescuing" /\ c.task \in Ledger!Oldest(todo[p])
  BY <1>0 DEF FilesInv, ProcessInv, CallFitsWorker
<1>3. ledgerWorker[p] = "rescuing" /\ UNCHANGED ledgerWorker
  BY <1>0, <1>2, WorkerAt, WorkerSame
<1> HIDE DEF c
<1> DEFINE r == ledger[c.task]
<1>4. Result(p, c) = IF r.status = "claimed" THEN Ledger!Requeued(r) ELSE r
  BY <1>0, <1>1, ResultOf
<1>5. [ledger EXCEPT ![c.task] = r] = ledger
  BY DEF ledger
<1>6. ledger' = IF r.status = "claimed" THEN [ledger EXCEPT ![c.task] = Ledger!Requeued(@)]
                                        ELSE ledger
  BY <1>1, <1>4, <1>5
<1> QED
  BY <1>0, <1>1, <1>2, <1>3, <1>6 DEF Ledger!Requeue

LEMMA ClaimsOnce ==
    ASSUME FilesInv, NoneSuperseded, NEW p \in Procs, ClaimWon(p) \/ ClaimLost(p)
    PROVE  \E t \in Tasks : Ledger!Claim(p, t)
<1> DEFINE c == call[p]
<1>0. Persist(p) /\ c # NoCall /\ c.fn = "claim"
  BY DEF ClaimWon, ClaimLost, Persist
<1>1. /\ c \in Call /\ c.task \in Tasks
      /\ ledger[c.task] = c.fd.data
      /\ ledger' = [ledger EXCEPT ![c.task] = Result(p, c)]
      /\ UNCHANGED older
  BY <1>0, PersistWrites
<1>2. worker[p] = "claiming" /\ c.task \in Ledger!Oldest(todo[p])
  BY <1>0 DEF FilesInv, ProcessInv, CallFitsWorker
<1>3. \/ /\ Result(p, c).owner = p
         /\ worker' = [worker EXCEPT ![p] = "running"]
         /\ job' = [job EXCEPT ![p] = c.task]
         /\ todo' = [todo EXCEPT ![p] = {}]
      \/ /\ Result(p, c).owner # p
         /\ todo' = [todo EXCEPT ![p] = @ \ {c.task}]
         /\ UNCHANGED <<worker, job>>
  BY DEF ClaimWon, ClaimLost
<1>4. FilesTypeOK
  BY DEF FilesInv
<1> HIDE DEF c
<1>5. \/ /\ Result(p, c).owner = p
         /\ ledgerWorker' = [ledgerWorker EXCEPT ![p] = "running"]
         /\ job' = [job EXCEPT ![p] = c.task]
         /\ todo' = [todo EXCEPT ![p] = {}]
      \/ /\ Result(p, c).owner # p
         /\ todo' = [todo EXCEPT ![p] = @ \ {c.task}]
         /\ UNCHANGED <<ledgerWorker, job>>
  BY <1>3, <1>4, WorkerMoves, WorkerSame
<1>6. ledgerWorker[p] = "claiming"
  BY <1>2, WorkerAt
<1> DEFINE r == ledger[c.task]
<1>7. Result(p, c) = IF r.status \in Ledger!Runnable THEN Ledger!ClaimedBy(r, p) ELSE r
  BY <1>0, <1>1, ResultOf
<1>8. Ledger!Claim(p, c.task)
  BY <1>1, <1>2, <1>5, <1>6, <1>7 DEF Ledger!Claim
<1> QED
  BY <1>1, <1>8

LEMMA RecordsOnce ==
    ASSUME FilesInv, NoneSuperseded, NEW p \in Procs, OutcomeRecorded(p)
    PROVE  Ledger!Complete(p) \/ Ledger!Fail(p) \/ Ledger!Park(p)
<1> DEFINE c == call[p]
<1>0. /\ FilesTypeOK /\ Persist(p) /\ c # NoCall /\ worker[p] = "recording"
      /\ worker' = [worker EXCEPT ![p] = "idle"]
      /\ job' = [job EXCEPT ![p] = NoTask] /\ UNCHANGED todo
  BY DEF OutcomeRecorded, Persist, FilesInv
<1>1. /\ c \in Call /\ c.task \in Tasks /\ c.fn \in Fn
      /\ ledger[c.task] = c.fd.data
      /\ ledger' = [ledger EXCEPT ![c.task] = Result(p, c)]
      /\ UNCHANGED older
  BY <1>0, PersistWrites
<1>2. c.fn \in Outcome /\ c.task = job[p]
  BY <1>0, <1>1 DEF FilesInv, ProcessInv, CallFitsWorker, Outcome, Fn
<1>3. ledgerWorker[p] = "running" /\ ledgerWorker' = [ledgerWorker EXCEPT ![p] = "idle"]
  BY <1>0, WorkerAt, WorkerMoves
<1> HIDE DEF c
<1> DEFINE r == ledger[job[p]]
<1>4. /\ c.fn = "complete" => Result(p, c) = Ledger!Ended(r, "done")
      /\ c.fn = "fail" => Result(p, c) = Ledger!Ended(r, "failed")
      /\ c.fn = "park" => Result(p, c) = Ledger!Parked(r)
  BY <1>1, <1>2, ResultOf
<1>5. Ledger!Finish(p, Result(p, c))
  BY <1>0, <1>1, <1>2, <1>3 DEF Ledger!Finish
<1> QED
  BY <1>2, <1>4, <1>5 DEF Outcome, Ledger!Complete, Ledger!Fail, Ledger!Park

\* What a worker does between its calls, what a write that raises makes of it, and
\* being killed: the ledger's own steps.
LEMMA ListsAlike ==
    ASSUME FilesInv, NEW p \in Procs
    PROVE  /\ ListStale(p) => Ledger!ListStale(p)
           /\ ListClaimable(p) => Ledger!ListClaimable(p)
           /\ NothingToClaim(p) => Ledger!NothingToClaim(p)
<1>1. FilesTypeOK
  BY DEF FilesInv
<1> QED
  BY <1>1, WorkerAt, WorkerMoves, LedgerSame
     DEF ListStale, ListClaimable, NothingToClaim, Inside,
         Ledger!ListStale, Ledger!ListClaimable, Ledger!NothingToClaim

LEMMA RaisesAlike ==
    ASSUME FilesInv, NEW p \in Procs
    PROVE  /\ RoundFails(p) => Ledger!RoundFails(p)
           /\ WorkerDies(p) => Ledger!WorkerDies(p)
<1>1. FilesTypeOK /\ ProcessInv(p)
  BY DEF FilesInv
<1>2. ASSUME RoundFails(p) PROVE Ledger!RoundFails(p)
  <2>1. worker[p] \in {"rescuing", "claiming"} /\ todo[p] # {}
    BY <1>1, <1>2 DEF RoundFails, WriteRaises, ProcessInv, CallFitsWorker, Ledger!Oldest
  <2> QED
    BY <1>1, <1>2, <2>1, WorkerAt, WorkerMoves, LedgerSame
       DEF RoundFails, WriteRaises, Ledger!RoundFails
<1>3. ASSUME WorkerDies(p) PROVE Ledger!WorkerDies(p)
  <2>1. worker[p] = "recording"
    BY <1>1, <1>3 DEF WorkerDies, WriteRaises, ProcessInv, CallFitsWorker, Outcome
  <2> QED
    BY <1>1, <1>3, <2>1, WorkerAt, WorkerMoves, LedgerSame
       DEF WorkerDies, WriteRaises, Ledger!WorkerDies
<1> QED
  BY <1>2, <1>3

\* A server without a worker that is killed while it cancels had nothing to lose.
LEMMA CrashesAlike ==
    ASSUME FilesInv, NEW p \in Procs, Crash(p)
    PROVE  Ledger!Crash(p) \/ UNCHANGED Ledger!vars
<1>1. FilesTypeOK /\ ProcessInv(p)
  BY DEF FilesInv
<1>2. ledgerWorker' = [ledgerWorker EXCEPT ![p] = "off"] /\ UNCHANGED <<ledger, older>>
  BY <1>1, WorkerMoves, LedgerSame DEF Crash
<1>3. CASE worker[p] # "off"
  BY <1>2, <1>3, WorkerAt DEF Crash, Ledger!Crash
<1>4. CASE worker[p] = "off"
  <2>1. job[p] = NoTask /\ todo[p] = {} /\ ledgerWorker[p] = "off"
    BY <1>1, <1>4, WorkerAt DEF ProcessInv, JobWhileRunning
  <2>2. UNCHANGED <<job, todo>>
    BY <1>1, <2>1 DEF Crash, FilesTypeOK
  <2>3. UNCHANGED ledgerWorker
    BY <1>2, <2>1 DEF ledgerWorker
  <2> QED
    BY <1>2, <2>2, <2>3 DEF Ledger!vars
<1> QED
  BY <1>3, <1>4

LEMMA TimeAlike ==
    ASSUME FilesInv, NEW t \in Tasks
    PROVE  /\ ComesDue(t) => Ledger!ComesDue(t)
           /\ ClaimAges(t) => Ledger!ClaimAges(t)
<1>1. FilesTypeOK
  BY DEF FilesInv
<1>2. ASSUME file[t] # NoFile PROVE /\ ledger[t] = file[t].data
                                    /\ file[t].data \in Ledger!TaskRecord
  BY <1>1, <1>2, LedgerAt DEF FilesTypeOK, File
<1>3. ASSUME NEW r \in Ledger!TaskRecord, file[t] # NoFile, Passes(t, r)
      PROVE  ledger' = [ledger EXCEPT ![t] = r] /\ UNCHANGED <<older, ledgerWorker, job, todo>>
  BY <1>1, <1>3, LedgerWrite, WorkerSame DEF Passes
<1>4. ASSUME ComesDue(t) PROVE Ledger!ComesDue(t)
  <2> DEFINE r == [file[t].data EXCEPT !.due = TRUE]
  <2>1. file[t] # NoFile /\ r \in Ledger!TaskRecord /\ Passes(t, r)
    BY <1>2, <1>4, RecordTypes DEF ComesDue, Ledger!TaskRecord
  <2>2. ledger' = [ledger EXCEPT ![t] = r] /\ UNCHANGED <<older, ledgerWorker, job, todo>>
    BY <1>3, <2>1
  <2> QED
    BY <1>2, <1>4, <2>1, <2>2 DEF ComesDue, Ledger!ComesDue
<1>5. ASSUME ClaimAges(t) PROVE Ledger!ClaimAges(t)
  <2> DEFINE r == [file[t].data EXCEPT !.old = TRUE]
  <2>1. file[t] # NoFile /\ r \in Ledger!TaskRecord /\ Passes(t, r)
    BY <1>2, <1>5 DEF ClaimAges, Ledger!TaskRecord
  <2>2. ledger' = [ledger EXCEPT ![t] = r] /\ UNCHANGED <<older, ledgerWorker, job, todo>>
    BY <1>3, <2>1
  <2> QED
    BY <1>2, <1>5, <2>1, <2>2 DEF ClaimAges, Ledger!ClaimAges
<1> QED
  BY <1>4, <1>5

LEMMA LedgerInit == Init => Ledger!Init
BY DEF Init, Ledger!Init, ledger, ledgerWorker, Ledger!NoRecord

LEMMA LedgerStep ==
    FilesInv /\ NoneSuperseded /\ [Next]_vars => [Ledger!Next]_(Ledger!vars)
<1> SUFFICES ASSUME FilesInv, NoneSuperseded, [Step]_files
             PROVE  [Ledger!Next]_(Ledger!vars)
  BY FilesStep
<1>1. CASE UNCHANGED files
  BY <1>1, LedgerSame, WorkerSame DEF files, Ledger!vars
<1>2. ASSUME NEW p \in Procs, WorkerStep(p) PROVE [Ledger!Next]_(Ledger!vars)
  BY <1>2, ListsAlike, Unseen DEF WorkerStep, Outcome, Ledger!Next, Ledger!WorkerStep
<1>3. ASSUME NEW p \in Procs, CallReturns(p) PROVE [Ledger!Next]_(Ledger!vars)
  <2>1. CASE Cancelled(p)
    BY <2>1, CancelsOnce DEF Ledger!Next
  <2>2. CASE RequeueReturns(p) \/ ClaimWon(p) \/ ClaimLost(p) \/ OutcomeRecorded(p)
    BY <2>2, RequeuesOnce, ClaimsOnce, RecordsOnce DEF Ledger!Next, Ledger!WorkerStep
  <2>3. CASE RoundFails(p) \/ WorkerDies(p)
    BY <2>3, RaisesAlike DEF Ledger!Next, Ledger!WorkerStep
  <2>4. CASE CancelRaises(p) \/ CompleteRaises(p)
    BY <2>4, Unseen
  <2> QED
    BY <1>3, <2>1, <2>2, <2>3, <2>4 DEF CallReturns
<1>4. ASSUME NEW p \in Procs, Lock(p) \/ Crash(p) PROVE [Ledger!Next]_(Ledger!vars)
  BY <1>4, Unseen, CrashesAlike DEF Ledger!Next
<1>5. ASSUME NEW p \in Procs, NEW t \in Tasks, Submit(p, t) \/ OpenCancel(p, t)
      PROVE  [Ledger!Next]_(Ledger!vars)
  BY <1>5, SubmitsOnce, Unseen DEF Ledger!Next
<1>6. ASSUME NEW t \in Tasks, ComesDue(t) \/ ClaimAges(t)
      PROVE  [Ledger!Next]_(Ledger!vars)
  BY <1>6, TimeAlike DEF Ledger!Next
<1> QED
  BY <1>1, <1>2, <1>3, <1>4, <1>5, <1>6 DEF Step

\* What the history variable remembers.
Watch == overtaken \in BOOLEAN /\ (~overtaken => NoneSuperseded)

LEMMA WatchInit == Init => Watch /\ NoneSuperseded
<1>1. Init => overtaken = FALSE /\ \A p \in Procs : call[p] = NoCall
  BY DEF Init
<1> QED
  BY <1>1 DEF Watch, NoneSuperseded

LEMMA WatchStep == Watch /\ [Next]_vars => Watch' /\ (~overtaken' => ~overtaken)
BY DEF Watch, Next, vars, files, NoneSuperseded

LEMMA Watched == Spec => []Watch
<1>1. Watch /\ [Next]_vars => Watch'
  BY WatchStep
<1> QED
  BY <1>1, WatchInit, PTL DEF Spec

\* Whatever is locked, replaced, superseded or killed, files, descriptors and workers
\* keep their types: what a call writes is always a task record.
THEOREM FileTypesKept == Spec => []TypeOK
<1>1. FilesInv /\ Watch => TypeOK
  BY DEF FilesInv, Watch, TypeOK
<1> QED
  BY <1>1, Files, Watched, PTL

\* Until some call has had a superseded inode open, what taskqueue.py does with open,
\* flock, read and os.replace is what the ledger does in one step, for any number of
\* processes and tasks: a call that waited sees what it would have seen.
THEOREM FilesAreALedger == Spec => ActsAtomically
<1>1. Init => Ledger!Init
  BY LedgerInit
<1>2. FilesInv /\ Watch /\ [Next]_vars => [~overtaken => [Ledger!Next]_(Ledger!vars)]_vars
  BY LedgerStep DEF Watch
<1> QED
  BY <1>1, <1>2, Files, Watched, PTL DEF Spec, ActsAtomically

-----------------------------------------------------------------------------
(* What that gives: the invariants of the ledger hold of the files until   *)
(* some call has had a superseded inode open                               *)

LedgerProofs == INSTANCE TaskQueueProofs WITH task <- ledger, worker <- ledgerWorker

\* The ledger the files implement is the one those theorems are about.
LEMMA SameLedger ==
    /\ Ledger!Init => LedgerProofs!Init
    /\ [Ledger!Next]_(Ledger!vars) => [LedgerProofs!Next]_(LedgerProofs!vars)
<1>1. Ledger!Init => LedgerProofs!Init
  BY DEF Ledger!Init, LedgerProofs!Init, Ledger!NoRecord, LedgerProofs!NoRecord
<1>2. [Ledger!Next]_(Ledger!vars) => [LedgerProofs!Next]_(LedgerProofs!vars)
  BY Zenon DEF Ledger!vars, Ledger!Next, Ledger!WorkerStep, Ledger!ListStale,
          Ledger!StaleClaims, Ledger!Requeue, Ledger!Requeued, Ledger!Oldest,
          Ledger!ListClaimable, Ledger!Claimable, Ledger!Claim, Ledger!ClaimedBy,
          Ledger!NothingToClaim, Ledger!RoundFails, Ledger!Complete, Ledger!Fail,
          Ledger!Park, Ledger!Parked, Ledger!Finish, Ledger!Ended, Ledger!WorkerDies,
          Ledger!Crash, Ledger!Submit, Ledger!SubmittedRecord, Ledger!NoRecord,
          Ledger!LoopFree, Ledger!Cancel, Ledger!ComesDue, Ledger!ClaimAges,
          Ledger!Runnable, Ledger!Terminal,
          LedgerProofs!vars, LedgerProofs!Next, LedgerProofs!WorkerStep,
          LedgerProofs!ListStale, LedgerProofs!StaleClaims, LedgerProofs!Requeue,
          LedgerProofs!Requeued, LedgerProofs!Oldest, LedgerProofs!ListClaimable,
          LedgerProofs!Claimable, LedgerProofs!Claim, LedgerProofs!ClaimedBy,
          LedgerProofs!NothingToClaim, LedgerProofs!RoundFails, LedgerProofs!Complete,
          LedgerProofs!Fail, LedgerProofs!Park, LedgerProofs!Parked, LedgerProofs!Finish,
          LedgerProofs!Ended, LedgerProofs!WorkerDies, LedgerProofs!Crash,
          LedgerProofs!Submit, LedgerProofs!SubmittedRecord, LedgerProofs!NoRecord,
          LedgerProofs!LoopFree, LedgerProofs!Cancel, LedgerProofs!ComesDue,
          LedgerProofs!ClaimAges, LedgerProofs!Runnable, LedgerProofs!Terminal
<1> QED
  BY <1>1, <1>2

LEMMA UntilOvertaken ==
    FilesInv /\ Watch /\ [Next]_vars /\ ~overtaken =>
        [LedgerProofs!Next]_(LedgerProofs!vars)
BY LedgerStep, SameLedger DEF Watch

\* The two situations in which the ledger's claims are safe.
OneWorkerUntil == Watch /\ (~overtaken => LedgerProofs!OneWorkerInv)

NoOrphansUntil == Watch /\ (~overtaken => LedgerProofs!NoOrphansInv)

LEMMA OneWorkerHolds ==
    ASSUME LedgerProofs!OneWorker PROVE Spec => []OneWorkerUntil
<1>1. Init => OneWorkerUntil
  BY WatchInit, LedgerInit, SameLedger, LedgerProofs!OneWorkerInit DEF OneWorkerUntil
<1>2. FilesInv /\ OneWorkerUntil /\ [Next]_vars => OneWorkerUntil'
  BY UntilOvertaken, WatchStep, LedgerProofs!OneWorkerStep DEF OneWorkerUntil
<1> QED
  BY <1>1, <1>2, Files, PTL DEF Spec

LEMMA NoOrphansHold ==
    ASSUME LedgerProofs!NoOrphans PROVE Spec => []NoOrphansUntil
<1>1. Init => NoOrphansUntil
  BY WatchInit, LedgerInit, SameLedger, LedgerProofs!NoOrphansInit DEF NoOrphansUntil
<1>2. FilesInv /\ NoOrphansUntil /\ [Next]_vars => NoOrphansUntil'
  BY UntilOvertaken, WatchStep, LedgerProofs!NoOrphansStep DEF NoOrphansUntil
<1> QED
  BY <1>1, <1>2, Files, PTL DEF Spec

\* With one worker on the host: whatever its clients submit and cancel, whatever
\* writes fail, however long executions take and whoever is killed, the worker owns
\* what it executes, until some call has had a superseded inode open.
THEOREM OneWorkerOwnership ==
    ASSUME LedgerProofs!OneWorker PROVE Spec => []JobOwnsClaim
<1>1. OneWorkerUntil => JobOwnsClaim
  BY DEF OneWorkerUntil, LedgerProofs!OneWorkerInv, LedgerProofs!JobOwnsClaim,
         JobOwnsClaim, Ledger!JobOwnsClaim
<1> QED
  BY <1>1, OneWorkerHolds, PTL

\* Several workers: if none is killed, no write fails and no execution outlasts the
\* stale bound, claim_next hands a task to one process at a time until some call has
\* had a superseded inode open.  (After that, TLC finds the double claim.)
THEOREM ExclusiveUnlessSuperseded ==
    ASSUME LedgerProofs!NoOrphans PROVE Spec => [](~overtaken => ExclusiveRun)
<1>1. FilesInv /\ NoOrphansUntil => (~overtaken => ExclusiveRun)
  BY DEF NoOrphansUntil, LedgerProofs!NoOrphansInv, LedgerProofs!JobOwnsClaim,
         ExclusiveRun, FilesInv, FilesTypeOK
<1> QED
  BY <1>1, NoOrphansHold, Files, PTL

\* Where executions are covered by claims, no step rewrites a finished record.
LEMMA FinishedKept ==
    ASSUME FilesInv, OneWorkerUntil \/ NoOrphansUntil, [Next]_vars, ~overtaken,
           NEW t \in Tasks, ledger[t].status \in {"done", "failed"}
    PROVE  ledger'[t] = ledger[t]
BY UntilOvertaken, LedgerProofs!FinishedStep
   DEF OneWorkerUntil, NoOrphansUntil, LedgerProofs!OneWorkerInv, LedgerProofs!NoOrphansInv

\* With one worker, a path that says done or failed is not rewritten, by no cancel,
\* requeue, claim or late outcome, until some call has had a superseded inode open.
THEOREM OneWorkerFinality ==
    ASSUME LedgerProofs!OneWorker PROVE Spec => FinishedIsFinal
<1> DEFINE A == ~overtaken =>
                  \A t \in Tasks : ledger[t].status \in {"done", "failed"} =>
                      ledger'[t] = ledger[t]
<1>1. FilesInv /\ OneWorkerUntil /\ [Next]_vars => [A]_vars
  BY FinishedKept
<1> QED
  BY <1>1, Files, OneWorkerHolds, PTL DEF Spec, FinishedIsFinal

\* The same of several workers, if none is killed, no write fails and no execution
\* outlasts the stale bound.
THEOREM FinalityWithoutOrphans ==
    ASSUME LedgerProofs!NoOrphans PROVE Spec => FinishedIsFinal
<1> DEFINE A == ~overtaken =>
                  \A t \in Tasks : ledger[t].status \in {"done", "failed"} =>
                      ledger'[t] = ledger[t]
<1>1. FilesInv /\ NoOrphansUntil /\ [Next]_vars => [A]_vars
  BY FinishedKept
<1> QED
  BY <1>1, Files, NoOrphansHold, PTL DEF Spec, FinishedIsFinal

\* With one worker, a cancel that comes before the claim is not lost, until some
\* call has had a superseded inode open.
THEOREM OneWorkerCancels ==
    ASSUME LedgerProofs!OneWorker PROVE Spec => CancelledStays
<1> DEFINE A == ~overtaken =>
                  \A t \in Tasks :
                      ledger[t].status = "cancelled" /\ (\A p \in Procs : job[p] # t) =>
                          /\ ledger'[t].status = "cancelled"
                          /\ \A p \in Procs : job'[p] # t
<1>1. FilesInv /\ OneWorkerUntil /\ [Next]_vars => [A]_vars
  <2> SUFFICES ASSUME FilesInv, OneWorkerUntil, [Next]_vars, ~overtaken,
                      NEW t \in Tasks, ledger[t].status = "cancelled",
                      \A p \in Procs : job[p] # t
               PROVE  ledger'[t].status = "cancelled" /\ \A p \in Procs : job'[p] # t
    OBVIOUS
  <2>1. LedgerProofs!Running(t) = {}
    BY DEF LedgerProofs!Running
  <2>2. ledger'[t].status = "cancelled" /\ LedgerProofs!Running(t)' = {}
    BY <2>1, UntilOvertaken, LedgerProofs!CancelledStep
       DEF OneWorkerUntil, LedgerProofs!OneWorkerInv
  <2> QED
    BY <2>2 DEF LedgerProofs!Running
<1> QED
  BY <1>1, Files, OneWorkerHolds, PTL DEF Spec, CancelledStays

\* One server on the host: its event loop is in one call at a time, so nobody else
\* replaces what it has open.
LEMMA AloneStep ==
    ASSUME NEW w, Procs = {w}, FilesInv, NoneSuperseded, [Step]_files
    PROVE  NoneSuperseded'
<1>0. FilesTypeOK
  BY DEF FilesInv
<1> SUFFICES ASSUME call'[w] # NoCall PROVE call'[w].fd = file'[call'[w].task]
  BY DEF NoneSuperseded
<1>1. CASE UNCHANGED <<file, call>>
  BY <1>1 DEF NoneSuperseded
<1>2. ASSUME NEW t \in Tasks, NEW fn \in Fn, Open(w, t, fn), UNCHANGED file
      PROVE  call'[w].fd = file'[call'[w].task]
  <2> DEFINE c == [task |-> t, fn |-> fn, fd |-> file[t], held |-> FALSE]
  <2>1. call'[w] = c
    BY <1>0, <1>2 DEF Open, FilesTypeOK
  <2> QED
    BY <1>2, <2>1
<1>3. ASSUME Lock(w) PROVE call'[w].fd = file'[call'[w].task]
  <2>1. call[w] \in Call /\ call[w] # NoCall
    BY <1>0, <1>3 DEF Lock, FilesTypeOK
  <2>2. call'[w].fd = call[w].fd /\ call'[w].task = call[w].task /\ file' = file
    BY <1>0, <1>3, <2>1 DEF Lock, FilesTypeOK, Call
  <2> QED
    BY <2>1, <2>2 DEF NoneSuperseded
<1>4. ASSUME CompleteRaises(w) PROVE call'[w].fd = file'[call'[w].task]
  <2> DEFINE c == [task |-> job[w], fn |-> "fail", fd |-> file[job[w]], held |-> FALSE]
  <2>1. call'[w] = c
    BY <1>0, <1>4 DEF CompleteRaises, FilesTypeOK
  <2> QED
    BY <1>4, <2>1 DEF CompleteRaises
<1>5. ASSUME Persist(w) \/ call'[w] = NoCall PROVE FALSE
  BY <1>0, <1>5 DEF Persist, FilesTypeOK
<1>6. ASSUME NEW t \in Tasks, NEW r \in Ledger!TaskRecord, file[t] # NoFile, Passes(t, r)
      PROVE  call'[w].fd = file'[call'[w].task]
  <2> DEFINE c == [call[w] EXCEPT !.fd.data = r]
  <2>1. call'[w] = IF call[w] # NoCall /\ call[w].task = t /\ call[w].fd = file[t]
                     THEN c ELSE call[w]
    BY <1>6 DEF Passes
  <2>2. call[w] # NoCall
    BY <2>1
  <2>3. call[w] \in Call /\ call[w].fd = file[call[w].task]
    BY <1>0, <2>2 DEF FilesTypeOK, NoneSuperseded
  <2>4. c.task = call[w].task /\ c.fd = [call[w].fd EXCEPT !.data = r]
    BY <2>3 DEF Call, File
  <2> HIDE DEF c
  <2>5. /\ file'[t] = [file[t] EXCEPT !.data = r]
        /\ \A u \in Tasks \ {t} : file'[u] = file[u]
    BY <1>0, <1>6 DEF Passes, FilesTypeOK
  <2> QED
    BY <2>1, <2>2, <2>3, <2>4, <2>5, CallFields
<1>7. ASSUME NEW t \in Tasks, ComesDue(t) \/ ClaimAges(t)
      PROVE  call'[w].fd = file'[call'[w].task]
  <2> DEFINE d == file[t].data
  <2>1. file[t] # NoFile /\ d \in Ledger!TaskRecord
    BY <1>0, <1>7 DEF ComesDue, ClaimAges, FilesTypeOK, File
  <2>2. /\ [d EXCEPT !.due = TRUE] \in Ledger!TaskRecord
        /\ [d EXCEPT !.old = TRUE] \in Ledger!TaskRecord
    BY <2>1 DEF Ledger!TaskRecord
  <2>3. Passes(t, [d EXCEPT !.due = TRUE]) \/ Passes(t, [d EXCEPT !.old = TRUE])
    BY <1>7 DEF ComesDue, ClaimAges
  <2> HIDE DEF d
  <2> QED
    BY <1>6, <2>1, <2>2, <2>3
<1>8. ASSUME WorkerStep(w) PROVE call'[w].fd = file'[call'[w].task]
  <2>1. CASE \E t \in Tasks : OpenRequeue(w, t) \/ OpenClaim(w, t)
    BY <1>2, <2>1 DEF OpenRequeue, OpenClaim, Fn
  <2>2. CASE \E fn \in Outcome : OpenOutcome(w, fn)
    <3>1. job[w] \in Tasks
      BY <1>0, <2>2 DEF OpenOutcome, Inside, FilesInv, ProcessInv, JobWhileRunning, FilesTypeOK
    <3> QED
      BY <1>2, <2>2, <3>1 DEF OpenOutcome, Fn, Outcome
  <2>3. CASE ListStale(w) \/ ListClaimable(w) \/ NothingToClaim(w)
    BY <1>1, <2>3 DEF ListStale, ListClaimable, NothingToClaim
  <2> QED
    BY <1>8, <2>1, <2>2, <2>3 DEF WorkerStep, Outcome
<1>9. ASSUME CallReturns(w) PROVE call'[w].fd = file'[call'[w].task]
  <2>1. CASE CancelRaises(w) \/ RoundFails(w) \/ WorkerDies(w)
    BY <1>0, <1>5, <2>1 DEF CancelRaises, RoundFails, WorkerDies, FilesTypeOK
  <2> QED
    BY <1>4, <1>5, <1>9, <2>1
       DEF CallReturns, Cancelled, RequeueReturns, ClaimWon, ClaimLost, OutcomeRecorded
<1>10. ASSUME Crash(w) PROVE call'[w].fd = file'[call'[w].task]
  BY <1>0, <1>5, <1>10 DEF Crash, FilesTypeOK
<1>11. ASSUME NEW t \in Tasks, Submit(w, t) \/ OpenCancel(w, t)
       PROVE  call'[w].fd = file'[call'[w].task]
  <2>1. CASE Submit(w, t)
    BY <1>0, <2>1 DEF Submit, LoopFree
  <2>2. CASE OpenCancel(w, t)
    BY <1>2, <2>2 DEF OpenCancel, Fn
  <2> QED
    BY <1>11, <2>1, <2>2
<1> QED
  BY <1>1, <1>3, <1>7, <1>8, <1>9, <1>10, <1>11 DEF Step, files

LEMMA NeverOvertaken ==
    ASSUME NEW w, Procs = {w} PROVE Spec => [](NoneSuperseded /\ ~overtaken)
<1> DEFINE Inv == NoneSuperseded /\ overtaken = FALSE
<1>1. Init => Inv
  BY WatchInit DEF Init
<1>2. FilesInv /\ Inv /\ [Next]_vars => Inv'
  BY AloneStep, FilesStep DEF Next, vars
<1> HIDE DEF Inv
<1>3. Inv => NoneSuperseded /\ ~overtaken
  BY DEF Inv
<1> QED
  BY <1>1, <1>2, <1>3, Files, PTL DEF Spec

\* With one gpt2agent server on the host the files always are the ledger: whatever
\* fails to write and whenever the server is killed, on or off a task.
THEOREM OneServerIsALedger ==
    ASSUME NEW w, Procs = {w} PROVE Spec => Ledger!Spec
<1>1. FilesInv /\ NoneSuperseded /\ [Next]_vars => [Ledger!Next]_(Ledger!vars)
  BY LedgerStep
<1> QED
  BY <1>1, LedgerInit, Files, NeverOvertaken, PTL DEF Spec, Ledger!Spec

\* So, on such a host, the file that says done or failed is the last word on a task:
\* no cancel, requeue, claim or restart of the server rewrites it.
THEOREM OneServerFinality ==
    ASSUME NEW w, Procs = {w}
    PROVE  Spec => [][\A t \in Tasks :
                        file[t] # NoFile /\ file[t].data.status \in {"done", "failed"}
                          => file'[t] # NoFile /\ file'[t].data = file[t].data]_vars
<1> DEFINE A == \A t \in Tasks :
                  file[t] # NoFile /\ file[t].data.status \in {"done", "failed"}
                    => file'[t] # NoFile /\ file'[t].data = file[t].data
<1>1. LedgerProofs!OneWorker
  BY FileAssumption DEF LedgerProofs!OneWorker
<1>2. FilesInv /\ ~overtaken /\ OneWorkerUntil /\ [Next]_vars => [A]_vars
  <2> SUFFICES ASSUME FilesInv, ~overtaken, OneWorkerUntil, [Next]_vars,
                      NEW t \in Tasks, file[t] # NoFile,
                      file[t].data.status \in {"done", "failed"}
               PROVE  file'[t] # NoFile /\ file'[t].data = file[t].data
    OBVIOUS
  <2>1. ledger[t] = file[t].data
    BY DEF ledger
  <2>2. ledger'[t] = ledger[t]
    BY <2>1, FinishedKept
  <2>3. ledger'[t] = IF file'[t] = NoFile
                       THEN [status |-> "absent", owner |-> NoProc,
                             due |-> TRUE, old |-> FALSE]
                       ELSE file'[t].data
    BY DEF ledger
  <2> QED
    BY <2>1, <2>2, <2>3
<1> QED
  BY <1>1, <1>2, Files, NeverOvertaken, OneWorkerHolds, PTL DEF Spec
=============================================================================
