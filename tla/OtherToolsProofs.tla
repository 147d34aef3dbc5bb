--------------------------- MODULE OtherToolsProofs ---------------------------
(***************************************************************************)
(* Proofs about the components that stand by themselves: the two updates   *)
(* of a host that put back what they replaced (FleetSync, for any number   *)
(* of syncs, interpreters, commits and branches, and SkillInstall, for any *)
(* contents and any number of faults), and the tools MCOtherTools checks   *)
(* together.                                                               *)
(***************************************************************************)
EXTENDS MCOtherTools, TLAPS

Receipts == {"none", "failed", "preview", "verified", "restored", "rollback failed"}

-----------------------------------------------------------------------------
(* FleetSync: types *)

LEMMA InitTypeOK == ASSUME Init PROVE TypeOK
  BY SyncAssumption DEF Init, TypeOK, Versions, Stages, NothingSaved, NothingTried

LEMMA GoesTypes ==
    ASSUME TypeOK, NEW s \in Syncs, NEW stage \in Stages, Goes(s, stage)
    PROVE  at' \in [Syncs -> Stages]
  BY DEF TypeOK, Goes, Stages

LEMMA NotesTypes ==
    ASSUME TypeOK, NEW s \in Syncs, NEW status \in Receipts, Notes(s, status)
    PROVE  receipt' \in [Syncs -> Receipts]
  BY DEF TypeOK, Notes, Receipts

LEMMA InstallTypes ==
    ASSUME TypeOK, NEW p \in Pythons, Install(p)
    PROVE  metadata' \in [Pythons -> Versions]
  BY DEF TypeOK, Install, Versions

CloneTypes == [head : Commits, branch : Branches \cup {Detached},
               tip : [Branches -> Commits], dirty : BOOLEAN]

LEMMA CheckoutCommitTypes ==
    ASSUME TypeOK, NEW c \in Commits, CheckoutCommit(c) PROVE clone' \in CloneTypes
  BY DEF TypeOK, CheckoutCommit, CloneTypes

LEMMA CheckoutBranchTypes ==
    ASSUME TypeOK, NEW b \in Branches, CheckoutBranch(b) PROVE clone' \in CloneTypes
  BY DEF TypeOK, CheckoutBranch, CloneTypes

\* The steps outside of the lock.
Begins(s) ==
    Preflight(s) \/ ReadHead(s) \/ ReadBranch(s) \/ PreflightFails(s) \/ TakeLock(s)

\* The steps of one who holds the lock, but those that run an interpreter.
Moves(s) ==
    \/ NoChanges(s) \/ Recheck(s) \/ Checkout(s) \/ Confirm(s) \/ UpdateFails(s)
    \/ CheckBack(s) \/ CheckoutBack(s) \/ BranchBack(s) \/ BranchCheckout(s)
    \/ ConfirmBack(s) \/ RollbackFails(s) \/ Unlock(s) \/ Crash(s)

Runs(s) ==
    \E p \in Pythons :
        InstallNext(s, p) \/ Verify(s, p) \/ InstallBack(s, p) \/ VerifyBack(s, p)

LEMMA SyncSteps ==
    ASSUME NEW s \in Syncs, Sync(s) PROVE Begins(s) \/ Moves(s) \/ Runs(s)
  BY DEF Sync, Begins, Moves, Runs

LEMMA NoChangesGoes ==
    ASSUME NEW s \in Syncs, NoChanges(s)
    PROVE  \/ at[s] = "recheck" /\ Goes(s, "recheck_head")
           \/ at[s] = "confirm" /\ Goes(s, "confirm_head")
           \/ at[s] = "check_back" /\ Goes(s, "check_back_head")
           \/ at[s] = "confirm_back" /\ Goes(s, "confirm_back_head")
  BY DEF NoChanges, HeadAfter

LEMMA BeginsTypeOK == ASSUME TypeOK, NEW s \in Syncs, Begins(s) PROVE TypeOK'
  <1>1. CASE Preflight(s)
    <2>1. at' \in [Syncs -> Stages]
      BY <1>1, GoesTypes DEF Preflight, Stages
    <2> QED BY <1>1, <2>1 DEF Preflight, Untouched, TypeOK
  <1>2. CASE ReadHead(s)
    <2>1. at' \in [Syncs -> Stages]
      BY <1>2, GoesTypes DEF ReadHead, Stages
    <2>2. saved' \in [Syncs -> [previous : Commits, branch : Branches \cup {Detached}]]
      BY <1>2 DEF ReadHead, TypeOK
    <2> QED BY <1>2, <2>1, <2>2 DEF ReadHead, Untouched, TypeOK
  <1>3. CASE ReadBranch(s)
    <2>1. at' \in [Syncs -> Stages]
      BY <1>3, GoesTypes DEF ReadBranch, Stages
    <2>2. receipt' \in [Syncs -> Receipts]
      BY <1>3, NotesTypes DEF ReadBranch, Receipts, TypeOK
    <2>3. saved' \in [Syncs -> [previous : Commits, branch : Branches \cup {Detached}]]
      BY <1>3 DEF ReadBranch, TypeOK
    <2> QED BY <1>3, <2>1, <2>2, <2>3 DEF ReadBranch, Untouched, TypeOK, Receipts
  <1>4. CASE PreflightFails(s)
    <2>1. at' \in [Syncs -> Stages] /\ receipt' \in [Syncs -> Receipts]
      BY <1>4, GoesTypes, NotesTypes DEF PreflightFails, Stages, Receipts
    <2> QED BY <1>4, <2>1 DEF PreflightFails, Untouched, TypeOK, Receipts
  <1>5. CASE TakeLock(s)
    <2>1. at' \in [Syncs -> Stages]
      BY <1>5, GoesTypes DEF TakeLock, Stages, Locked, Updating
    <2>2. receipt' \in [Syncs -> Receipts]
      BY <1>5, NotesTypes DEF TakeLock, Receipts, TypeOK
    <2> QED BY <1>5, <2>1, <2>2 DEF TakeLock, Untouched, TypeOK, Receipts
  <1> QED BY <1>1, <1>2, <1>3, <1>4, <1>5 DEF Begins

LEMMA MovesAt ==
    ASSUME TypeOK, NEW s \in Syncs, Moves(s) PROVE at' \in [Syncs -> Stages]
  <1>1. CASE NoChanges(s)
    BY <1>1, NoChangesGoes, GoesTypes DEF Stages, Locked, Updating, RollingBack
  <1>2. CASE ~NoChanges(s)
    BY <1>2, GoesTypes
       DEF Moves, Recheck, Checkout, Confirm, UpdateFails, CheckBack,
           CheckoutBack, BranchBack, BranchCheckout, ConfirmBack, RollbackFails,
           Unlock, Crash, Stages, Locked, Updating, RollingBack
  <1> QED BY <1>1, <1>2

LEMMA MovesReceipt ==
    ASSUME TypeOK, NEW s \in Syncs, Moves(s) PROVE receipt' \in [Syncs -> Receipts]
  <1>1. receipt \in [Syncs -> Receipts]
    BY DEF TypeOK, Receipts
  <1> QED
    BY <1>1, NotesTypes
       DEF Moves, NoChanges, Recheck, Checkout, Confirm, UpdateFails, CheckBack,
           CheckoutBack, BranchBack, BranchCheckout, ConfirmBack, RollbackFails,
           Unlock, Crash, Receipts

LEMMA MovesClone ==
    ASSUME TypeOK, NEW s \in Syncs, Moves(s) PROVE clone' \in CloneTypes
  <1>1. clone \in CloneTypes /\ Target[s] \in Commits /\ saved[s].previous \in Commits
    BY SyncAssumption DEF TypeOK, CloneTypes
  <1> QED
    BY <1>1, CheckoutCommitTypes, CheckoutBranchTypes
       DEF Moves, NoChanges, Recheck, Checkout, Confirm, UpdateFails, CheckBack,
           CheckoutBack, BranchBack, BranchCheckout, ConfirmBack, RollbackFails,
           Unlock, Crash, Untouched, Kept

LEMMA MovesMetadata ==
    ASSUME TypeOK, NEW s \in Syncs, Moves(s)
    PROVE  metadata' \in [Pythons -> Versions]
  <1>1. metadata \in [Pythons -> Versions]
    BY DEF TypeOK
  <1> QED
    BY <1>1, InstallTypes
       DEF Moves, NoChanges, Recheck, Checkout, Confirm, UpdateFails, CheckBack,
           CheckoutBack, BranchBack, BranchCheckout, ConfirmBack, RollbackFails,
           Unlock, Crash, Untouched, Kept

LEMMA ForgetTypes ==
    ASSUME TypeOK, NEW s \in Syncs, Forget(s)
    PROVE  /\ saved' \in [Syncs -> [previous : Commits, branch : Branches \cup {Detached}]]
           /\ attempted' \in [Syncs -> [there : SUBSET Pythons, back : SUBSET Pythons]]
  <1>1. Target[s] \in Commits
    BY SyncAssumption
  <1> QED
    BY <1>1 DEF TypeOK, Forget, NothingSaved, NothingTried

LEMMA MovesOthers ==
    ASSUME TypeOK, NEW s \in Syncs, Moves(s)
    PROVE  /\ lock' \in BOOLEAN /\ edited' \in BOOLEAN /\ seen' \subseteq Pythons
           /\ saved' \in [Syncs -> [previous : Commits, branch : Branches \cup {Detached}]]
           /\ attempted' \in [Syncs -> [there : SUBSET Pythons, back : SUBSET Pythons]]
  <1>1. /\ lock \in BOOLEAN /\ edited \in BOOLEAN /\ seen \subseteq Pythons
        /\ saved \in [Syncs -> [previous : Commits, branch : Branches \cup {Detached}]]
        /\ attempted \in [Syncs -> [there : SUBSET Pythons, back : SUBSET Pythons]]
    BY DEF TypeOK
  <1>2. CASE UpdateFails(s)
    BY <1>1, <1>2 DEF UpdateFails
  <1>3. CASE Unlock(s) \/ Crash(s)
    BY <1>1, <1>3, ForgetTypes DEF Unlock, Crash
  <1>4. CASE ~UpdateFails(s) /\ ~Unlock(s) /\ ~Crash(s)
    BY <1>1, <1>4
       DEF Moves, NoChanges, Recheck, Checkout, Confirm, CheckBack, CheckoutBack,
           BranchBack, BranchCheckout, ConfirmBack, RollbackFails, Kept
  <1> QED
    BY <1>2, <1>3, <1>4

LEMMA MovesTypeOK == ASSUME TypeOK, NEW s \in Syncs, Moves(s) PROVE TypeOK'
  BY MovesOthers, MovesAt, MovesReceipt, MovesClone, MovesMetadata
     DEF TypeOK, Receipts, CloneTypes

LEMMA RunsTypeOK == ASSUME TypeOK, NEW s \in Syncs, Runs(s) PROVE TypeOK'
  <1>1. ASSUME NEW p \in Pythons, InstallNext(s, p) PROVE TypeOK'
    <2>1. at' \in [Syncs -> Stages]
      BY <1>1, GoesTypes DEF InstallNext, Stages, Locked, Updating
    <2>2. attempted' \in [Syncs -> [there : SUBSET Pythons, back : SUBSET Pythons]]
      <3> DEFINE Now == [attempted[s] EXCEPT !.there = attempted[s].there \cup {p}]
      <3>1. Now \in [there : SUBSET Pythons, back : SUBSET Pythons]
        BY <1>1 DEF TypeOK
      <3>2. attempted' = [attempted EXCEPT ![s] = Now]
        BY <1>1 DEF InstallNext
      <3> QED BY <3>1, <3>2 DEF TypeOK
    <2>3. metadata' \in [Pythons -> Versions] /\ seen' = {}
      BY <1>1, InstallTypes DEF InstallNext
    <2>4. UNCHANGED <<clone, lock, saved, edited, receipt>>
      BY <1>1 DEF InstallNext
    <2> QED BY <2>1, <2>2, <2>3, <2>4 DEF TypeOK
  <1>2. ASSUME NEW p \in Pythons, InstallBack(s, p) PROVE TypeOK'
    <2>1. at' \in [Syncs -> Stages]
      BY <1>2, GoesTypes DEF InstallBack, Stages, Locked, RollingBack
    <2>2. attempted' \in [Syncs -> [there : SUBSET Pythons, back : SUBSET Pythons]]
      <3> DEFINE Now == [attempted[s] EXCEPT !.back = attempted[s].back \cup {p}]
      <3>1. Now \in [there : SUBSET Pythons, back : SUBSET Pythons]
        BY <1>2 DEF TypeOK
      <3>2. attempted' = [attempted EXCEPT ![s] = Now]
        BY <1>2 DEF InstallBack
      <3> QED BY <3>1, <3>2 DEF TypeOK
    <2>3. metadata' \in [Pythons -> Versions] /\ seen' = {}
      BY <1>2, InstallTypes DEF InstallBack
    <2>4. UNCHANGED <<clone, lock, saved, edited, receipt>>
      BY <1>2 DEF InstallBack
    <2> QED BY <2>1, <2>2, <2>3, <2>4 DEF TypeOK
  <1>3. ASSUME NEW p \in Pythons, NEW next \in {"confirm", "confirm_back"},
               Finds(s, p, next)
        PROVE  TypeOK'
    <2>1. at' \in [Syncs -> Stages]
      BY <1>3, GoesTypes DEF Finds, Stages, Locked, Updating, RollingBack, TypeOK
    <2>2. seen' \subseteq Pythons
      BY <1>3 DEF Finds, TypeOK
    <2> QED BY <1>3, <2>1, <2>2 DEF Finds, Untouched, Kept, TypeOK
  <1> QED BY <1>1, <1>2, <1>3 DEF Runs, Verify, VerifyBack

LEMMA UserTypeOK == ASSUME TypeOK, User PROVE TypeOK'
  <1>1. CASE Edit
    <2>1. clone'.dirty \in BOOLEAN /\ clone' = [clone EXCEPT !.dirty = clone'.dirty]
      BY <1>1 DEF Edit, TypeOK
    <2> QED BY <1>1, <2>1 DEF Edit, Elsewhere, TypeOK
  <1>2. CASE \E c \in Commits : Commit(c)
    <2>1. PICK c \in Commits : Commit(c)
      BY <1>2
    <2>2. [b \in Branches |-> IF b = clone.branch THEN c ELSE clone.tip[b]]
              \in [Branches -> Commits]
      BY DEF TypeOK
    <2>3. clone'.head = c /\ clone'.branch = clone.branch /\ clone'.dirty = FALSE
          /\ clone'.tip = [b \in Branches |-> IF b = clone.branch THEN c ELSE clone.tip[b]]
      BY <2>1 DEF Commit, TypeOK
    <2> QED BY <2>1, <2>2, <2>3 DEF Commit, Elsewhere, TypeOK
  <1>3. CASE \E b \in Branches : Switch(b)
    BY <1>3, CheckoutBranchTypes DEF Switch, Elsewhere, TypeOK, CloneTypes
  <1>4. CASE \E b \in Branches, c \in Commits : MoveBranch(b, c)
    <2>1. PICK b \in Branches, c \in Commits : MoveBranch(b, c)
      BY <1>4
    <2>2. clone' = [clone EXCEPT !.tip = [clone.tip EXCEPT ![b] = c]]
      BY <2>1 DEF MoveBranch, TypeOK
    <2>3. [clone.tip EXCEPT ![b] = c] \in [Branches -> Commits]
      BY DEF TypeOK
    <2> QED BY <2>1, <2>2, <2>3 DEF MoveBranch, Elsewhere, TypeOK
  <1> QED BY <1>1, <1>2, <1>3, <1>4 DEF User

LEMMA NextTypeOK == ASSUME TypeOK, [Next]_vars PROVE TypeOK'
  <1>1. CASE UNCHANGED vars
    BY <1>1 DEF vars, TypeOK
  <1> QED BY <1>1, SyncSteps, BeginsTypeOK, MovesTypeOK, RunsTypeOK, UserTypeOK DEF Next

\* The state keeps its types, whatever commits, branches and syncs there are.
THEOREM SyncTypes == Spec => []TypeOK
  BY InitTypeOK, NextTypeOK, PTL DEF Spec

-----------------------------------------------------------------------------
(* The lock                                                                *)

LEMMA LockKept ==
    ASSUME SyncsApart, lock' = lock, \A s \in Syncs : at'[s] \in Locked => at[s] \in Locked
    PROVE  SyncsApart'
  BY DEF SyncsApart

\* A step of one sync that neither takes the lock nor gives it back.
Inside(s) == \E stage \in Stages : Goes(s, stage) /\ (stage \in Locked => at[s] \in Locked)

LEMMA InsideKeeps ==
    ASSUME TypeOK, SyncsApart, NEW s \in Syncs, Inside(s), lock' = lock
    PROVE  SyncsApart'
  <1>1. \A r \in Syncs : at'[r] \in Locked => at[r] \in Locked
    BY DEF Inside, Goes, TypeOK
  <1> QED BY <1>1, LockKept

LEMMA MovesInside ==
    ASSUME TypeOK, NEW s \in Syncs, Moves(s) \/ Runs(s)
    PROVE  Unlock(s) \/ (Inside(s) /\ lock' = lock)
  <1> USE DEF Stages, Locked, Updating, RollingBack
  <1>1. CASE NoChanges(s)
    <2>1. lock' = lock
      BY <1>1 DEF NoChanges
    <2> QED BY <1>1, <2>1, NoChangesGoes DEF Inside
  <1>2. CASE Recheck(s) \/ Checkout(s) \/ Confirm(s) \/ ConfirmBack(s) \/ Crash(s)
    BY <1>2 DEF Recheck, Checkout, Confirm, ConfirmBack, Crash, Kept, Inside
  <1>3. CASE UpdateFails(s) \/ RollbackFails(s)
    BY <1>3 DEF UpdateFails, RollbackFails, Kept, Inside
  <1>4. CASE CheckBack(s) \/ CheckoutBack(s) \/ BranchBack(s) \/ BranchCheckout(s)
    BY <1>4 DEF CheckBack, CheckoutBack, BranchBack, BranchCheckout, Kept, Inside
  <1>5. ASSUME NEW p \in Pythons, InstallNext(s, p) \/ InstallBack(s, p)
        PROVE  Inside(s) /\ lock' = lock
    BY <1>5 DEF InstallNext, InstallBack, Inside
  <1>6. ASSUME NEW p \in Pythons, Verify(s, p) \/ VerifyBack(s, p)
        PROVE  Inside(s) /\ lock' = lock
    <2>1. lock' = lock /\ at[s] \in {"verify", "verify_back"}
      BY <1>6 DEF Verify, VerifyBack, Finds, Kept
    <2>2. Goes(s, "confirm") \/ Goes(s, "confirm_back") \/ at' = at
      BY <1>6 DEF Verify, VerifyBack, Finds
    <2>3. at' = at => Goes(s, at[s])
      BY DEF Goes, TypeOK
    <2>4. at[s] \in Stages
      BY <2>1
    <2> QED BY <2>1, <2>2, <2>3, <2>4 DEF Inside
  <1> QED BY <1>1, <1>2, <1>3, <1>4, <1>5, <1>6 DEF Moves, Runs

LEMMA StepKeepsApart ==
    ASSUME TypeOK, SyncsApart, [Next]_vars
    PROVE  SyncsApart'
  <1> USE DEF Locked, Updating, RollingBack
  <1>1. ASSUME NEW s \in Syncs,
               Preflight(s) \/ ReadHead(s) \/ ReadBranch(s) \/ PreflightFails(s)
        PROVE  SyncsApart'
    <2>1. Inside(s) /\ lock' = lock
      BY <1>1 DEF Preflight, ReadHead, ReadBranch, PreflightFails, Inside, Stages
    <2> QED BY <2>1, InsideKeeps
  <1>2. ASSUME NEW s \in Syncs, TakeLock(s)
        PROVE  SyncsApart'
    <2>1. CASE lock
      <3>1. Inside(s) /\ lock' = lock
        BY <1>2, <2>1 DEF TakeLock, Inside, Stages
      <3> QED BY <3>1, InsideKeeps
    <2>2. CASE ~lock
      <3>1. \A r \in Syncs : at[r] \notin Locked
        BY <2>2 DEF SyncsApart
      <3>2. lock' = TRUE /\ at' = [at EXCEPT ![s] = "recheck"]
        BY <1>2, <2>2 DEF TakeLock, Goes
      <3> QED BY <3>1, <3>2 DEF SyncsApart, TypeOK
    <2> QED BY <2>1, <2>2
  <1>3. ASSUME NEW s \in Syncs, Unlock(s)
        PROVE  SyncsApart'
    <2>1. at[s] \in Locked /\ at' = [at EXCEPT ![s] = "ended"]
      BY <1>3 DEF Unlock, Goes
    <2>2. "ended" \notin Locked
      OBVIOUS
    <2>3. \A r \in Syncs : at'[r] \notin Locked
      BY <2>1, <2>2 DEF SyncsApart, TypeOK
    <2> QED BY <2>3 DEF SyncsApart
  <1>4. ASSUME NEW s \in Syncs, Moves(s) \/ Runs(s)
        PROVE  SyncsApart'
    BY <1>3, <1>4, MovesInside, InsideKeeps
  <1>5. CASE User
    <2>1. lock' = lock /\ at' = at
      BY <1>5 DEF User, Edit, Commit, Switch, MoveBranch, Elsewhere
    <2> QED BY <2>1, LockKept
  <1>6. CASE UNCHANGED vars
    BY <1>6, LockKept DEF vars
  <1> QED BY <1>1, <1>2, <1>4, <1>5, <1>6, SyncSteps DEF Next, Begins

LEMMA InitApart == ASSUME Init PROVE SyncsApart
  BY DEF Init, SyncsApart, Locked, Updating, RollingBack

\* However many syncs of one clone there are, and whichever fail or are killed,
\* two never work on it at once, and none gives back the lock of another.
THEOREM OneSyncAtATime == Spec => []SyncsApart
  BY InitTypeOK, NextTypeOK, InitApart, StepKeepsApart, PTL DEF Spec

-----------------------------------------------------------------------------
(* The receipt                                                             *)

\* The commit a sync at work has to confirm.
Goal(s) == IF at[s] \in Updating THEN Target[s] ELSE saved[s].previous

Refreshed(P, commit) == \A p \in P : metadata[p] = Version[commit]

\* What was found of the interpreters still holds when the clone is looked at for
\* the last time: nobody else installs while the lock is held; and the clone has
\* no changes but those made since git status.
StillInstalled ==
    \A s \in Syncs :
        /\ at[s] \in {"verify", "verify_back"} => Refreshed(seen, Goal(s))
        /\ at[s] \in {"confirm", "confirm_back", "confirm_head", "confirm_back_head"}
             => Refreshed(Pythons, Goal(s))
        /\ at[s] \in Looking => (clone.dirty => edited)

LEMMA LookingIs ==
    Looking = {"recheck_head", "confirm_head", "check_back_head", "confirm_back_head"}
  BY DEF Looking, HeadAfter

\* A step of another sync, outside of the lock, or of a user.
LEMMA OthersLeave ==
    ASSUME TypeOK, SyncsApart, NEW s \in Syncs, at[s] \in Locked,
           NEW r \in Syncs, r # s, Sync(r)
    PROVE  UNCHANGED <<clone, metadata, seen, edited>>
           /\ at'[s] = at[s] /\ saved'[s] = saved[s]
  <1>1. at[r] \notin Locked
    BY DEF SyncsApart
  <1>2. ~Moves(r) \/ Crash(r)
    <2>1. CASE NoChanges(r)
      BY <1>1, <2>1, NoChangesGoes DEF Locked, Updating, RollingBack
    <2>2. CASE ~NoChanges(r)
      BY <1>1, <2>2
         DEF Moves, Recheck, Checkout, Confirm, UpdateFails, CheckBack,
             CheckoutBack, BranchBack, BranchCheckout, ConfirmBack,
             RollbackFails, Unlock, Locked, Updating, RollingBack
    <2> QED BY <2>1, <2>2
  <1>3. ~Runs(r)
    BY <1>1 DEF Runs, InstallNext, Verify, InstallBack, VerifyBack, Locked,
                Updating, RollingBack
  <1>4. Begins(r) \/ Crash(r)
    BY <1>2, <1>3, SyncSteps
  <1>5. CASE Begins(r)
    BY <1>5 DEF Begins, Preflight, ReadHead, ReadBranch, PreflightFails,
                TakeLock, Goes, Untouched, TypeOK
  <1>6. CASE Crash(r)
    BY <1>6 DEF Crash, Goes, Forget, Untouched, TypeOK
  <1> QED
    BY <1>4, <1>5, <1>6

LEMMA UserLeaves ==
    ASSUME TypeOK, User
    PROVE  /\ UNCHANGED <<metadata, seen, at, saved, receipt>>
           /\ \A s \in Syncs : at[s] \in Looking =>
                ((clone.dirty => edited) => (clone'.dirty => edited'))
  BY DEF User, Edit, Commit, Switch, CheckoutBranch, MoveBranch, Elsewhere, TypeOK

\* What the sync that holds the lock does itself.
LEMMA OwnStep ==
    ASSUME TypeOK, StillInstalled, NEW s \in Syncs, Sync(s)
    PROVE  /\ at'[s] \in {"verify", "verify_back"} => Refreshed(seen, Goal(s))'
           /\ at'[s] \in {"confirm", "confirm_back", "confirm_head",
                          "confirm_back_head"}
                => Refreshed(Pythons, Goal(s))'
           /\ at'[s] \in Looking => (clone'.dirty => edited')
  <1> DEFINE After == /\ at'[s] \in {"verify", "verify_back"} => Refreshed(seen, Goal(s))'
                      /\ at'[s] \in {"confirm", "confirm_back", "confirm_head",
                                     "confirm_back_head"}
                           => Refreshed(Pythons, Goal(s))'
                      /\ at'[s] \in Looking => (clone'.dirty => edited')
  <1>1. CASE Begins(s)
    BY <1>1, LookingIs
       DEF Begins, Preflight, ReadHead, ReadBranch, PreflightFails, TakeLock,
           Goes, TypeOK
  <1>2. CASE NoChanges(s)
    <2>1. UNCHANGED <<metadata, saved>> /\ clone' = clone /\ ~clone.dirty
      BY <1>2 DEF NoChanges, Untouched
    <2>2. /\ at'[s] = "confirm_head" => at[s] = "confirm"
          /\ at'[s] = "confirm_back_head" => at[s] = "confirm_back"
          /\ at'[s] \in Looking
      BY <1>2, NoChangesGoes, LookingIs DEF Goes, TypeOK
    <2>3. at'[s] \notin {"verify", "verify_back", "confirm", "confirm_back"}
      BY <2>2, LookingIs
    <2> QED
      BY <2>1, <2>2, <2>3 DEF StillInstalled, Refreshed, Goal, Updating
  <1>3. CASE Moves(s) /\ ~NoChanges(s)
    BY <1>3, LookingIs
       DEF Moves, Recheck, Checkout, Confirm, UpdateFails, CheckBack,
           CheckoutBack, BranchBack, BranchCheckout, ConfirmBack, RollbackFails,
           Unlock, Crash, Goes, TypeOK
  <1>4. ASSUME NEW p \in Pythons, InstallNext(s, p) \/ InstallBack(s, p)
        PROVE  After
    BY <1>4, LookingIs DEF InstallNext, InstallBack, Goes, Refreshed, TypeOK
  <1>5. ASSUME NEW p \in Pythons, NEW next \in {"confirm", "confirm_back"},
               \/ at[s] = "verify" /\ next = "confirm"
               \/ at[s] = "verify_back" /\ next = "confirm_back",
               Installed(p, Goal(s)), Finds(s, p, next)
        PROVE  After
    <2>1. UNCHANGED <<metadata, saved>>
      BY <1>5 DEF Finds, Untouched, Kept
    <2>2. Refreshed(seen \cup {p}, Goal(s))
      BY <1>5 DEF StillInstalled, Refreshed, Installed
    <2>3. \/ at' = at /\ seen' = seen \cup {p}
          \/ seen \cup {p} = Pythons /\ at'[s] = next
      BY <1>5 DEF Finds, Goes, TypeOK
    <2>4. Goal(s)' = Goal(s)
      BY <1>5, <2>1, <2>3 DEF Goal, Updating
    <2> QED
      BY <1>5, <2>1, <2>2, <2>3, <2>4, LookingIs DEF Refreshed
  <1>6. CASE Runs(s)
    <2>1. ASSUME NEW p \in Pythons, Verify(s, p) PROVE After
      <3>1. Goal(s) = Target[s]
        BY <2>1 DEF Verify, Goal, Updating
      <3> HIDE DEF After
      <3> QED BY <1>5, <2>1, <3>1 DEF Verify
    <2>2. ASSUME NEW p \in Pythons, VerifyBack(s, p) PROVE After
      <3>1. Goal(s) = saved[s].previous
        BY <2>2 DEF VerifyBack, Goal, Updating
      <3> HIDE DEF After
      <3> QED BY <1>5, <2>2, <3>1 DEF VerifyBack
    <2> HIDE DEF After
    <2>3. After
      BY <1>4, <1>6, <2>1, <2>2 DEF Runs
    <2> QED BY <2>3 DEF After
  <1> QED BY <1>1, <1>2, <1>3, <1>6, SyncSteps

LEMMA StillInstalledStep ==
    ASSUME TypeOK, SyncsApart, StillInstalled, [Next]_vars
    PROVE  StillInstalled'
  <1> SUFFICES ASSUME NEW s \in Syncs
               PROVE  /\ at'[s] \in {"verify", "verify_back"}
                           => Refreshed(seen, Goal(s))'
                      /\ at'[s] \in {"confirm", "confirm_back", "confirm_head",
                                     "confirm_back_head"}
                           => Refreshed(Pythons, Goal(s))'
                      /\ at'[s] \in Looking => (clone'.dirty => edited')
    BY DEF StillInstalled
  <1>1. CASE Sync(s)
    BY <1>1, OwnStep
  <1>2. ASSUME NEW r \in Syncs, r # s, Sync(r), at[s] \in Locked
        PROVE  UNCHANGED <<clone, metadata, seen, edited>>
               /\ at'[s] = at[s] /\ saved'[s] = saved[s]
    BY <1>2, OthersLeave
  <1>3. ASSUME NEW r \in Syncs, r # s, Sync(r)
        PROVE  at'[s] = at[s]
    <2>1. CASE Begins(r)
      BY <1>3, <2>1 DEF Begins, Preflight, ReadHead, ReadBranch, PreflightFails,
                        TakeLock, Goes, TypeOK
    <2>2. CASE NoChanges(r)
      BY <1>3, <2>2, NoChangesGoes DEF Goes, TypeOK
    <2>3. CASE Moves(r) /\ ~NoChanges(r)
      BY <1>3, <2>3
         DEF Moves, Recheck, Checkout, Confirm, UpdateFails, CheckBack,
             CheckoutBack, BranchBack, BranchCheckout, ConfirmBack,
             RollbackFails, Unlock, Crash, Goes, TypeOK
    <2>4. CASE Runs(r)
      BY <1>3, <2>4
         DEF Runs, InstallNext, Verify, InstallBack, VerifyBack, Finds, Goes,
             TypeOK
    <2> QED BY <1>3, <2>1, <2>2, <2>3, <2>4, SyncSteps
  <1>4. CASE \E r \in Syncs : r # s /\ Sync(r)
    <2>1. at'[s] = at[s]
      BY <1>3, <1>4
    <2>2. CASE at[s] \in Locked
      <3>1. UNCHANGED <<clone, metadata, seen, edited>> /\ saved'[s] = saved[s]
        BY <1>2, <1>4, <2>2
      <3> QED BY <2>1, <3>1 DEF StillInstalled, Refreshed, Goal
    <2>3. CASE at[s] \notin Locked
      BY <2>1, <2>3, LookingIs DEF Locked, Updating, RollingBack
    <2> QED BY <2>2, <2>3
  <1>5. CASE User
    BY <1>5, UserLeaves DEF StillInstalled, Refreshed, Goal
  <1>6. CASE UNCHANGED vars
    BY <1>6 DEF vars, StillInstalled, Refreshed, Goal
  <1> QED BY <1>1, <1>4, <1>5, <1>6 DEF Next

\* Nothing but Confirm and ConfirmBack notes the two.
LEMMA WhoNotes ==
    ASSUME TypeOK, [Next]_vars, NEW s \in Syncs, receipt'[s] # receipt[s],
           receipt'[s] \in {"verified", "restored"}
    PROVE  \/ receipt'[s] = "verified" /\ Confirm(s)
           \/ receipt'[s] = "restored" /\ ConfirmBack(s)
  <1>1. ~User /\ vars' # vars
    BY UserLeaves DEF vars
  <1>2. PICK r \in Syncs : Sync(r)
    BY <1>1 DEF Next
  <1>3. ~Runs(r)
    BY DEF Runs, InstallNext, Verify, InstallBack, VerifyBack, Finds
  <1>4. ~Begins(r)
    BY DEF Begins, Preflight, ReadHead, ReadBranch, PreflightFails, TakeLock,
           Notes, TypeOK
  <1>5. Moves(r)
    BY <1>2, <1>3, <1>4, SyncSteps
  <1>6. UpdateFails(r) \/ RollbackFails(r) \/ Confirm(r) \/ ConfirmBack(r)
    BY <1>5 DEF Moves, NoChanges, Recheck, Checkout, CheckBack, CheckoutBack,
                BranchBack, BranchCheckout, Unlock, Crash
  <1>7. /\ UpdateFails(r) => Notes(r, "failed")
        /\ RollbackFails(r) => Notes(r, "rollback failed")
        /\ Confirm(r) => Notes(r, "verified")
        /\ ConfirmBack(r) => Notes(r, "restored")
    BY DEF UpdateFails, RollbackFails, Confirm, ConfirmBack
  <1>8. \A status \in Receipts : Notes(r, status) => r = s /\ receipt'[s] = status
    BY DEF Notes, TypeOK
  <1>9. {"failed", "rollback failed", "verified", "restored"} \subseteq Receipts
    BY DEF Receipts
  <1> QED BY <1>6, <1>7, <1>8, <1>9

LEMMA ReceiptStep ==
    ASSUME TypeOK, StillInstalled, [Next]_vars, NEW s \in Syncs,
           receipt'[s] # receipt[s]
    PROVE  /\ receipt'[s] = "verified" => AtRest(Target[s])
           /\ receipt'[s] = "restored" => AtRest(saved[s].previous)
  <1>1. ASSUME Confirm(s) PROVE AtRest(Target[s])
    <2>1. at[s] = "confirm_head" /\ clone.head = Target[s]
      BY <1>1 DEF Confirm
    <2>2. Refreshed(Pythons, Target[s]) /\ (clone.dirty => edited)
      BY <2>1, LookingIs DEF StillInstalled, Goal, Updating
    <2> QED BY <2>1, <2>2 DEF AtRest, Installed, Refreshed
  <1>2. ASSUME ConfirmBack(s) PROVE AtRest(saved[s].previous)
    <2>1. at[s] = "confirm_back_head" /\ clone.head = saved[s].previous
      BY <1>2 DEF ConfirmBack
    <2>2. Refreshed(Pythons, saved[s].previous) /\ (clone.dirty => edited)
      BY <2>1, LookingIs DEF StillInstalled, Goal, Updating
    <2> QED BY <2>1, <2>2 DEF AtRest, Installed, Refreshed
  <1> QED BY <1>1, <1>2, WhoNotes

LEMMA InitStillInstalled == ASSUME Init PROVE StillInstalled
  BY LookingIs DEF Init, StillInstalled

\* What a sync notes is so when it notes it: the lock keeps the metadata as they
\* were found, and the last two commands tell the rest, but for edits made
\* between them.
THEOREM ReceiptsAreTrue == Spec => ReceiptIsTrue
  <1>1. TypeOK /\ StillInstalled /\ [Next]_vars =>
           [\A s \in Syncs : receipt'[s] # receipt[s] =>
              /\ receipt'[s] = "verified" => AtRest(Target[s])
              /\ receipt'[s] = "restored" => AtRest(saved[s].previous)]_vars
    BY ReceiptStep
  <1>2. TypeOK /\ SyncsApart /\ StillInstalled /\ [Next]_vars
           => TypeOK' /\ SyncsApart' /\ StillInstalled'
    BY NextTypeOK, StepKeepsApart, StillInstalledStep
  <1> QED
    BY <1>1, <1>2, InitTypeOK, InitApart, InitStillInstalled, PTL
       DEF Spec, ReceiptIsTrue

-----------------------------------------------------------------------------
(* SkillInstall.  The code never records how far an install came: the      *)
(* handler infers it from had_target and from what exists.  The invariant  *)
(* says what it may infer.                                                 *)


\* The old skill, if there was one, lies whole in the backup.
Secured == IF had THEN before # "none" /\ backup = before ELSE before = "none"

\* Before the target is moved aside nothing has touched it.
TargetUntouched ==
    /\ step \in {"copy", "clear", "aside"} => dst = before
    /\ step \in {"clear", "aside"} => had /\ before # "none"
    /\ step = "aside" => backup = "none"

\* From the move on, until it is moved back, the backup is the old skill.
MovedAside ==
    /\ step \in {"place", "chmod", "remove", "back"} => Secured
    /\ step = "place" => dst = "none"
    /\ step = "back" => had

\* The try block goes on as long as nothing raised, the handler runs after.
FaultsTell ==
    /\ step \in {"copy", "clear", "aside", "place", "chmod"} => faults = 0
    /\ step \in {"remove", "back", "cleanup"} => faults >= 1
    /\ step = "cleanup" /\ faults = 1 => dst = before

InstallInv == SkillTypeOK /\ TargetUntouched /\ MovedAside /\ FaultsTell /\ OldIsKept

-----------------------------------------------------------------------------
(* SkillInstall: the invariant is inductive *)

LEMMA InitInv == ASSUME SkillInit PROVE InstallInv
  <1>1. SkillTypeOK
    <2>1. step = "ended" /\ had \in BOOLEAN /\ bundle \in Bundles
      BY Zenon DEF SkillInit
    <2>2. faults \in 0..MaxFaults
      BY InstallAssumption DEF SkillInit
    <2>3. dst \in Contents /\ backup \in Contents /\ staging \in Contents
          /\ before \in Contents
      BY DEF SkillInit, Contents
    <2> QED BY <2>1, <2>2, <2>3 DEF SkillTypeOK, Steps
  <1>2. TargetUntouched /\ MovedAside /\ FaultsTell /\ OldIsKept
    BY DEF SkillInit, TargetUntouched, MovedAside, FaultsTell, OldIsKept
  <1> QED BY <1>1, <1>2 DEF InstallInv

USE DEF InstallInv, SkillTypeOK, Contents, Steps, TargetUntouched, MovedAside, Secured,
        FaultsTell, OldIsKept

LEMMA BeginInv == ASSUME InstallInv, NEW v \in Bundles, Begin(v) PROVE InstallInv'
  BY InstallAssumption DEF Begin

LEMMA CopyInv == ASSUME InstallInv, Copy PROVE InstallInv'
  BY InstallAssumption DEF Copy, Then

LEMMA ClearInv == ASSUME InstallInv, ClearBackup PROVE InstallInv'
  BY InstallAssumption DEF ClearBackup, Then

LEMMA AsideInv == ASSUME InstallInv, MoveAside PROVE InstallInv'
  BY InstallAssumption DEF MoveAside, Then

LEMMA PlaceInv == ASSUME InstallInv, Place PROVE InstallInv'
  BY InstallAssumption DEF Place, Then

LEMMA ChmodInv == ASSUME InstallInv, Chmod PROVE InstallInv'
  BY InstallAssumption DEF Chmod, Then

LEMMA RemoveInv == ASSUME InstallInv, RemoveTarget PROVE InstallInv'
  BY InstallAssumption DEF RemoveTarget, Then

LEMMA BackInv == ASSUME InstallInv, MoveBack PROVE InstallInv'
  BY InstallAssumption DEF MoveBack, Then

LEMMA CleanupInv == ASSUME InstallInv, Cleanup PROVE InstallInv'
  BY InstallAssumption DEF Cleanup, Then

\* The directories a torn step leaves: only the one it was working on differs.
LEMMA TornLeaves ==
    ASSUME InstallInv, Torn
    PROVE  /\ {dst', backup', staging'} \subseteq Contents
           /\ step # "remove" => dst' = dst
           /\ step # "clear" => backup' = backup
  BY DEF Torn

\* What the handler does first, as the try block left the directories.
LEMMA HandlerKnows ==
    ASSUME InstallInv, step \in {"aside", "place", "chmod"}
    PROVE  /\ step = "aside" => Handler(backup, dst) = "cleanup"
           /\ step # "aside" => Handler(backup, dst) \in {"remove", "back", "cleanup"}
           /\ Handler(backup, dst) = "back" => had
           /\ Handler(backup, dst) = "cleanup" => dst = before
  BY InstallAssumption DEF Handler

LEMMA RaisesInv == ASSUME InstallInv, Raises PROVE InstallInv'
  <1>1. faults' = faults + 1 /\ faults' \in 1..MaxFaults
    BY InstallAssumption DEF Raises
  <1>2. bundle' = bundle /\ before' = before /\ had' = had
    BY DEF Raises
  <1>3. Torn BY DEF Raises
  <1>4. CASE step \in {"aside", "place", "chmod"}
    <2>1. step' = Handler(backup, dst)
      BY <1>4 DEF Raises
    <2>2. dst' = dst /\ backup' = backup
      BY <1>3, <1>4, TornLeaves
    <2> QED BY <1>1, <1>2, <1>3, <1>4, <2>1, <2>2, TornLeaves, HandlerKnows
  <1>5. CASE step = "cleanup"
    <2>1. step' = "ended" BY <1>5 DEF Raises
    <2> QED BY <1>1, <1>2, <1>3, <1>5, <2>1, TornLeaves
  <1>6. CASE step \in {"copy", "clear", "remove", "back"}
    <2>1. step' = "cleanup" BY <1>6 DEF Raises
    <2>2. OldIsKept'
      BY InstallAssumption, <1>2, <1>3, <1>6, TornLeaves
    <2>3. FaultsTell'
      BY <1>1, <1>2, <1>3, <1>6, <2>1, TornLeaves
    <2> QED BY <1>1, <1>2, <1>3, <1>6, <2>1, <2>2, <2>3, TornLeaves
  <1> QED BY <1>4, <1>5, <1>6 DEF Raises

LEMMA KilledInv == ASSUME InstallInv, Killed PROVE InstallInv'
  <1>1. Torn /\ step # "ended" /\ step' = "ended"
    BY DEF Killed
  <1>2. UNCHANGED <<bundle, before, faults, had>>
    BY DEF Killed
  <1> QED BY InstallAssumption, <1>1, <1>2, TornLeaves

LEMMA StepInv == ASSUME InstallInv, [SkillNext]_skillVars PROVE InstallInv'
  <1>1. CASE UNCHANGED skillVars
    BY <1>1 DEF skillVars
  <1> QED BY <1>1, BeginInv, CopyInv, ClearInv, AsideInv, PlaceInv, ChmodInv, RemoveInv,
             BackInv, CleanupInv, RaisesInv, KilledInv DEF SkillNext

HIDE DEF InstallInv, SkillTypeOK, Contents, Steps, TargetUntouched, MovedAside, Secured,
         FaultsTell, OldIsKept

LEMMA Installs == SkillSpec => []InstallInv
  BY InitInv, StepInv, PTL DEF SkillSpec

-----------------------------------------------------------------------------
(* SkillInstall: theorems *)

\* The state of _install_one_skill() is well typed, and until the target is
\* moved aside it is what the install found.
THEOREM SkillTypes == SkillSpec => []SkillTypeOK
  <1>1. InstallInv => SkillTypeOK BY DEF InstallInv
  <1> QED BY <1>1, Installs, PTL

\* The handler of _install_one_skill() may raise, and so may finally, and the
\* process may be killed in the middle of a tree: the old skill is in the target
\* or in the backup.
THEOREM OldSkillSurvives == SkillSpec => []OldIsKept
  <1>1. InstallInv => OldIsKept BY DEF InstallInv
  <1> QED BY <1>1, Installs, PTL

\* After a single raise, wherever in the try block or before it, the except
\* clause has put the target back.
THEOREM OneFaultIsUndone == SkillSpec => RaiseRestores
  <1>1. ASSUME InstallInv, [SkillNext]_skillVars,
               step = "cleanup", step' = "ended", faults' = 1
        PROVE  dst' = before
    <2>1. CASE Cleanup
      BY <1>1, <2>1 DEF Cleanup, Then, InstallInv, FaultsTell
    <2>2. CASE Raises
      BY <1>1, <2>2 DEF Raises, InstallInv, SkillTypeOK, FaultsTell
    <2>3. CASE Killed
      BY <1>1, <2>3, TornLeaves DEF Killed, InstallInv, FaultsTell
    <2> QED
      BY <1>1, <2>1, <2>2, <2>3
         DEF SkillNext, skillVars, Begin, Copy, ClearBackup, MoveAside, Place, Chmod,
             RemoveTarget, MoveBack, Then
  <1>2. InstallInv /\ [SkillNext]_skillVars =>
          [step = "cleanup" /\ step' = "ended" /\ faults' = 1 => dst' = before]_skillVars
    BY <1>1
  <1> QED BY <1>2, Installs, PTL DEF SkillSpec, RaiseRestores

-----------------------------------------------------------------------------
(* AccountWrites *)

\* Only calls that read or write hold the lock, and one call at most does.
LockOfWrites ==
    /\ held = {w \in Writers : write[w] \in {"reading", "writing"}}
    /\ \A v, w \in held : v = w

\* A POST on its way has somebody who waits for it, or is in doubt.
FlyingIsAwaited == \A w \in flying : write[w] \in {"writing", "doubt"}

\* While nobody is in doubt, a POST on its way carries the account as it is but for
\* the fields its call was given.
FlyingIsFresh ==
    (\A w \in Writers : write[w] # "doubt") =>
        \A w \in flying : \A f \in Field \ given[w] : payload[w][f] = account[f]

WritesInv == WritesTypeOK /\ LockOfWrites /\ FlyingIsAwaited /\ FlyingIsFresh

\* The invariant holds at first.
LEMMA WritesBegin == WritesInit => WritesInv
<1> SUFFICES ASSUME WritesInit PROVE WritesInv
  OBVIOUS
<1>1. WritesTypeOK
  BY DEF WritesInit, WritesTypeOK, Object
<1>2. LockOfWrites /\ FlyingIsAwaited /\ FlyingIsFresh
  BY DEF WritesInit, LockOfWrites, FlyingIsAwaited, FlyingIsFresh
<1> QED
  BY <1>1, <1>2 DEF WritesInv

\* A call that leaves gives the lock back, and only that.
LEMMA LeavingKeeps ==
    ASSUME WritesInv, NEW w \in Writers, write[w] \in {"reading", "writing"},
           NEW end \in {"updated", "refused", "raised", "doubt"}, Leaves(w, end),
           flying' \in SUBSET flying, w \in flying' => end = "doubt",
           UNCHANGED <<given, payload, account>>
    PROVE  WritesInv'
<1>1. WritesTypeOK'
  BY DEF WritesInv, WritesTypeOK, Leaves
<1>2. write' = [write EXCEPT ![w] = end] /\ held' = held \ {w}
  BY DEF Leaves
<1>3. write \in [Writers -> {"asked", "reading", "writing", "updated", "refused", "raised", "doubt"}]
  BY DEF WritesInv, WritesTypeOK
<1>4. LockOfWrites'
  BY <1>2, <1>3 DEF WritesInv, LockOfWrites
<1>5. FlyingIsAwaited'
  BY <1>2, <1>3 DEF WritesInv, WritesTypeOK, FlyingIsAwaited
<1>6. FlyingIsFresh'
  <2>1. (\A v \in Writers : write'[v] # "doubt") => \A v \in Writers : write[v] # "doubt"
    BY <1>2, <1>3
  <2> QED
    BY <2>1 DEF WritesInv, FlyingIsFresh
<1> QED
  BY <1>1, <1>4, <1>5, <1>6 DEF WritesInv

\* Every step keeps it.
LEMMA WritesKeep == WritesInv /\ [WritesNext]_writeVars => WritesInv'
<1> SUFFICES ASSUME WritesInv, [WritesNext]_writeVars PROVE WritesInv'
  OBVIOUS
<1>1. CASE UNCHANGED writeVars
  BY <1>1 DEF writeVars, WritesInv, WritesTypeOK, LockOfWrites, FlyingIsAwaited, FlyingIsFresh
<1>2. ASSUME NEW w \in Writers, Enter(w) PROVE WritesInv'
  <2>1. WritesTypeOK'
    BY <1>2 DEF WritesInv, WritesTypeOK, Enter
  <2>2. LockOfWrites'
    BY <1>2 DEF WritesInv, WritesTypeOK, LockOfWrites, Enter
  <2>3. FlyingIsAwaited' /\ FlyingIsFresh'
    BY <1>2 DEF WritesInv, WritesTypeOK, FlyingIsAwaited, FlyingIsFresh, Enter
  <2> QED
    BY <2>1, <2>2, <2>3 DEF WritesInv
<1>3. ASSUME NEW w \in Writers, Merge(w) PROVE WritesInv'
  <2> DEFINE merged == [f \in Field |-> IF f \in given[w] THEN w ELSE account[f]]
  <2>0. payload' = [payload EXCEPT ![w] = merged] /\ flying' = flying \cup {w}
        /\ write' = [write EXCEPT ![w] = "writing"] /\ write[w] = "reading"
        /\ UNCHANGED <<given, held, account>>
    BY <1>3 DEF Merge
  <2>1. merged \in Object /\ \A f \in Field \ given[w] : merged[f] = account[f]
    BY DEF WritesInv, WritesTypeOK, Object
  <2> HIDE DEF merged
  <2>2. WritesTypeOK'
    BY <2>0, <2>1 DEF WritesInv, WritesTypeOK
  <2>3. LockOfWrites'
    BY <2>0 DEF WritesInv, WritesTypeOK, LockOfWrites
  <2>4. FlyingIsAwaited'
    BY <2>0 DEF WritesInv, WritesTypeOK, FlyingIsAwaited
  <2>5. FlyingIsFresh'
    <3>1. (\A v \in Writers : write'[v] # "doubt") => \A v \in Writers : write[v] # "doubt"
      BY <2>0 DEF WritesInv, WritesTypeOK
    <3>2. payload'[w] = merged /\ \A v \in flying : v # w => payload'[v] = payload[v]
      BY <2>0 DEF WritesInv, WritesTypeOK
    <3> QED
      BY <2>0, <2>1, <3>1, <3>2 DEF WritesInv, FlyingIsFresh
  <2> QED
    BY <2>2, <2>3, <2>4, <2>5 DEF WritesInv
<1>4. ASSUME NEW w \in Writers, ReadFails(w) PROVE WritesInv'
  <2>1. w \notin flying
    BY <1>4 DEF ReadFails, WritesInv, FlyingIsAwaited
  <2> QED
    BY <1>4, <2>1, LeavingKeeps DEF ReadFails
<1>5. ASSUME NEW w \in Writers, Lands(w) PROVE WritesInv'
  <2>1. WritesTypeOK' /\ LockOfWrites' /\ FlyingIsAwaited'
    BY <1>5 DEF WritesInv, WritesTypeOK, LockOfWrites, FlyingIsAwaited, Lands
  <2>2. (\A v \in Writers : write[v] # "doubt") => flying' = {}
    BY <1>5 DEF WritesInv, WritesTypeOK, LockOfWrites, FlyingIsAwaited, Lands
  <2>3. FlyingIsFresh'
    BY <1>5, <2>2 DEF FlyingIsFresh, Lands
  <2> QED
    BY <2>1, <2>3 DEF WritesInv
<1>6. ASSUME NEW w \in Writers, Updated(w) PROVE WritesInv'
  BY <1>6, LeavingKeeps DEF Updated
<1>7. ASSUME NEW w \in Writers, WriteFails(w) PROVE WritesInv'
  BY <1>7, LeavingKeeps DEF WriteFails
<1>8. ASSUME NEW w \in Writers, GivesUpWrite(w) PROVE WritesInv'
  BY <1>8, LeavingKeeps DEF GivesUpWrite
<1> QED
  BY <1>1, <1>2, <1>3, <1>4, <1>5, <1>6, <1>7, <1>8 DEF WritesNext

\* However many calls of custom_instructions_set overlap, and whichever of their reads and
\* writes fail, none undoes a field another one has written, until a call has left a
\* POST of its own behind.
THEOREM WritesKeepOthers == WritesSpec => OthersAreKept
<1>1. WritesInv /\ [WritesNext]_writeVars =>
        [(\A w \in Writers : write[w] # "doubt") =>
           \A f \in Field :
               account'[f] # account[f] =>
                   \E w \in flying \ flying' : f \in given[w]]_writeVars
  <2> SUFFICES ASSUME WritesInv, WritesNext, \A w \in Writers : write[w] # "doubt",
                      NEW f \in Field, account'[f] # account[f]
               PROVE  \E w \in flying \ flying' : f \in given[w]
    OBVIOUS
  <2>1. PICK w \in Writers : Lands(w)
    BY DEF WritesNext, Enter, Merge, ReadFails, Updated, WriteFails, GivesUpWrite
  <2>2. w \in flying /\ flying' = flying \ {w} /\ account' = payload[w]
    BY <2>1 DEF Lands
  <2>3. f \in given[w]
    BY <2>2 DEF WritesInv, FlyingIsFresh
  <2> QED
    BY <2>2, <2>3
<1> QED
  BY <1>1, WritesBegin, WritesKeep, PTL DEF WritesSpec, OthersAreKept

-----------------------------------------------------------------------------
(* DotSend *)

\* Once the first page is in hand, what an answer may still show of the room as it
\* was when the call began is among its ids.
PriorIsKnown ==
    send \in {"post", "after"} =>
        \A i \in DOMAIN room : i <= began /\ i + PageSize > Len(room) => i \in prior

BeganInRoom == began <= Len(room)

DotInv == DotTypeOK /\ BeganInRoom /\ PriorIsKnown /\ StaleRepeatsDoNotCount

\* The room only grows.
LEMMA RoomGrows ==
    ASSUME DotTypeOK, Len(room) < MaxRoom, NEW m \in RoomMessage, room' = Append(room, m)
    PROVE  /\ room' \in Seq(RoomMessage) /\ Len(room') = Len(room) + 1 /\ Len(room') <= MaxRoom
           /\ DOMAIN room = 1 .. Len(room) /\ DOMAIN room' = 1 .. (Len(room) + 1)
           /\ Len(room) \in Nat /\ room'[Len(room) + 1] = m
           /\ \A i \in DOMAIN room : room'[i] = room[i]
  BY RoomAssumption DEF DotTypeOK

\* The types are kept even if a read is answered by nothing.
LEMMA DotTypesKept == ASSUME DotTypeOK, [DotNext]_dotVars PROVE DotTypeOK'
<1> USE RoomAssumption
<1>1. CASE UNCHANGED dotVars
  BY <1>1 DEF dotVars, DotTypeOK
<1>2. CASE OthersWrite
  <2>1. PICK m \in RoomMessage : room' = Append(room, m)
    BY <1>2 DEF OthersWrite
  <2>2. room' \in Seq(RoomMessage) /\ Len(room') <= MaxRoom /\ Len(room') \in Nat
    BY <1>2, <2>1, RoomGrows DEF OthersWrite
  <2>3. began' \in 0 .. MaxRoom /\ prior' = prior /\ send' = send
    BY <1>2, <2>2 DEF OthersWrite, DotTypeOK
  <2> QED
    BY <2>2, <2>3 DEF DotTypeOK
<1>3. CASE Validated
  BY <1>3 DEF Validated, DotTypeOK
<1>4. CASE ReadBefore
  <2>1. \A ids \in Answered : ids \in SUBSET (1 .. MaxRoom)
    BY DEF Answered, Page, DotTypeOK
  <2> QED
    BY <1>4, <2>1 DEF ReadBefore, DotTypeOK
<1>5. CASE Sent
  <2>1. [owner |-> TRUE, same |-> TRUE] \in RoomMessage
    BY DEF RoomMessage
  <2>2. room' \in Seq(RoomMessage) /\ Len(room') <= MaxRoom
    BY <1>5, <2>1, RoomGrows DEF Sent, DotTypeOK
  <2> QED
    BY <1>5, <2>2 DEF Sent, DotTypeOK
<1>6. CASE ReadAfter
  BY <1>6 DEF ReadAfter, DotTypeOK
<1> QED
  BY <1>1, <1>2, <1>3, <1>4, <1>5, <1>6 DEF DotNext

\* The invariant holds at first.
LEMMA DotBegins == DotInit => DotInv
  BY RoomAssumption DEF DotInit, DotInv, DotTypeOK, BeganInRoom, PriorIsKnown, StaleRepeatsDoNotCount

\* An older message is on no page but the first.
LEMMA DotKeeps ==
    ASSUME ~EmptyAnswers, DotInv, [DotNext]_dotVars PROVE DotInv'
<1> USE RoomAssumption
<1>1. CASE UNCHANGED dotVars
  BY <1>1 DEF dotVars, DotInv, DotTypeOK, BeganInRoom, PriorIsKnown, StaleRepeatsDoNotCount
<1>2. CASE OthersWrite
  <2>1. PICK m \in RoomMessage : room' = Append(room, m)
    BY <1>2 DEF OthersWrite
  <2>2. /\ room' \in Seq(RoomMessage) /\ Len(room') = Len(room) + 1 /\ Len(room') <= MaxRoom
        /\ DOMAIN room = 1 .. Len(room) /\ DOMAIN room' = 1 .. (Len(room) + 1)
        /\ Len(room) \in Nat /\ room'[Len(room) + 1] = m
        /\ \A i \in DOMAIN room : room'[i] = room[i]
    BY <1>2, <2>1, RoomGrows DEF OthersWrite, DotInv
  <2>3. began' = (IF send = "rooms" THEN Len(room') ELSE began) /\ prior' = prior /\ send' = send
    BY <1>2 DEF OthersWrite
  <2>4. DotTypeOK' /\ BeganInRoom'
    BY <2>2, <2>3 DEF DotInv, DotTypeOK, BeganInRoom
  <2>5. PriorIsKnown'
    BY <2>2, <2>3 DEF DotInv, DotTypeOK, BeganInRoom, PriorIsKnown
  <2>6. StaleRepeatsDoNotCount'
    BY <2>2, <2>3 DEF DotInv, StaleRepeatsDoNotCount
  <2> QED
    BY <2>4, <2>5, <2>6 DEF DotInv
<1>3. CASE Validated
  BY <1>3 DEF Validated, DotInv, DotTypeOK, BeganInRoom, PriorIsKnown, StaleRepeatsDoNotCount
<1>4. CASE ReadBefore
  <2>1. Answered = {Page} /\ Page \subseteq DOMAIN room /\ DOMAIN room \subseteq 1 .. MaxRoom
    BY DEF Answered, Page, DotInv, DotTypeOK
  <2>2. (prior' = Page /\ send' = "post") \/ (send' = "raised" /\ prior' = prior)
    BY <1>4, <2>1 DEF ReadBefore
  <2>3. room' = room /\ began' = began
    BY <1>4 DEF ReadBefore
  <2>4. DotTypeOK' /\ BeganInRoom' /\ StaleRepeatsDoNotCount'
    BY <2>1, <2>2, <2>3 DEF DotInv, DotTypeOK, BeganInRoom, StaleRepeatsDoNotCount
  <2>5. PriorIsKnown'
    BY <2>2, <2>3 DEF PriorIsKnown, Page
  <2> QED
    BY <2>4, <2>5 DEF DotInv
<1>5. CASE Sent
  <2>1. send = "post" /\ send' \in {"after", "raised"} /\ began' = began /\ prior' = prior
    BY <1>5 DEF Sent
  <2>2. CASE room' = room
    BY <2>1, <2>2 DEF DotInv, DotTypeOK, BeganInRoom, PriorIsKnown, StaleRepeatsDoNotCount
  <2>3. CASE Len(room) < MaxRoom /\ room' = Append(room, [owner |-> TRUE, same |-> TRUE])
    <3> DEFINE m == [owner |-> TRUE, same |-> TRUE]
    <3>1. m \in RoomMessage
      BY DEF RoomMessage
    <3> HIDE DEF m
    <3>2. /\ room' \in Seq(RoomMessage) /\ Len(room') = Len(room) + 1 /\ Len(room') <= MaxRoom
          /\ DOMAIN room = 1 .. Len(room) /\ DOMAIN room' = 1 .. (Len(room) + 1)
          /\ Len(room) \in Nat
      BY <2>3, <3>1, RoomGrows DEF DotInv, m
    <3>3. DotTypeOK' /\ BeganInRoom' /\ StaleRepeatsDoNotCount'
      BY <2>1, <3>2 DEF DotInv, DotTypeOK, BeganInRoom, StaleRepeatsDoNotCount
    <3>4. PriorIsKnown'
      BY <2>1, <3>2 DEF DotInv, DotTypeOK, BeganInRoom, PriorIsKnown
    <3> QED
      BY <3>3, <3>4 DEF DotInv
  <2> QED
    BY <1>5, <2>2, <2>3 DEF Sent
<1>6. CASE ReadAfter
  <2>1. send = "after" /\ room' = room /\ began' = began /\ prior' = prior
    BY <1>6 DEF ReadAfter
  <2>2. \/ send' = IF SeenIn(Page) THEN "delivered" ELSE "undelivered"
        \/ send' = "raised"
    BY <1>6 DEF ReadAfter, Answered
  <2>3. DotTypeOK' /\ BeganInRoom' /\ PriorIsKnown'
    BY <2>1, <2>2 DEF DotInv, DotTypeOK, BeganInRoom, PriorIsKnown
  <2>4. StaleRepeatsDoNotCount'
    <3> SUFFICES ASSUME send' = "delivered"
                 PROVE  \E i \in DOMAIN room : i > began /\ room[i].owner /\ room[i].same
      BY <2>1 DEF StaleRepeatsDoNotCount
    <3>1. PICK i \in Page \ prior : room[i].owner /\ room[i].same
      BY <2>2 DEF SeenIn
    <3>2. i \in DOMAIN room /\ i > began
      BY <2>1, <3>1 DEF Page, DotInv, DotTypeOK, PriorIsKnown
    <3> QED
      BY <3>1, <3>2
  <2> QED
    BY <2>3, <2>4 DEF DotInv
<1> QED
  BY <1>1, <1>2, <1>3, <1>4, <1>5, <1>6 DEF DotNext

\* If a read of the room is answered by its newest messages, and not by nothing, an older
\* message of the same words is never taken for the delivery, whatever others write
\* between the reads and however many messages a page holds.
THEOREM DeliveryIsNew == ASSUME ~EmptyAnswers PROVE DotSpec => []StaleRepeatsDoNotCount
<1>2. DotInv /\ [DotNext]_dotVars => DotInv'
  BY DotKeeps
<1>3. DotInv => StaleRepeatsDoNotCount
  BY DEF DotInv
<1> QED
  BY DotBegins, <1>2, <1>3, PTL DEF DotSpec

-----------------------------------------------------------------------------
(* AnswerLanes *)

\* What of the browser's work is behind a call.
Opened == {"temporary", "mode", "model", "send"}
Sending == {"indicator", "node", "deadline", "read"}

\* The page is as the caller wanted it from the step that sets it on.
PageIsAsAsked ==
    /\ lane \in Sending \cup {"mode", "model", "send"} => page.temporary = asked.temporary
    /\ lane \in Sending \cup {"model", "send"} => page.mode = asked.mode

\* A reply is on the page only after the prompt was sent; what _await_reply_done has seen
\* of it means that it has begun, and no indicator after that, that it is over.
ReplyIsAwaited ==
    /\ lane \in {"begin", "direct", "fallback", "open"} \cup Opened => page.reply = "unsent"
    /\ page.indicator => page.reply = "begun"
    /\ page.reply = "begun" => page.indicator
    /\ page.node \/ streaming \/ started => page.reply \in {"begun", "over"}
    /\ lane = "read" => page.reply = "over"

\* The two lanes that are not the browser were never asked to be.
OtherLanes == lane \in {"direct", "fallback"} => ~asked.browser

LaneInv == LaneTypeOK /\ PageIsAsAsked /\ ReplyIsAwaited /\ OtherLanes

\* The invariant holds at first.
LEMMA LaneBegins == LaneInit => LaneInv
<1> SUFFICES ASSUME LaneInit PROVE LaneInv
  OBVIOUS
<1>1. lane = "begin" /\ ~started /\ ~streaming /\ started \in BOOLEAN /\ streaming \in BOOLEAN
  BY DEF LaneInit
<1>2. page \in Pages /\ page.reply = "unsent" /\ ~page.indicator /\ ~page.node
  BY DEF LaneInit, Pages
<1>3. answer \in [from : Lanes, noted : BOOLEAN]
  BY DEF LaneInit, Lanes
<1>4. LaneTypeOK
  BY <1>1, <1>2, <1>3 DEF LaneInit, LaneTypeOK
<1>5. PageIsAsAsked /\ ReplyIsAwaited /\ OtherLanes
  BY <1>1, <1>2 DEF PageIsAsAsked, ReplyIsAwaited, OtherLanes, Opened, Sending
<1> QED
  BY <1>4, <1>5 DEF LaneInv

\* What an answer leaves behind.
LEMMA AnswerTypes ==
    ASSUME NEW from \in Lanes, NEW noted \in BOOLEAN, Answers(from, noted)
    PROVE  answer' \in [from : Lanes, noted : BOOLEAN] /\ lane' = "returned" /\ asked' = asked
  BY DEF Answers, To

\* A step of the handler keeps it.
LEMMA HandlerKeeps ==
    ASSUME LaneInv, Called \/ Direct \/ Fallback \/ Drifts \/ OpenPage PROVE LaneInv'
<1> USE DEF LaneInv, LaneTypeOK, PageIsAsAsked, ReplyIsAwaited, OtherLanes, Opened, Sending
<1>1. CASE Called
  <2>1. /\ ~asked.browser => lane' = "direct"
        /\ asked.browser /\ asked.enabled => lane' = "open"
        /\ asked.browser /\ ~asked.enabled => lane' = "raised"
    <3>1. lane' = CASE ~asked.browser -> "direct"
                    [] asked.browser /\ asked.enabled -> "open"
                    [] OTHER -> "raised"
      BY <1>1 DEF Called, To
    <3> QED
      BY <3>1, Zenon
  <2>2. lane = "begin" /\ UNCHANGED <<asked, page, answer, started, streaming>>
    BY <1>1 DEF Called, To, Waits
  <2> QED
    BY <2>1, <2>2
<1>2. CASE Direct
  <2>1. "direct" \in Lanes /\ FALSE \in BOOLEAN
    BY DEF Lanes
  <2>2. lane = "direct" /\ UNCHANGED <<page, started, streaming>> /\ asked' = asked
    BY <1>2 DEF Direct, Waits, To, Answers
  <2>3. \/ answer' \in [from : Lanes, noted : BOOLEAN] /\ lane' = "returned"
        \/ answer' = answer /\ lane' \in {"open", "fallback", "raised"}
    BY <1>2, <2>1, AnswerTypes DEF Direct, To
  <2> QED
    BY <2>2, <2>3
<1>3. CASE Fallback
  <2>1. "fallback" \in Lanes /\ TRUE \in BOOLEAN
    BY DEF Lanes
  <2>2. lane = "fallback" /\ UNCHANGED <<page, started, streaming>> /\ asked' = asked
    BY <1>3 DEF Fallback, Waits, To, Answers
  <2>3. \/ answer' \in [from : Lanes, noted : BOOLEAN] /\ lane' = "returned"
        \/ answer' = answer /\ lane' = "raised"
    BY <1>3, <2>1, AnswerTypes DEF Fallback, To
  <2> QED
    BY <2>2, <2>3
<1>4. CASE Drifts
  BY <1>4 DEF Drifts, To, Waits
<1>5. CASE OpenPage
  BY <1>5 DEF OpenPage, To, Waits
<1> QED
  BY <1>1, <1>2, <1>3, <1>4, <1>5

\* So does a step of BrowserTransport.chat that prepares the page.
LEMMA PreparingKeeps ==
    ASSUME LaneInv, PickTemporary \/ PickMode \/ PickModel \/ Send PROVE LaneInv'
<1> USE DEF LaneInv, LaneTypeOK, PageIsAsAsked, ReplyIsAwaited, OtherLanes, Opened, Sending
<1>1. CASE PickTemporary
  BY <1>1 DEF PickTemporary, To, Waits, Pages
<1>2. CASE PickMode
  BY <1>2 DEF PickMode, To, Waits, Pages
<1>3. CASE PickModel
  BY <1>3 DEF PickModel, To, Waits, Pages
<1>4. CASE Send
  BY <1>4 DEF Send, To, Waits, Pages
<1> QED
  BY <1>1, <1>2, <1>3, <1>4

\* So does a look at the page.
LEMMA LookingKeeps ==
    ASSUME LaneInv, CountIndicator \/ CountNode \/ Deadline \/ Read PROVE LaneInv'
<1> USE DEF LaneInv, LaneTypeOK, PageIsAsAsked, ReplyIsAwaited, OtherLanes, Opened, Sending
<1>1. CASE CountIndicator
  <2>1. /\ started /\ ~streaming' => lane' = "read"
        /\ started /\ streaming' => lane' = "deadline"
        /\ ~started => lane' = "node"
    <3>1. lane' = CASE started /\ ~streaming' -> "read"
                    [] started /\ streaming'  -> "deadline"
                    [] OTHER -> "node"
      BY <1>1 DEF CountIndicator, To
    <3> QED
      BY <3>1, Zenon
  <2>2. lane = "indicator" /\ streaming' = page.indicator
        /\ UNCHANGED <<asked, page, answer, started>>
    BY <1>1 DEF CountIndicator, To
  <2> QED
    BY <2>1, <2>2 DEF Pages
<1>2. CASE CountNode
  <2>1. started' = (streaming \/ page.node) /\ lane = "node" /\ lane' = "deadline"
        /\ UNCHANGED <<asked, page, answer, streaming>>
    BY <1>2 DEF CountNode, To
  <2>2. started' \in BOOLEAN /\ (started' => streaming \/ page.node)
    BY <2>1
  <2> QED
    BY <2>1, <2>2
<1>3. CASE Deadline
  BY <1>3 DEF Deadline, To, Waits
<1>4. CASE Read
  <2>1. "browser" \in Lanes /\ (~asked.browser) \in BOOLEAN
    BY DEF Lanes
  <2>2. lane = "read" /\ UNCHANGED <<page, started, streaming>> /\ asked' = asked
    BY <1>4 DEF Read, Waits, To, Answers
  <2>3. \/ answer' \in [from : Lanes, noted : BOOLEAN] /\ lane' = "returned"
        \/ answer' = answer /\ lane' = "raised"
    BY <1>4, <2>1, AnswerTypes DEF Read, To
  <2> QED
    BY <2>2, <2>3
<1> QED
  BY <1>1, <1>2, <1>3, <1>4

\* And so does the page itself, which moves while it is looked at.
LEMMA PageKeeps ==
    ASSUME LaneInv, ReplyBegins \/ NodeAppears \/ ReplyEnds \/ ReplyIsFast PROVE LaneInv'
<1> USE DEF LaneInv, LaneTypeOK, PageIsAsAsked, ReplyIsAwaited, OtherLanes, Opened, Sending
<1>1. CASE ReplyBegins
  BY <1>1 DEF ReplyBegins, Unseen, Pages
<1>2. CASE NodeAppears
  BY <1>2 DEF NodeAppears, Unseen, Pages
<1>3. CASE ReplyEnds
  <2>1. /\ page' \in Pages /\ page'.reply = "over" /\ ~page'.indicator /\ page'.node = page.node
        /\ page'.temporary = page.temporary /\ page'.mode = page.mode /\ page.reply = "begun"
    BY <1>3 DEF ReplyEnds, Pages
  <2>2. UNCHANGED <<asked, lane, started, streaming, answer>>
    BY <1>3 DEF ReplyEnds, Unseen
  <2> QED
    BY <2>1, <2>2
<1>4. CASE ReplyIsFast
  BY <1>4 DEF ReplyIsFast, Unseen, Pages
<1> QED
  BY <1>1, <1>2, <1>3, <1>4

\* Every step keeps it.
LEMMA LaneKeeps == LaneInv /\ [LaneNext]_laneVars => LaneInv'
<1> SUFFICES ASSUME LaneInv, [LaneNext]_laneVars PROVE LaneInv'
  OBVIOUS
<1>1. CASE UNCHANGED laneVars
  BY <1>1 DEF laneVars, LaneInv, LaneTypeOK, PageIsAsAsked, ReplyIsAwaited, OtherLanes
<1>2. CASE LaneNext
  BY <1>2, HandlerKeeps, PreparingKeeps, LookingKeeps, PageKeeps DEF LaneNext
<1> QED
  BY <1>1, <1>2

\* Which steps return, and what.
LEMMA LaneReturns ==
    ASSUME LaneInv, LaneNext, lane # "returned", lane' = "returned"
    PROVE  \/ lane = "direct" /\ answer' = [from |-> "direct", noted |-> FALSE]
           \/ lane = "fallback" /\ answer' = [from |-> "fallback", noted |-> TRUE]
           \/ lane = "read" /\ answer' = [from |-> "browser", noted |-> ~asked.browser]
<1>1. ~Called
  <2> SUFFICES ASSUME Called PROVE FALSE
    OBVIOUS
  <2>1. lane' = CASE ~asked.browser -> "direct"
                  [] asked.browser /\ asked.enabled -> "open"
                  [] OTHER -> "raised"
    BY DEF Called, To
  <2>2. lane' = "direct" \/ lane' = "open" \/ lane' = "raised"
    BY <2>1, Zenon
  <2> QED
    BY <2>2
<1>2. ~CountIndicator
  <2> SUFFICES ASSUME CountIndicator PROVE FALSE
    OBVIOUS
  <2>1. lane' = CASE started /\ ~streaming' -> "read"
                  [] started /\ streaming'  -> "deadline"
                  [] OTHER -> "node"
    BY DEF CountIndicator, To
  <2>2. lane' = "read" \/ lane' = "deadline" \/ lane' = "node"
    BY <2>1, Zenon
  <2> QED
    BY <2>2
<1>3. Direct \/ Fallback \/ Read
  BY <1>1, <1>2 DEF LaneNext, OpenPage, Drifts, PickTemporary, PickMode, PickModel, Send,
     CountNode, Deadline, ReplyBegins, NodeAppears, ReplyEnds, ReplyIsFast, To, Unseen
<1> QED
  BY <1>3 DEF Direct, Fallback, Read, Answers, To

\* Whatever the page does between two looks at it, the browser's reply is read when it is
\* over, or was stopped, and in the chat and the mode asked for; of what the other lanes
\* answer it says only that one which stands in for another tells so.
THEOREM RepliesAreWhole == LaneSpec => ReplyIsWhole
<1> DEFINE Whole1 ==
             /\ answer'.from = "browser" =>
                  /\ page.reply = "over"
                  /\ page.temporary = asked.temporary /\ page.mode = asked.mode
             /\ answer'.noted = (answer'.from # IF asked.browser THEN "browser"
                                                                 ELSE "direct")
<1>1. ASSUME LaneInv, LaneNext, lane # "returned", lane' = "returned" PROVE Whole1
  <2>1. CASE lane = "direct" /\ answer' = [from |-> "direct", noted |-> FALSE]
    <3>1. ~asked.browser /\ answer'.from = "direct" /\ answer'.noted = FALSE
      BY <1>1, <2>1 DEF LaneInv, OtherLanes
    <3>2. answer'.from # "browser"
      BY <3>1
    <3> QED
      BY <3>1, <3>2
  <2>2. CASE lane = "fallback" /\ answer' = [from |-> "fallback", noted |-> TRUE]
    <3>1. ~asked.browser /\ answer'.from = "fallback" /\ answer'.noted = TRUE
      BY <1>1, <2>2 DEF LaneInv, OtherLanes
    <3>2. answer'.from # "browser" /\ answer'.from # "direct"
      BY <3>1
    <3> QED
      BY <3>1, <3>2
  <2>3. CASE lane = "read" /\ answer' = [from |-> "browser", noted |-> ~asked.browser]
    <3>1. answer'.from = "browser" /\ answer'.noted = ~asked.browser
      BY <2>3
    <3>2. page.reply = "over" /\ page.temporary = asked.temporary /\ page.mode = asked.mode
      BY <1>1, <2>3 DEF LaneInv, PageIsAsAsked, ReplyIsAwaited, Sending
    <3>3. answer'.from # "direct"
      BY <3>1
    <3>4. asked.browser \in BOOLEAN
      BY <1>1 DEF LaneInv, LaneTypeOK
    <3>5. CASE asked.browser
      BY <3>1, <3>2, <3>5
    <3>6. CASE ~asked.browser
      BY <3>1, <3>2, <3>3, <3>6
    <3> QED
      BY <3>5, <3>6
  <2> QED
    BY <1>1, <2>1, <2>2, <2>3, LaneReturns
<1>2. LaneInv /\ [LaneNext]_laneVars =>
        [lane # "returned" /\ lane' = "returned" => Whole1]_laneVars
  BY <1>1
<1> QED
  BY <1>2, LaneBegins, LaneKeeps, PTL DEF LaneSpec, ReplyIsWhole

-----------------------------------------------------------------------------
(* ImageTurn *)

\* As many polls as poll_errors counts have failed, the latest ones; while the call polls
\* there are fewer than it takes to give up.
ErrorsAreLatest ==
    /\ errors <= Len(outcomes) /\ Len(outcomes) <= MaxErrors
    /\ \A n \in DOMAIN outcomes : n > Len(outcomes) - errors => outcomes[n] = "failed"
    /\ image \in {"setup", "streaming", "polling"} => errors < MaxErrors

ImageInv == ImageTypeOK /\ ErrorsAreLatest

\* What the memory of outcomes holds after another one.
LEMMA OutcomeAdded ==
    ASSUME ImageInv, NEW outcome \in {"failed", "nothing"}, Remembers(outcome)
    PROVE  /\ outcomes' \in Seq({"failed", "nothing"}) /\ Len(outcomes') \in Nat
           /\ Len(outcomes') = IF Len(outcomes) < MaxErrors THEN Len(outcomes) + 1 ELSE MaxErrors
           /\ DOMAIN outcomes' = 1 .. Len(outcomes')
           /\ outcomes'[Len(outcomes')] = outcome
           /\ \A n \in DOMAIN outcomes' : n # Len(outcomes') =>
                outcomes'[n] = outcomes[n + Len(outcomes) + 1 - Len(outcomes')]
<1>1. outcomes \in Seq({"failed", "nothing"}) /\ Len(outcomes) \in Nat
      /\ MaxErrors \in Nat \ {0} /\ Len(outcomes) <= MaxErrors
  BY ImageAssumption DEF ImageInv, ImageTypeOK, ErrorsAreLatest
<1>2. CASE Len(outcomes) < MaxErrors
  BY <1>1, <1>2 DEF Remembers
<1>3. CASE Len(outcomes) = MaxErrors
  <2> DEFINE rest == Tail(outcomes)
  <2>1. rest \in Seq({"failed", "nothing"}) /\ Len(rest) = MaxErrors - 1
        /\ \A n \in 1 .. MaxErrors - 1 : rest[n] = outcomes[n + 1]
    BY <1>1, <1>3
  <2>2. outcomes' = Append(rest, outcome)
    BY <1>1, <1>3 DEF Remembers
  <2> HIDE DEF rest
  <2> QED
    BY <1>1, <1>3, <2>1, <2>2
<1> QED
  BY <1>1, <1>2, <1>3

\* The time waited is bounded, whatever is added to it.
LEMMA UntilTypes == ASSUME NEW t \in Nat, Until(t) PROVE elapsed' \in 0 .. MaxWait
  BY ImageAssumption DEF Until

\* So is the wait after an error.
LEMMA BackoffTypes == ASSUME NEW n PROVE Backoff(n) \in Nat
  BY ImageAssumption DEF Backoff

\* The invariant holds at first.
LEMMA ImageBegins == ImageInit => ImageInv
<1> SUFFICES ASSUME ImageInit PROVE ImageInv
  OBVIOUS
<1>1. NoAsset \in Asset
  BY ImageAssumption DEF NoAsset, Asset
<1>2. outcomes = <<>> /\ Len(outcomes) = 0 /\ outcomes \in Seq({"failed", "nothing"})
      /\ DOMAIN outcomes = {}
  BY DEF ImageInit
<1>3. ImageTypeOK
  <2>1. asset \in Asset /\ outcomes \in Seq({"failed", "nothing"})
    BY <1>1, <1>2 DEF ImageInit
  <2>2. /\ image \in {"setup", "streaming", "polling", "download", "info", "returned", "raised"}
        /\ pictures \in 0 .. MaxPictures /\ thread \in BOOLEAN
        /\ errors \in 0 .. MaxErrors /\ elapsed \in 0 .. MaxWait
    <3>1. image = "setup" /\ pictures = 0 /\ thread = FALSE /\ errors = 0 /\ elapsed = 0
      BY DEF ImageInit
    <3>2. 0 \in 0 .. MaxPictures /\ 0 \in 0 .. MaxErrors /\ 0 \in 0 .. MaxWait
      BY ImageAssumption
    <3> QED
      BY <3>1, <3>2
  <2> QED
    BY <2>1, <2>2 DEF ImageTypeOK
<1>4. ErrorsAreLatest
  BY <1>2, ImageAssumption DEF ImageInit, ErrorsAreLatest
<1> QED
  BY <1>3, <1>4 DEF ImageInv

\* A picture that is found is one there is.
LEMMA FoundTypes == ASSUME NEW n \in 0 .. MaxPictures, Found(n) PROVE asset' \in Asset
  BY DEF Found, Asset, NoAsset

\* A good poll forgives the errors before it.
LEMMA PollReadsKeeps == ASSUME ImageInv, PollReads PROVE ImageInv'
<1> USE ImageAssumption
<1>1. errors' = 0 /\ UNCHANGED <<pictures, thread>> /\ image = "polling" /\ Until(elapsed + 1)
  BY DEF PollReads, Polling
<1>2. elapsed' \in 0 .. MaxWait
  BY <1>1, UntilTypes DEF ImageInv, ImageTypeOK
<1>3. CASE Found(pictures) /\ UNCHANGED outcomes
  <2>1. asset' \in Asset
    BY <1>3, FoundTypes DEF ImageInv, ImageTypeOK
  <2> QED
    BY <1>1, <1>2, <1>3, <2>1 DEF Found, ImageInv, ImageTypeOK, ErrorsAreLatest
<1>4. CASE Remembers("nothing") /\ UNCHANGED <<image, asset>>
  <2>1. /\ outcomes' \in Seq({"failed", "nothing"}) /\ Len(outcomes') \in Nat
        /\ Len(outcomes') <= MaxErrors /\ DOMAIN outcomes' = 1 .. Len(outcomes')
    BY <1>4, OutcomeAdded DEF ImageInv, ErrorsAreLatest
  <2> QED
    BY <1>1, <1>2, <1>4, <2>1 DEF ImageInv, ImageTypeOK, ErrorsAreLatest
<1> QED
  BY <1>3, <1>4 DEF PollReads, Sees

\* A failed one is one more, and when it is the last that is borne, all the polls that are
\* remembered have failed.
LEMMA PollFailsKeeps ==
    ASSUME ImageInv, PollFails
    PROVE  /\ ImageInv'
           /\ image' # "polling" =>
                image' = "raised" /\ outcomes' = [n \in 1 .. MaxErrors |-> "failed"]
<1> USE ImageAssumption
<1>1. errors' = errors + 1 /\ image = "polling" /\ UNCHANGED <<pictures, thread, asset>>
      /\ Remembers("failed")
  BY DEF PollFails, Polling
<1>2. errors \in Nat /\ errors < MaxErrors /\ errors <= Len(outcomes) /\ Len(outcomes) \in Nat
      /\ outcomes \in Seq({"failed", "nothing"}) /\ Len(outcomes) <= MaxErrors
      /\ DOMAIN outcomes = 1 .. Len(outcomes)
  BY <1>1 DEF ImageInv, ImageTypeOK, ErrorsAreLatest
<1>3. /\ outcomes' \in Seq({"failed", "nothing"}) /\ Len(outcomes') \in Nat
      /\ Len(outcomes') = IF Len(outcomes) < MaxErrors THEN Len(outcomes) + 1 ELSE MaxErrors
      /\ DOMAIN outcomes' = 1 .. Len(outcomes')
      /\ outcomes'[Len(outcomes')] = "failed"
      /\ \A n \in DOMAIN outcomes' : n # Len(outcomes') =>
           outcomes'[n] = outcomes[n + Len(outcomes) + 1 - Len(outcomes')]
  BY <1>1, OutcomeAdded
<1>4. errors' <= Len(outcomes') /\ Len(outcomes') <= MaxErrors
  BY <1>1, <1>2, <1>3
<1>5. \A n \in DOMAIN outcomes' : n > Len(outcomes') - errors' => outcomes'[n] = "failed"
  <2> SUFFICES ASSUME NEW n \in DOMAIN outcomes', n > Len(outcomes') - errors',
                      n # Len(outcomes')
               PROVE  outcomes'[n] = "failed"
    BY <1>3
  <2> DEFINE k == n + Len(outcomes) + 1 - Len(outcomes')
  <2>1. k \in DOMAIN outcomes /\ k > Len(outcomes) - errors
    BY <1>1, <1>2, <1>3
  <2>2. outcomes[k] = "failed"
    BY <2>1 DEF ImageInv, ErrorsAreLatest
  <2> QED
    BY <1>3, <2>2
<1>6. CASE errors' >= MaxErrors
  <2>1. image' = "raised" /\ elapsed' = elapsed
    BY <1>6 DEF PollFails
  <2>2. errors' = MaxErrors /\ Len(outcomes') = MaxErrors
    BY <1>1, <1>2, <1>4, <1>6
  <2>3. outcomes' = [n \in 1 .. MaxErrors |-> "failed"]
    <3>1. \A n \in 1 .. MaxErrors : outcomes'[n] = "failed"
      BY <1>3, <1>5, <2>2
    <3> QED
      BY <1>3, <2>2, <3>1
  <2>4. ImageTypeOK' /\ ErrorsAreLatest'
    BY <1>1, <1>2, <1>3, <1>4, <1>5, <2>1, <2>2 DEF ImageInv, ImageTypeOK, ErrorsAreLatest
  <2> QED
    BY <2>1, <2>3, <2>4 DEF ImageInv
<1>7. CASE ~(errors' >= MaxErrors)
  <2>1. image' = image /\ Until(elapsed + 1 + Backoff(errors'))
    BY <1>7 DEF PollFails
  <2>2. elapsed' \in 0 .. MaxWait
    <3> DEFINE t == elapsed + 1 + Backoff(errors')
    <3>1. Backoff(errors') \in Nat
      BY BackoffTypes
    <3>2. t \in Nat
      BY <3>1 DEF ImageInv, ImageTypeOK
    <3> HIDE DEF t
    <3> QED
      BY <2>1, <3>2, UntilTypes DEF t
  <2>3. ImageTypeOK' /\ ErrorsAreLatest'
    BY <1>1, <1>2, <1>3, <1>4, <1>5, <1>7, <2>1, <2>2 DEF ImageInv, ImageTypeOK, ErrorsAreLatest
  <2> QED
    BY <1>1, <2>1, <2>3 DEF ImageInv
<1> QED
  BY <1>6, <1>7

\* No other step counts errors, or goes back to the polls.
LEMMA OtherImageSteps ==
    ASSUME ImageInv,
           \/ Requested \/ RequestFails \/ Identified \/ PictureMade \/ StreamDone
           \/ TimesOut \/ Download \/ Info \/ UNCHANGED imageVars
    PROVE  ImageInv'
<1> USE ImageAssumption DEF ImageInv, ImageTypeOK, ErrorsAreLatest, Polls
<1>1. CASE Requested \/ RequestFails \/ Identified \/ StreamDone \/ TimesOut
  BY <1>1 DEF Requested, RequestFails, Identified, StreamDone, TimesOut
<1>2. CASE PictureMade
  <2>1. pictures' = pictures + 1 /\ pictures' \in 0 .. MaxPictures
        /\ UNCHANGED <<thread, errors, elapsed, outcomes>>
    BY <1>2 DEF PictureMade
  <2>2. CASE Found(pictures + 1)
    <3>1. asset' \in Asset
      BY <2>1, <2>2, FoundTypes
    <3> QED
      BY <2>1, <2>2, <3>1 DEF Found
  <2>3. CASE UNCHANGED <<image, asset>>
    BY <2>1, <2>3
  <2> QED
    BY <1>2, <2>2, <2>3 DEF PictureMade
<1>3. CASE Download
  <2>1. UNCHANGED <<pictures, thread, errors, elapsed, outcomes>>
        /\ image' \in {"returned", "raised", "info"}
    BY <1>3 DEF Download, FileOnly
  <2>2. asset' \in Asset
    BY <1>3 DEF Download, Asset
  <2> QED
    BY <2>1, <2>2
<1>4. CASE Info
  <2>1. UNCHANGED <<pictures, thread, errors, elapsed, outcomes>> /\ image' = "returned"
    BY <1>4 DEF Info, FileOnly
  <2>2. asset' \in Asset
    BY <1>4 DEF Info, Asset
  <2> QED
    BY <2>1, <2>2
<1>5. CASE UNCHANGED imageVars
  BY <1>5 DEF imageVars
<1> QED
  BY <1>1, <1>2, <1>3, <1>4, <1>5

\* Every step keeps it.
LEMMA ImageKeeps == ImageInv /\ [ImageNext]_imageVars => ImageInv'
  BY PollReadsKeeps, PollFailsKeeps, OtherImageSteps DEF ImageNext

\* The polls end at the newest picture there is, or when the time is over, or after as many
\* failures in a row as the code bears: errors that a good poll parts never add up, and no
\* picture that a poll could see is missed.
THEOREM PollsEndFairly == ImageSpec => PollsAreFair
<1> DEFINE Ends == \/ image' = "download" /\ asset'.picture = pictures /\ pictures > 0
                   \/ image' = "raised" /\ outcomes' = [n \in 1 .. MaxErrors |-> "failed"]
                   \/ image' = "raised" /\ elapsed = MaxWait
<1>1. ASSUME ImageInv, ImageNext, image = "polling", image' # "polling" PROVE Ends
  <2>1. PollReads \/ PollFails \/ TimesOut
    BY <1>1 DEF ImageNext, Requested, RequestFails, Identified, PictureMade, StreamDone,
                Download, Info
  <2>2. CASE PollReads
    <3>1. pictures > 0 /\ Found(pictures)
      BY <1>1, <2>2 DEF PollReads, Sees, ImageInv, ImageTypeOK
    <3>2. asset'.picture = pictures /\ image' = "download"
      BY <3>1 DEF Found, NoAsset
    <3> QED
      BY <3>1, <3>2
  <2>3. CASE PollFails
    BY <1>1, <2>3, PollFailsKeeps
  <2>4. CASE TimesOut
    BY <1>1, <2>4, ImageAssumption DEF TimesOut, Polling, ImageInv, ImageTypeOK
  <2> QED
    BY <2>1, <2>2, <2>3, <2>4
<1>2. ImageInv /\ [ImageNext]_imageVars =>
        [image = "polling" /\ image' # "polling" => Ends]_imageVars
  BY <1>1
<1> QED
  BY <1>2, ImageBegins, ImageKeeps, PTL DEF ImageSpec, PollsAreFair

-----------------------------------------------------------------------------
(* ToolCall *)

Fields == {"kind", "content", "status", "path", "seq", "last", "streamed", "entries", "completed"}

Finished(r) == r.status = "finished_successfully"

\* What Seen makes of each kind of message.
LEMMA SeenIs ==
    ASSUME NEW r
    PROVE  /\ r.kind = "text" =>
                Seen(r) = [r EXCEPT !.completed = Finished(r), !.last = r.content,
                                    !.streamed = IF Finished(r) THEN @
                                                 ELSE @ \o NewPart(r.last, r.content)]
           /\ r.kind = "thought" => Seen(r) = [r EXCEPT !.completed = FALSE]
           /\ r.kind = "call" =>
                Seen(r) = [r EXCEPT !.completed = FALSE, !.entries = Record(r, r.seq)]
           /\ r.kind = "response" =>
                Seen(r) = [r EXCEPT !.completed = Finished(r), !.entries = Record(r, r.seq)]
           /\ r.kind \notin {"text", "thought", "call", "response"} => Seen(r) = r
<1>1. ASSUME r.kind = "text"
      PROVE  Seen(r) = [r EXCEPT !.completed = Finished(r), !.last = r.content,
                                    !.streamed = IF Finished(r) THEN @
                                                 ELSE @ \o NewPart(r.last, r.content)]
  BY <1>1, Zenon DEF Seen, Finished
<1>2. ASSUME r.kind = "thought" PROVE Seen(r) = [r EXCEPT !.completed = FALSE]
  BY <1>2, Zenon DEF Seen
<1>3. ASSUME r.kind = "call"
      PROVE  Seen(r) = [r EXCEPT !.completed = FALSE, !.entries = Record(r, r.seq)]
  BY <1>3, Zenon DEF Seen
<1>4. ASSUME r.kind = "response"
      PROVE  Seen(r) = [r EXCEPT !.completed = Finished(r), !.entries = Record(r, r.seq)]
  BY <1>4, Zenon DEF Seen, Finished
<1>5. ASSUME r.kind \notin {"text", "thought", "call", "response"} PROVE Seen(r) = r
  <2>1. r.kind # "text" /\ r.kind # "thought" /\ r.kind # "call" /\ r.kind # "response"
    BY <1>5
  <2> QED
    BY <2>1, Zenon DEF Seen
<1> QED
  BY <1>1, <1>2, <1>3, <1>4, <1>5

\* What a frame leaves of its message, and what it adds to the rest.
LEMMA SeenReads ==
    ASSUME NEW r, DOMAIN r = Fields, NEW s, s = Seen(r)
    PROVE  /\ DOMAIN s = Fields
           /\ s.kind = r.kind /\ s.content = r.content /\ s.status = r.status
           /\ s.path = r.path /\ s.seq = r.seq
           /\ s.last = IF r.kind = "text" THEN r.content ELSE r.last
           /\ s.entries = IF r.kind \in Recorded THEN Record(r, r.seq) ELSE r.entries
           /\ \/ s.streamed = r.streamed
              \/ r.kind = "text" /\ s.streamed = r.streamed \o NewPart(r.last, r.content)
           /\ r.kind \in {"text", "response"} => s.completed = Finished(r)
           /\ r.kind \in {"thought", "call"} => s.completed = FALSE
           /\ r.kind \notin {"text", "thought", "call", "response"} => s.completed = r.completed
<1>1. CASE r.kind = "text"
  <2>1. s = [r EXCEPT !.completed = Finished(r), !.last = r.content,
                      !.streamed = IF Finished(r) THEN @ ELSE @ \o NewPart(r.last, r.content)]
    BY <1>1, SeenIs
  <2> QED
    BY <1>1, <2>1 DEF Fields, Recorded
<1>2. CASE r.kind = "thought"
  <2>1. s = [r EXCEPT !.completed = FALSE]
    BY <1>2, SeenIs
  <2> QED
    BY <1>2, <2>1 DEF Fields, Recorded
<1>3. CASE r.kind = "call"
  <2>1. s = [r EXCEPT !.completed = FALSE, !.entries = Record(r, r.seq)]
    BY <1>3, SeenIs
  <2> QED
    BY <1>3, <2>1 DEF Fields, Recorded
<1>4. CASE r.kind = "response"
  <2>1. s = [r EXCEPT !.completed = Finished(r), !.entries = Record(r, r.seq)]
    BY <1>4, SeenIs
  <2> QED
    BY <1>4, <2>1 DEF Fields, Recorded
<1>5. CASE r.kind \notin {"text", "thought", "call", "response"}
  <2>1. s = r
    BY <1>5, SeenIs
  <2> QED
    BY <1>5, <2>1 DEF Recorded
<1> QED
  BY <1>1, <1>2, <1>3, <1>4, <1>5

\* The pieces of a content.
LEMMA WholeIs ==
    ASSUME NEW m \in Nat, NEW n \in Nat
    PROVE  /\ Whole(m, n) \in Content
           /\ Len(Whole(m, n)) = n
           /\ Whole(m, n) = <<>> <=> n = 0
           /\ \A k \in 1 .. n : Whole(m, n)[k] = Piece(m, k)
  BY DEF Whole, Piece, Content

\* A content grows by its next piece.
LEMMA PieceJoins ==
    ASSUME NEW m \in Nat, NEW n \in Nat
    PROVE  Append(Whole(m, n), Piece(m, n + 1)) = Whole(m, n + 1)
<1> DEFINE s == Whole(m, n)
           p == Piece(m, n + 1)
           u == Whole(m, n + 1)
           P == Nat \X Nat
<1>1. p \in P
  BY DEF Piece
<1>2. s \in Seq(P) /\ Len(s) = n /\ \A k \in 1 .. n : s[k] = Piece(m, k)
  BY WholeIs DEF Content
<1>3. n + 1 \in Nat
  OBVIOUS
<1>4. u \in Seq(P) /\ Len(u) = n + 1 /\ \A k \in 1 .. n + 1 : u[k] = Piece(m, k)
  BY <1>3, WholeIs DEF Content
<1>5. u[n + 1] = p /\ \A k \in 1 .. n : u[k] = s[k]
  <2>1. n + 1 \in 1 .. n + 1 /\ \A k \in 1 .. n : k \in 1 .. n + 1
    OBVIOUS
  <2> HIDE DEF s, u
  <2> QED
    BY <1>2, <1>4, <2>1
<1> HIDE DEF P, s, p, u
<1>6. Append(s, p) \in Seq(P) /\ Len(Append(s, p)) = n + 1
  BY <1>1, <1>2
<1>7. \A k \in 1 .. n + 1 : Append(s, p)[k] = u[k]
  BY <1>1, <1>2, <1>5
<1>8. Append(s, p) = u
  BY <1>4, <1>6, <1>7
<1> QED
  BY <1>8 DEF s, p, u

\* What a snapshot adds is content.
LEMMA NewPartType ==
    ASSUME NEW old \in Content, NEW new \in Content PROVE NewPart(old, new) \in Content
  BY DEF NewPart, Content, IsPrefix

\* Contents joined are content.
LEMMA ContentJoins ==
    ASSUME NEW s \in Content, NEW t \in Content PROVE s \o t \in Content
  BY DEF Content

-----------------------------------------------------------------------------
\* The messages of some kinds, and the latest of them.
Of(t, kinds) == {m \in DOMAIN t : t[m].kind \in kinds}

LatestOf(t, kinds, m) == m \in Of(t, kinds) /\ \A i \in Of(t, kinds) : i <= m

Counted == Kind \ {"note"}

\* The last envelope of its message, and the entries, for any turn.
LastIn(o, n) == \A i \in DOMAIN o : o[i] = o[n] => i <= n

EntriesTell(e, t, o) ==
    /\ DOMAIN e = {n \in DOMAIN o : t[o[n]].kind \in Recorded}
    /\ \A n \in DOMAIN e :
         /\ e[n].kind = t[o[n]].kind
         /\ \E k \in 0 .. t[o[n]].length : e[n].content = Whole(o[n], k)
         /\ LastIn(o, n) => e[n].content = Whole(o[n], t[o[n]].length)

\* The locals carry the newest message: on the v1 wire to the letter, on the classic one
\* when it is recorded or has ended.
Carries(r, t) ==
    /\ wire = "v1" => r.seq = Len(t)
    /\ wire = "classic" => r.path = "none"
    /\ t # <<>> =>
         LET n == Len(t)
         IN /\ r.kind = t[n].kind /\ r.status = t[n].status
            /\ wire = "v1" \/ t[n].kind \in Recorded \/ t[n].status # "in_progress" =>
                 r.content = Whole(n, t[n].length)

\* The locals hold what went before as well: the entries, the latest text, and whether the
\* last word was a finished one.
HoldsEntries(r, t, o) ==
    /\ o \in Seq(DOMAIN t) /\ Len(o) = r.seq
    /\ t # <<>> => o # <<>> /\ o[Len(o)] = Len(t)
    /\ wire = "v1" => o = [m \in DOMAIN t |-> m]
    /\ EntriesTell(r.entries, t, o)

HoldsText(r, t) ==
    /\ Of(t, {"text"}) # {} => \E m \in DOMAIN t : LatestOf(t, {"text"}, m)
    /\ \A m \in DOMAIN t :
         LatestOf(t, {"text"}, m) /\ (wire = "v1" \/ t[m].status # "in_progress") =>
           r.last = Whole(m, t[m].length)

HoldsEnd(r, t) ==
    r.completed => \E m \in DOMAIN t :
        /\ LatestOf(t, Counted, m)
        /\ t[m].kind \in {"text", "response"} /\ t[m].status = "finished_successfully"

\* The turn goes on: by a message, or in its newest one.
GoesOn(t, u) ==
    /\ u \in Seq(Message) /\ u # <<>>
    /\ \/ /\ Len(u) = Len(t) + 1
          /\ \A i \in DOMAIN t : u[i] = t[i]
       \/ /\ Len(u) = Len(t) /\ t[Len(t)].kind = u[Len(u)].kind
          /\ t[Len(t)].length <= u[Len(u)].length
          /\ \A i \in DOMAIN t : i # Len(t) => u[i] = t[i]

\* Which messages of some kinds there are then.
LEMMA GoesOnOf ==
    ASSUME NEW t \in Seq(Message), NEW u, GoesOn(t, u), NEW kinds, NEW n, n = Len(u)
    PROVE  /\ n \in DOMAIN u /\ n \in Nat /\ \A i \in DOMAIN u : i <= n
           /\ \A i \in DOMAIN u : i # n => i \in DOMAIN t /\ u[i] = t[i]
           /\ u[n].kind \in kinds => /\ Of(u, kinds) = Of(t, kinds) \cup {n}
                                     /\ LatestOf(u, kinds, n)
           /\ u[n].kind \notin kinds =>
                /\ Of(u, kinds) = Of(t, kinds) /\ n \notin Of(u, kinds)
                /\ \A m : LatestOf(u, kinds, m) <=> LatestOf(t, kinds, m)
<1>1. n \in DOMAIN u /\ n \in Nat /\ DOMAIN u = 1 .. n /\ \A i \in DOMAIN u : i <= n
  BY DEF GoesOn
<1>2. \A i \in DOMAIN u : i # n => i \in DOMAIN t /\ u[i] = t[i]
  BY DEF GoesOn
<1>3. \A i \in DOMAIN t : i # n => i \in DOMAIN u /\ u[i] = t[i]
  BY DEF GoesOn
<1>4. n \in DOMAIN t => t[n].kind = u[n].kind
  BY DEF GoesOn
<1>5. u[n].kind \in kinds => Of(u, kinds) = Of(t, kinds) \cup {n}
  BY <1>1, <1>2, <1>3, <1>4 DEF Of
<1>6. u[n].kind \notin kinds => Of(u, kinds) = Of(t, kinds) /\ n \notin Of(u, kinds)
  BY <1>1, <1>2, <1>3, <1>4 DEF Of
<1>7. u[n].kind \in kinds => LatestOf(u, kinds, n)
  BY <1>1 DEF LatestOf, Of
<1> QED
  BY <1>1, <1>2, <1>5, <1>6, <1>7 DEF LatestOf

\* The newest message has a new envelope, or its latest one goes on.
Traced(r, u, q) ==
    \/ /\ q = Append(origin, Len(u)) /\ r.seq = reader.seq + 1
       /\ wire = "v1" => Len(u) = Len(turn) + 1
    \/ q = origin /\ r.seq = reader.seq /\ Len(u) = Len(turn)

\* A frame that has brought the newest message up to date keeps all of it.
Frame(r, u, q) ==
    /\ DOMAIN r = Fields
    /\ r.last = reader.last /\ r.streamed = reader.streamed
    /\ r.entries = reader.entries /\ r.completed = reader.completed
    /\ r.content \in Content /\ r.path \in {"none", "text", "other"} /\ r.seq \in Nat
    /\ Carries(r, u) /\ Traced(r, u, q)

ToolHolds(r, t, o) ==
    Carries(r, t) /\ HoldsEntries(r, t, o) /\ HoldsText(r, t) /\ HoldsEnd(r, t)

\* Where the envelopes come from then.
LEMMA TracedOrigin ==
    ASSUME turn \in Seq(Message), reader.seq \in Nat, HoldsEntries(reader, turn, origin),
           NEW u, GoesOn(turn, u), NEW r, NEW q, Traced(r, u, q)
    PROVE  /\ q \in Seq(DOMAIN u) /\ Len(q) = r.seq /\ r.seq \in DOMAIN q
           /\ q[r.seq] = Len(u)
           /\ \A k \in DOMAIN q : k # r.seq =>
                k < r.seq /\ k \in DOMAIN origin /\ q[k] = origin[k]
           /\ \A k \in DOMAIN origin : k \in DOMAIN q
           /\ r.seq \in DOMAIN origin => Len(u) = Len(turn) /\ origin[r.seq] = Len(u)
           /\ wire = "v1" => q = [m \in DOMAIN u |-> m]
<1>1. /\ origin \in Seq(DOMAIN turn) /\ Len(origin) = reader.seq
      /\ turn # <<>> => origin # <<>> /\ origin[Len(origin)] = Len(turn)
      /\ wire = "v1" => origin = [m \in DOMAIN turn |-> m]
  BY DEF HoldsEntries
<1>2. u \in Seq(Message) /\ u # <<>> /\ DOMAIN u = 1 .. Len(u) /\ Len(u) \in Nat
      /\ Len(turn) \in Nat /\ DOMAIN turn = 1 .. Len(turn)
      /\ Len(turn) <= Len(u) /\ Len(u) >= 1
  BY DEF GoesOn
<1>3. origin \in Seq(DOMAIN u) /\ Len(u) \in DOMAIN u /\ DOMAIN turn \subseteq DOMAIN u
  BY <1>1, <1>2
<1>4. CASE /\ q = Append(origin, Len(u)) /\ r.seq = reader.seq + 1
           /\ wire = "v1" => Len(u) = Len(turn) + 1
  <2>1. /\ q \in Seq(DOMAIN u) /\ Len(q) = r.seq /\ r.seq \in DOMAIN q /\ q[r.seq] = Len(u)
        /\ DOMAIN q = 1 .. r.seq /\ DOMAIN origin = 1 .. reader.seq
        /\ \A k \in DOMAIN origin : q[k] = origin[k]
    BY <1>1, <1>3, <1>4
  <2>2. \A k \in DOMAIN q : k # r.seq => k < r.seq /\ k \in DOMAIN origin
    BY <1>4, <2>1
  <2>3. r.seq \notin DOMAIN origin /\ \A k \in DOMAIN origin : k \in DOMAIN q
    BY <1>4, <2>1
  <2>4. ASSUME wire = "v1" PROVE q = [m \in DOMAIN u |-> m]
    <3>1. origin = [m \in DOMAIN turn |-> m] /\ Len(u) = Len(turn) + 1
      BY <1>1, <1>4, <2>4
    <3>2. DOMAIN origin = DOMAIN turn
      BY <3>1
    <3>3. reader.seq = Len(turn)
      BY <1>1, <1>2, <3>2
    <3>4. DOMAIN q = DOMAIN u
      BY <1>2, <1>4, <2>1, <3>1, <3>3
    <3>5. \A m \in DOMAIN u : q[m] = m
      BY <1>2, <1>4, <2>1, <2>2, <3>1, <3>3, <3>4
    <3> QED
      BY <2>1, <3>4, <3>5
  <2> QED
    BY <2>1, <2>2, <2>3, <2>4
<1>5. CASE q = origin /\ r.seq = reader.seq /\ Len(u) = Len(turn)
  <2>1. turn # <<>> /\ DOMAIN u = DOMAIN turn
    BY <1>2, <1>5
  <2>2. q \in Seq(DOMAIN u) /\ Len(q) = r.seq /\ q # <<>> /\ q[Len(q)] = Len(u)
    BY <1>1, <1>3, <1>5, <2>1
  <2>3. DOMAIN q = 1 .. r.seq /\ r.seq \in DOMAIN q
    BY <2>2
  <2> QED
    BY <1>1, <1>5, <2>1, <2>2, <2>3
<1> QED
  BY <1>4, <1>5 DEF Traced

LEMMA FrameTypes ==
    ASSUME IsReader(reader), NEW u, u \in Seq(Message), u # <<>>,
           NEW r, NEW q, Frame(r, u, q), NEW s, s = Seen(r)
    PROVE  IsReader(s) /\ DOMAIN s = Fields
<1> DEFINE n == Len(u)
<1>1. n \in DOMAIN u /\ u[n] \in Message
  OBVIOUS
<1>2. r.kind \in Kind /\ r.status \in Status
  BY <1>1 DEF Frame, Carries, Message
<1>3. DOMAIN r = Fields
  BY DEF Frame
<1>4. /\ DOMAIN s = Fields
      /\ s.kind = r.kind /\ s.content = r.content /\ s.status = r.status
      /\ s.path = r.path /\ s.seq = r.seq
      /\ s.last = IF r.kind = "text" THEN r.content ELSE r.last
      /\ s.entries = IF r.kind \in Recorded THEN Record(r, r.seq) ELSE r.entries
      /\ \/ s.streamed = r.streamed
         \/ r.kind = "text" /\ s.streamed = r.streamed \o NewPart(r.last, r.content)
      /\ r.kind \in {"text", "response"} => s.completed = Finished(r)
      /\ r.kind \in {"thought", "call"} => s.completed = FALSE
      /\ r.kind \notin {"text", "thought", "call", "response"} => s.completed = r.completed
  BY <1>3, SeenReads
<1>5. s.streamed \in Content
  <2>1. r.streamed \in Content /\ r.last \in Content /\ r.content \in Content
    BY DEF Frame, IsReader
  <2>2. NewPart(r.last, r.content) \in Content
    BY <2>1, NewPartType
  <2>3. r.streamed \o NewPart(r.last, r.content) \in Content
    BY <2>1, <2>2, ContentJoins
  <2> QED
    BY <1>4, <2>1, <2>3
<1>6. s.completed \in BOOLEAN
  BY <1>2, <1>4 DEF Frame, IsReader, Finished, Kind
<1>7. \A k \in DOMAIN s.entries :
        k \in Nat /\ s.entries[k].kind \in Recorded /\ s.entries[k].content \in Content
  <2>1. CASE r.kind \in Recorded
    <3>1. s.entries = Record(r, r.seq) /\ r.seq \in Nat /\ r.content \in Content
      BY <1>4, <2>1 DEF Frame
    <3>2. \A k \in DOMAIN r.entries :
            k \in Nat /\ r.entries[k].kind \in Recorded /\ r.entries[k].content \in Content
      BY DEF Frame, IsReader
    <3> QED
      BY <2>1, <3>1, <3>2 DEF Record
  <2>2. CASE r.kind \notin Recorded
    BY <1>4, <2>2 DEF Frame, IsReader
  <2> QED
    BY <2>1, <2>2
<1>8. s.last \in Content /\ s.content \in Content /\ s.seq \in Nat
      /\ s.path \in {"none", "text", "other"}
  BY <1>4 DEF Frame, IsReader
<1> QED
  BY <1>2, <1>4, <1>5, <1>6, <1>7, <1>8 DEF IsReader

LEMMA FrameKeeps ==
    ASSUME wire \in {"classic", "v1"}, IsReader(reader), turn \in Seq(Message),
           ToolHolds(reader, turn, origin),
           NEW u, GoesOn(turn, u), NEW r, NEW q, Frame(r, u, q), NEW s, s = Seen(r)
    PROVE  ToolHolds(s, u, q)
<1> DEFINE n == Len(u)
           kind == u[n].kind
<1>1. n \in DOMAIN u /\ n \in Nat /\ u # <<>> /\ u[n] \in Message /\ u \in Seq(Message)
      /\ u[n].length \in Nat /\ kind \in Kind
  <2>1. u \in Seq(Message) /\ u # <<>>
    BY DEF GoesOn
  <2>2. n \in DOMAIN u /\ n \in Nat
    BY <2>1
  <2>3. u[n] \in Message
    BY <2>1, <2>2
  <2> QED
    BY <2>1, <2>2, <2>3 DEF Message
<1>2. /\ DOMAIN s = Fields
      /\ s.kind = r.kind /\ s.content = r.content /\ s.status = r.status
      /\ s.path = r.path /\ s.seq = r.seq
      /\ s.last = IF r.kind = "text" THEN r.content ELSE r.last
      /\ s.entries = IF r.kind \in Recorded THEN Record(r, r.seq) ELSE r.entries
      /\ r.kind \in {"text", "response"} => s.completed = Finished(r)
      /\ r.kind \in {"thought", "call"} => s.completed = FALSE
      /\ r.kind \notin {"text", "thought", "call", "response"} => s.completed = r.completed
  <2>1. DOMAIN r = Fields
    BY DEF Frame
  <2> QED
    BY <2>1, SeenReads
<1>3. /\ r.kind = kind /\ r.status = u[n].status
      /\ (wire = "v1" \/ kind \in Recorded \/ u[n].status # "in_progress" =>
            r.content = Whole(n, u[n].length))
      /\ wire = "v1" => r.seq = n
  BY <1>1 DEF Frame, Carries
<1>4. \A kinds :
        /\ \A i \in DOMAIN u : i # n => i \in DOMAIN turn /\ u[i] = turn[i]
        /\ kind \in kinds => Of(u, kinds) = Of(turn, kinds) \cup {n} /\ LatestOf(u, kinds, n)
        /\ kind \notin kinds =>
             /\ Of(u, kinds) = Of(turn, kinds) /\ n \notin Of(u, kinds)
             /\ \A m : LatestOf(u, kinds, m) <=> LatestOf(turn, kinds, m)
  <2> SUFFICES ASSUME NEW kinds
               PROVE  /\ \A i \in DOMAIN u : i # n => i \in DOMAIN turn /\ u[i] = turn[i]
                      /\ kind \in kinds =>
                           Of(u, kinds) = Of(turn, kinds) \cup {n} /\ LatestOf(u, kinds, n)
                      /\ kind \notin kinds =>
                           /\ Of(u, kinds) = Of(turn, kinds) /\ n \notin Of(u, kinds)
                           /\ \A m : LatestOf(u, kinds, m) <=> LatestOf(turn, kinds, m)
    OBVIOUS
  <2>1. \A i \in DOMAIN u : i # n => i \in DOMAIN turn /\ u[i] = turn[i]
    BY DEF GoesOn
  <2>2. kind \in kinds => Of(u, kinds) = Of(turn, kinds) \cup {n} /\ LatestOf(u, kinds, n)
    BY GoesOnOf
  <2>3. kind \notin kinds =>
             /\ Of(u, kinds) = Of(turn, kinds) /\ n \notin Of(u, kinds)
             /\ \A m : LatestOf(u, kinds, m) <=> LatestOf(turn, kinds, m)
    BY GoesOnOf
  <2> QED
    BY <2>1, <2>2, <2>3
<1> HIDE DEF n, kind
<1>5. Carries(s, u)
  BY <1>2 DEF Frame, Carries
<1>6. HoldsEntries(s, u, q)
  <2> DEFINE z == r.seq
  <2>1. /\ HoldsEntries(reader, turn, origin) /\ reader.seq \in Nat /\ Traced(r, u, q)
        /\ r.entries = reader.entries
    BY DEF ToolHolds, IsReader, Frame
  <2>2. /\ q \in Seq(DOMAIN u) /\ Len(q) = z /\ z \in DOMAIN q /\ q[z] = n
        /\ \A k \in DOMAIN q : k # z => k < z /\ k \in DOMAIN origin /\ q[k] = origin[k]
        /\ \A k \in DOMAIN origin : k \in DOMAIN q
        /\ z \in DOMAIN origin => n = Len(turn) /\ origin[z] = n
        /\ wire = "v1" => q = [m \in DOMAIN u |-> m]
    BY <2>1, TracedOrigin DEF n
  <2>3. /\ DOMAIN reader.entries = {k \in DOMAIN origin : turn[origin[k]].kind \in Recorded}
        /\ \A k \in DOMAIN reader.entries :
             /\ reader.entries[k].kind = turn[origin[k]].kind
             /\ \E j \in 0 .. turn[origin[k]].length :
                  reader.entries[k].content = Whole(origin[k], j)
             /\ LastIn(origin, k) =>
                  reader.entries[k].content = Whole(origin[k], turn[origin[k]].length)
    BY <2>1 DEF HoldsEntries, EntriesTell
  <2>4. /\ origin \in Seq(DOMAIN turn)
        /\ \A k \in DOMAIN origin : origin[k] \in DOMAIN turn
    BY <2>1 DEF HoldsEntries
  <2>5. \A i \in DOMAIN turn :
          /\ u[i].kind = turn[i].kind
          /\ turn[i].length \in Nat /\ u[i].length \in Nat
          /\ turn[i].length <= u[i].length
          /\ i # n => u[i] = turn[i]
    <3> SUFFICES ASSUME NEW i \in DOMAIN turn
                 PROVE  /\ u[i].kind = turn[i].kind
                        /\ turn[i].length \in Nat /\ u[i].length \in Nat
                        /\ turn[i].length <= u[i].length
                        /\ i # n => u[i] = turn[i]
      OBVIOUS
    <3>0. turn[i] \in Message
      OBVIOUS
    <3>1. turn[i].length \in Nat
      BY <3>0 DEF Message
    <3>2. u[i] = turn[i] \/ (i = Len(turn) /\ i = Len(u) /\ turn[i].kind = u[i].kind
                              /\ turn[i].length <= u[i].length)
      BY DEF GoesOn
    <3>3. i # n => u[i] = turn[i]
      BY <3>2 DEF n
    <3>4. u[i].length \in Nat
      BY <1>1, <3>1, <3>2 DEF n
    <3> QED
      BY <3>1, <3>2, <3>3, <3>4
  <2> HIDE DEF z
  <2>6. \A k \in DOMAIN q : k # z =>
          /\ u[q[k]].kind = turn[origin[k]].kind
          /\ \A j \in 0 .. turn[origin[k]].length : j \in 0 .. u[q[k]].length
          /\ LastIn(q, k) => LastIn(origin, k) /\ u[q[k]].length = turn[origin[k]].length
    <3> SUFFICES ASSUME NEW k \in DOMAIN q, k # z
                 PROVE  /\ u[q[k]].kind = turn[origin[k]].kind
                        /\ \A j \in 0 .. turn[origin[k]].length : j \in 0 .. u[q[k]].length
                        /\ LastIn(q, k) =>
                             LastIn(origin, k) /\ u[q[k]].length = turn[origin[k]].length
      OBVIOUS
    <3>1. k < z /\ k \in DOMAIN origin /\ q[k] = origin[k] /\ origin[k] \in DOMAIN turn
      BY <2>2, <2>4
    <3>2. /\ u[q[k]].kind = turn[origin[k]].kind
          /\ turn[origin[k]].length \in Nat /\ u[q[k]].length \in Nat
          /\ turn[origin[k]].length <= u[q[k]].length
      <4> DEFINE msg == origin[k]
      <4>1. msg \in DOMAIN turn /\ q[k] = msg
        BY <3>1
      <4> HIDE DEF msg
      <4>2. /\ u[msg].kind = turn[msg].kind
            /\ turn[msg].length \in Nat /\ u[msg].length \in Nat
            /\ turn[msg].length <= u[msg].length
        BY <2>5, <4>1
      <4> QED
        BY <4>1, <4>2 DEF msg
    <3>3. ASSUME LastIn(q, k)
          PROVE  LastIn(origin, k) /\ u[q[k]].length = turn[origin[k]].length
      <4>1. q[k] # n
        <5>1. z \in Nat /\ k \in Nat
          BY <2>2
        <5> QED
          BY <2>2, <3>1, <3>3, <5>1 DEF LastIn
      <4>2. u[q[k]] = turn[origin[k]]
        <5> DEFINE msg == origin[k]
        <5>1. msg \in DOMAIN turn /\ q[k] = msg /\ msg # n
          BY <3>1, <4>1
        <5> HIDE DEF msg
        <5>2. u[msg] = turn[msg]
          BY <2>5, <5>1
        <5> QED
          BY <5>1, <5>2 DEF msg
      <4>3. ASSUME NEW i \in DOMAIN origin, origin[i] = origin[k] PROVE i <= k
        <5>1. i # z
          BY <2>2, <3>1, <4>1, <4>3
        <5>2. i \in DOMAIN q /\ q[i] = q[k]
          BY <2>2, <3>1, <4>3, <5>1
        <5> QED
          BY <3>3, <5>2 DEF LastIn
      <4> QED
        BY <4>2, <4>3 DEF LastIn
    <3> QED
      BY <3>2, <3>3
  <2>7. EntriesTell(s.entries, u, q)
    <3>1. CASE kind \in Recorded
      <4>1. s.entries = Record(r, z) /\ r.kind = kind /\ r.content = Whole(n, u[n].length)
        BY <1>2, <1>3, <3>1 DEF z
      <4>2. /\ DOMAIN s.entries = DOMAIN reader.entries \cup {z}
            /\ s.entries[z].kind = kind /\ s.entries[z].content = Whole(n, u[n].length)
            /\ \A k \in DOMAIN reader.entries : k # z => s.entries[k] = reader.entries[k]
        BY <2>1, <4>1 DEF Record
      <4>3. DOMAIN s.entries = {k \in DOMAIN q : u[q[k]].kind \in Recorded}
        BY <2>2, <2>3, <2>6, <3>1, <4>2 DEF kind
      <4>4. ASSUME NEW k \in DOMAIN s.entries
            PROVE  /\ s.entries[k].kind = u[q[k]].kind
                   /\ \E j \in 0 .. u[q[k]].length : s.entries[k].content = Whole(q[k], j)
                   /\ LastIn(q, k) => s.entries[k].content = Whole(q[k], u[q[k]].length)
        <5>1. CASE k = z
          <6>1. u[n].length \in 0 .. u[n].length
            BY <1>1 DEF n
          <6> QED
            BY <2>2, <4>2, <5>1, <6>1 DEF kind
        <5>2. CASE k # z
          BY <2>2, <2>3, <2>6, <4>2, <4>3, <5>2
        <5> QED
          BY <5>1, <5>2
      <4> QED
        BY <4>3, <4>4 DEF EntriesTell
    <3>2. CASE kind \notin Recorded
      <4>1. s.entries = reader.entries
        BY <1>2, <1>3, <2>1, <3>2
      <4>2. ASSUME z \in DOMAIN origin PROVE turn[origin[z]].kind = kind
        <5>1. origin[z] = n /\ n \in DOMAIN turn
          BY <2>2, <2>4, <4>2
        <5>2. u[n].kind = turn[n].kind
          BY <2>5, <5>1
        <5> QED
          BY <5>1, <5>2 DEF kind
      <4>3. z \notin DOMAIN s.entries
        BY <2>3, <3>2, <4>1, <4>2
      <4>4. DOMAIN s.entries = {k \in DOMAIN q : u[q[k]].kind \in Recorded}
        BY <2>2, <2>3, <2>6, <3>2, <4>1, <4>3 DEF kind
      <4> QED
        BY <2>2, <2>3, <2>6, <4>1, <4>3, <4>4 DEF EntriesTell
    <3> QED
      BY <3>1, <3>2
  <2> QED
    BY <1>2, <2>2, <2>7 DEF HoldsEntries, n, z
<1>7. HoldsText(s, u)
  <2>1. CASE kind = "text"
    <3>1. LatestOf(u, {"text"}, n) /\ s.last = r.content
      BY <1>2, <1>3, <1>4, <2>1
    <3>2. \A m \in DOMAIN u : LatestOf(u, {"text"}, m) => m = n
      <4>1. DOMAIN u \subseteq Nat
        BY <1>1
      <4> QED
        BY <1>1, <3>1, <4>1 DEF LatestOf, Of
    <3>3. (wire = "v1" \/ u[n].status # "in_progress") => s.last = Whole(n, u[n].length)
      BY <1>3, <3>1
    <3> QED
      BY <1>1, <3>1, <3>2, <3>3 DEF HoldsText
  <2>2. CASE kind # "text"
    <3>1. /\ Of(u, {"text"}) = Of(turn, {"text"}) /\ n \notin Of(u, {"text"})
          /\ \A m : LatestOf(u, {"text"}, m) <=> LatestOf(turn, {"text"}, m)
      <4>1. kind \notin {"text"}
        BY <2>2
      <4> QED
        BY <1>4, <4>1
    <3>2. s.last = reader.last
      BY <1>2, <1>3, <2>2 DEF Frame
    <3>3. \A m : LatestOf(u, {"text"}, m) => m \in DOMAIN u /\ m \in DOMAIN turn /\ u[m] = turn[m]
      BY <1>4, <3>1 DEF LatestOf, Of
    <3> QED
      BY <3>1, <3>2, <3>3 DEF ToolHolds, HoldsText, LatestOf
  <2> QED
    BY <2>1, <2>2
<1>8. HoldsEnd(s, u)
  <2> SUFFICES ASSUME s.completed
               PROVE  \E m \in DOMAIN u :
                        /\ LatestOf(u, Counted, m)
                        /\ u[m].kind \in {"text", "response"}
                        /\ u[m].status = "finished_successfully"
    BY DEF HoldsEnd
  <2>1. CASE kind \in {"text", "response"}
    <3>1. Finished(r)
      BY <1>2, <1>3, <2>1
    <3>2. LatestOf(u, Counted, n)
      BY <1>4, <2>1 DEF Counted, Kind
    <3> QED
      BY <1>1, <1>3, <2>1, <3>1, <3>2 DEF Finished, kind
  <2>2. kind \notin {"thought", "call"}
    BY <1>2, <1>3
  <2>3. CASE kind = "note"
    <3>1. /\ n \notin Of(u, Counted)
          /\ \A m : LatestOf(u, Counted, m) <=> LatestOf(turn, Counted, m)
      BY <1>4, <2>3 DEF Counted
    <3>2. reader.completed
      BY <1>2, <1>3, <2>3 DEF Frame
    <3>3. PICK m \in DOMAIN turn :
            /\ LatestOf(turn, Counted, m)
            /\ turn[m].kind \in {"text", "response"} /\ turn[m].status = "finished_successfully"
      BY <3>2 DEF ToolHolds, HoldsEnd
    <3>4. m \in DOMAIN u /\ u[m] = turn[m]
      BY <1>4, <3>1, <3>3 DEF LatestOf, Of
    <3> QED
      BY <3>1, <3>3, <3>4
  <2> QED
    BY <1>1, <2>1, <2>2, <2>3 DEF Kind
<1> QED
  BY <1>5, <1>6, <1>7, <1>8 DEF ToolHolds

\* What a frame makes of the locals before they are looked at.
Reset(r, kind, content, status, path, seq) ==
    /\ DOMAIN r = Fields
    /\ r.last = reader.last /\ r.streamed = reader.streamed
    /\ r.entries = reader.entries /\ r.completed = reader.completed
    /\ r.kind = kind /\ r.content = content /\ r.status = status
    /\ r.path = path /\ r.seq = seq

\* An envelope begins a message, or sends it again.
LEMMA EnvelopeResets ==
    ASSUME DOMAIN reader = Fields, NEW m, NEW kind, NEW content, NEW status,
           Envelope(m, kind, content, status)
    PROVE  /\ origin' = Append(origin, m)
           /\ \E r : Reset(r, kind, content, status, "none", reader.seq + 1) /\ reader' = Seen(r)
<1> DEFINE r == [reader EXCEPT !.kind = kind, !.content = content,
                               !.status = status, !.path = "none", !.seq = @ + 1]
<1>1. Reset(r, kind, content, status, "none", reader.seq + 1)
  BY DEF Reset, Fields
<1>2. reader' = Seen(r) /\ origin' = Append(origin, m)
  BY DEF Envelope
<1> HIDE DEF r
<1> QED
  BY <1>1, <1>2

\* A patch goes on with the message at hand.
LEMMA PatchResets ==
    ASSUME DOMAIN reader = Fields, NEW piece, NEW content, NEW status
    PROVE  /\ AppendOp(piece) => \E r : reader' = Seen(r) /\ origin' = origin /\
                Reset(r, reader.kind, Append(reader.content, piece), reader.status, "text", reader.seq)
           /\ ReplaceOp(content) => \E r : reader' = Seen(r) /\ origin' = origin /\
                Reset(r, reader.kind, content, reader.status, "text", reader.seq)
           /\ StatusOp(status) => \E r : reader' = Seen(r) /\ origin' = origin /\
                Reset(r, reader.kind, reader.content, status, "other", reader.seq)
           /\ OtherOp => \E r : reader' = Seen(r) /\ origin' = origin /\
                Reset(r, reader.kind, reader.content, reader.status, "other", reader.seq)
<1>1. ASSUME AppendOp(piece)
      PROVE  \E r : reader' = Seen(r) /\ origin' = origin /\
                Reset(r, reader.kind, Append(reader.content, piece), reader.status, "text", reader.seq)
  <2> DEFINE r == [reader EXCEPT !.content = Append(@, piece), !.path = "text"]
  <2>1. Reset(r, reader.kind, Append(reader.content, piece), reader.status, "text", reader.seq)
    BY DEF Reset, Fields
  <2>2. reader' = Seen(r) /\ origin' = origin
    BY <1>1 DEF AppendOp, Patch
  <2> HIDE DEF r
  <2> QED
    BY <2>1, <2>2
<1>2. ASSUME ReplaceOp(content)
      PROVE  \E r : reader' = Seen(r) /\ origin' = origin /\
                Reset(r, reader.kind, content, reader.status, "text", reader.seq)
  <2> DEFINE r == [reader EXCEPT !.content = content, !.path = "text"]
  <2>1. Reset(r, reader.kind, content, reader.status, "text", reader.seq)
    BY DEF Reset, Fields
  <2>2. reader' = Seen(r) /\ origin' = origin
    BY <1>2 DEF ReplaceOp, Patch
  <2> HIDE DEF r
  <2> QED
    BY <2>1, <2>2
<1>3. ASSUME StatusOp(status)
      PROVE  \E r : reader' = Seen(r) /\ origin' = origin /\
                Reset(r, reader.kind, reader.content, status, "other", reader.seq)
  <2> DEFINE r == [reader EXCEPT !.status = status, !.path = "other"]
  <2>1. Reset(r, reader.kind, reader.content, status, "other", reader.seq)
    BY DEF Reset, Fields
  <2>2. reader' = Seen(r) /\ origin' = origin
    BY <1>3 DEF StatusOp, Patch
  <2> HIDE DEF r
  <2> QED
    BY <2>1, <2>2
<1>4. ASSUME OtherOp
      PROVE  \E r : reader' = Seen(r) /\ origin' = origin /\
                Reset(r, reader.kind, reader.content, reader.status, "other", reader.seq)
  <2> DEFINE r == [reader EXCEPT !.path = "other"]
  <2>1. Reset(r, reader.kind, reader.content, reader.status, "other", reader.seq)
    BY DEF Reset, Fields
  <2>2. reader' = Seen(r) /\ origin' = origin
    BY <1>4 DEF OtherOp, Patch
  <2> HIDE DEF r
  <2> QED
    BY <2>1, <2>2
<1> QED
  BY <1>1, <1>2, <1>3, <1>4

\* The invariant: while the stream is read, the locals hold the turn.
ToolInv ==
    /\ CallTypeOK /\ DOMAIN reader = Fields
    /\ call \in {"setup", "streaming"} => ToolHolds(reader, turn, origin)

\* A step that writes a message and tells of it in a frame keeps the invariant.
LEMMA ToldKeeps ==
    ASSUME ToolInv, Live, Reads, GoesOn(turn, turn'), Len(turn') <= MaxMessages,
           NEW r, Frame(r, turn', origin'), reader' = Seen(r)
    PROVE  ToolInv'
<1>1. /\ wire \in {"classic", "v1"} /\ IsReader(reader) /\ turn \in Seq(Message)
      /\ ToolHolds(reader, turn, origin)
  BY DEF ToolInv, CallTypeOK, Live
<1>2. turn' \in Seq(Message) /\ turn' # <<>>
  BY DEF GoesOn
<1>3. IsReader(reader') /\ DOMAIN reader' = Fields
  BY <1>1, <1>2, FrameTypes
<1>4. wire' = wire /\ call' = call /\ returned' = returned
  BY DEF Reads
<1>5. ToolHolds(reader', turn', origin')
  BY <1>1, FrameKeeps
<1>6. ToolHolds(reader, turn, origin)'
  BY <1>4, <1>5 DEF ToolHolds, Carries, HoldsEntries, EntriesTell, LastIn, HoldsText,
                    HoldsEnd, Of, LatestOf
<1>7. origin' \in Seq(DOMAIN turn') /\ Len(origin') = reader'.seq
  BY <1>5 DEF ToolHolds, HoldsEntries
<1>8. CallTypeOK'
  BY <1>2, <1>3, <1>4, <1>7 DEF ToolInv, CallTypeOK, IsReader
<1> QED
  BY <1>3, <1>6, <1>8 DEF ToolInv

\* A reset is a frame when it carries the newest message.
LEMMA ResetIsFrame ==
    ASSUME NEW u, NEW r, NEW kind, NEW content \in Content, NEW status,
           NEW path \in {"none", "text", "other"}, NEW seq \in Nat, NEW q,
           Reset(r, kind, content, status, path, seq), Carries(r, u), Traced(r, u, q)
    PROVE  Frame(r, u, q)
  BY DEF Reset, Frame

\* What the newest message is.
LEMMA NewestTold ==
    ASSUME ToolInv, Live, turn # <<>>
    PROVE  /\ Newest \in DOMAIN turn /\ Newest \in Nat /\ Last(turn) = turn[Newest]
           /\ turn[Newest] \in Message /\ turn \in Seq(Message) /\ Len(turn) = Newest
           /\ wire = "v1" => /\ reader.seq = Newest /\ reader.kind = turn[Newest].kind
                             /\ reader.status = turn[Newest].status
                             /\ reader.content = Whole(Newest, turn[Newest].length)
           /\ reader.seq \in Nat /\ reader.content \in Content
           /\ wire \in {"classic", "v1"}
<1>1. turn \in Seq(Message) /\ IsReader(reader) /\ wire \in {"classic", "v1"}
  BY DEF ToolInv, CallTypeOK
<1>2. Newest \in DOMAIN turn /\ Newest \in Nat /\ Len(turn) = Newest /\ turn[Newest] \in Message
  BY <1>1 DEF Newest
<1>3. Carries(reader, turn)
  BY DEF ToolInv, ToolHolds, Live
<1> QED
  BY <1>1, <1>2, <1>3 DEF Carries, IsReader, Last, Newest

LEMMA NewMessageTold ==
    ASSUME ToolInv, NEW kind \in Kind, NewMessage(kind) PROVE ToolInv'
<1> DEFINE m == Newest + 1
<1>1. PICK n \in 0 .. (IF kind \in Recorded \cup {"text"} THEN 1 ELSE 0) :
        /\ n <= MaxLength
        /\ turn' = Append(turn, [kind |-> kind, length |-> n, status |-> "in_progress"])
        /\ Envelope(Newest + 1, kind, Whole(Newest + 1, n), "in_progress")
  BY DEF NewMessage
<1> DEFINE msg == [kind |-> kind, length |-> n, status |-> "in_progress"]
<1>2. n \in Nat /\ msg \in Message /\ msg.kind = kind /\ msg.length = n /\ msg.status = "in_progress"
  BY <1>1 DEF Message, Status
<1>3. Live /\ Reads /\ Newest < MaxMessages
  BY DEF NewMessage
<1>4. turn \in Seq(Message) /\ IsReader(reader) /\ DOMAIN reader = Fields /\ Newest = Len(turn)
      /\ Newest \in Nat /\ MaxMessages \in Nat
  BY CallAssumption DEF ToolInv, CallTypeOK, Newest
<1>5. turn' = Append(turn, msg)
  BY <1>1
<1> HIDE DEF msg
<1>6. turn' \in Seq(Message) /\ Len(turn') = m /\ turn'[m] = msg /\ turn' # <<>>
      /\ \A i \in DOMAIN turn : turn'[i] = turn[i]
  BY <1>2, <1>4, <1>5
<1>7. GoesOn(turn, turn') /\ Len(turn') <= MaxMessages /\ m \in Nat
  BY <1>3, <1>4, <1>6 DEF GoesOn
<1>8. Whole(m, n) \in Content /\ reader.seq \in Nat /\ reader.seq + 1 \in Nat
  BY <1>2, <1>4, <1>7, WholeIs DEF IsReader
<1>9. PICK r : Reset(r, kind, Whole(m, n), "in_progress", "none", reader.seq + 1)
               /\ reader' = Seen(r) /\ origin' = Append(origin, m)
  BY <1>1, <1>4, EnvelopeResets
<1>10. wire = "v1" => reader.seq = Newest
  BY <1>3, <1>4 DEF ToolInv, ToolHolds, Carries, Live
<1>11. Carries(r, turn')
  BY <1>2, <1>6, <1>9, <1>10 DEF Carries, Reset
<1>12. Frame(r, turn', origin')
  <2>1. Traced(r, turn', origin')
    BY <1>4, <1>6, <1>9 DEF Traced, Reset
  <2> QED
    BY <1>8, <1>9, <1>11, <2>1, ResetIsFrame
<1> QED
  BY <1>3, <1>7, <1>9, <1>12, ToldKeeps

LEMMA GrowTold == ASSUME ToolInv, Grow PROVE ToolInv'
<1> DEFINE m == Newest
           n == turn[m].length + 1
           kind == turn[m].kind
           msg == [turn[m] EXCEPT !.length = n]
<1>1. Live /\ Reads /\ turn # <<>> /\ Last(turn).status = "in_progress"
  BY DEF Grow, Open
<1>2. /\ m \in DOMAIN turn /\ m \in Nat /\ Last(turn) = turn[m]
      /\ turn[m] \in Message /\ turn \in Seq(Message) /\ Len(turn) = m
      /\ wire = "v1" => /\ reader.seq = m /\ reader.kind = turn[m].kind
                        /\ reader.status = turn[m].status
                        /\ reader.content = Whole(m, turn[m].length)
      /\ reader.seq \in Nat /\ reader.content \in Content
      /\ wire \in {"classic", "v1"}
  BY <1>1, NewestTold
<1>3. /\ kind \in Recorded \cup {"text"}
      /\ turn' = [turn EXCEPT ![m].length = n]
      /\ \/ wire = "classic" /\ Envelope(m, kind, Whole(m, n), "in_progress")
         \/ wire = "classic" /\ kind = "text" /\ BareDelta(Piece(m, n))
         \/ wire = "v1" /\ AppendOp(Piece(m, n))
         \/ wire = "v1" /\ ReplaceOp(Whole(m, n))
         \/ wire = "v1" /\ reader.path = "text" /\ BareDelta(Piece(m, n))
  BY <1>2 DEF Grow
<1>4. /\ msg \in Message /\ msg.kind = kind /\ msg.length = n /\ msg.status = "in_progress"
      /\ turn[m].status = "in_progress" /\ n \in Nat
      /\ turn[m].length \in Nat
  BY <1>1, <1>2 DEF Message
<1>5. turn' = [turn EXCEPT ![m] = msg]
  BY <1>2, <1>3
<1> HIDE DEF msg
<1>6. /\ turn' \in Seq(Message) /\ Len(turn') = m /\ turn'[m] = msg /\ turn' # <<>>
      /\ \A i \in DOMAIN turn : i # m => turn'[i] = turn[i]
      /\ DOMAIN turn' = DOMAIN turn
  BY <1>2, <1>4, <1>5
<1>7. GoesOn(turn, turn') /\ Len(turn') <= MaxMessages
  BY <1>2, <1>4, <1>6 DEF GoesOn, ToolInv, CallTypeOK
<1>8. Whole(m, n) \in Content /\ reader.seq + 1 \in Nat
      /\ Append(Whole(m, turn[m].length), Piece(m, n)) = Whole(m, n)
  <2> DEFINE k == turn[m].length
  <2>1. m \in Nat /\ k \in Nat /\ n \in Nat
    BY <1>2, <1>4
  <2>2. Append(Whole(m, k), Piece(m, k + 1)) = Whole(m, k + 1)
    BY <2>1, PieceJoins
  <2>3. Whole(m, n) \in Content
    BY <2>1, WholeIs
  <2> QED
    BY <1>2, <2>2, <2>3
<1>9. DOMAIN reader = Fields /\ IsReader(reader)
  BY DEF ToolInv, CallTypeOK
<1> HIDE DEF m, n, kind
<1>10. CASE wire = "classic" /\ Envelope(m, kind, Whole(m, n), "in_progress")
  <2>1. PICK r : Reset(r, kind, Whole(m, n), "in_progress", "none", reader.seq + 1)
                 /\ reader' = Seen(r) /\ origin' = Append(origin, m)
    BY <1>9, <1>10, EnvelopeResets
  <2>2. Carries(r, turn')
    BY <1>4, <1>6, <1>10, <2>1 DEF Carries, Reset
  <2>3. Traced(r, turn', origin')
    BY <1>6, <1>10, <2>1 DEF Traced, Reset
  <2>4. Frame(r, turn', origin')
    BY <1>8, <2>1, <2>2, <2>3, ResetIsFrame
  <2> QED
    BY <1>1, <1>7, <2>1, <2>4, ToldKeeps
<1>11. ASSUME wire = "v1", NEW r, reader' = Seen(r), origin' = origin,
              Reset(r, reader.kind, Whole(m, n), reader.status, "text", reader.seq)
       PROVE  ToolInv'
  <2>1. Carries(r, turn')
    BY <1>2, <1>4, <1>6, <1>11 DEF Carries, Reset, kind
  <2>2. Traced(r, turn', origin')
    BY <1>2, <1>6, <1>11 DEF Traced, Reset
  <2>3. Frame(r, turn', origin')
    BY <1>2, <1>8, <1>11, <2>1, <2>2, ResetIsFrame
  <2> QED
    BY <1>1, <1>7, <1>11, <2>3, ToldKeeps
<1>12. CASE wire = "v1" /\ AppendOp(Piece(m, n))
  <2>1. Append(reader.content, Piece(m, n)) = Whole(m, n)
    BY <1>2, <1>8, <1>12
  <2>2. PICK r : /\ reader' = Seen(r) /\ origin' = origin
                 /\ Reset(r, reader.kind, Append(reader.content, Piece(m, n)),
                          reader.status, "text", reader.seq)
    BY <1>9, <1>12, PatchResets
  <2> QED
    BY <1>11, <1>12, <2>1, <2>2
<1>13. CASE wire = "v1" /\ ReplaceOp(Whole(m, n))
  <2>1. PICK r : /\ reader' = Seen(r) /\ origin' = origin
                 /\ Reset(r, reader.kind, Whole(m, n), reader.status, "text", reader.seq)
    BY <1>9, <1>13, PatchResets
  <2> QED
    BY <1>11, <1>13, <2>1
<1>14. CASE wire = "v1" /\ reader.path = "text" /\ BareDelta(Piece(m, n))
  BY <1>12, <1>14 DEF BareDelta
<1>15. CASE wire = "classic" /\ kind = "text" /\ BareDelta(Piece(m, n))
  <2>1. reader.path = "none" /\ ToolHolds(reader, turn, origin)
    BY <1>1, <1>15 DEF ToolInv, ToolHolds, Carries, Live
  <2>2. reader' = reader /\ origin' = origin
    BY <1>15, <2>1 DEF BareDelta
  <2>3. wire' = wire /\ call' = call /\ returned' = returned
    BY <1>1 DEF Reads
  <2>4. turn'[m].kind = turn[m].kind /\ turn'[m].status = turn[m].status
        /\ kind = turn[m].kind
    BY <1>4, <1>6 DEF kind
  <2>5. \A i \in DOMAIN turn : turn'[i].kind = turn[i].kind /\ turn'[i].status = turn[i].status
    BY <1>6, <2>4
  <2>6. Carries(reader', turn')
    BY <1>2, <1>4, <1>6, <1>15, <2>1, <2>2, <2>4 DEF ToolHolds, Carries, Recorded
  <2>7. \A kinds : /\ Of(turn', kinds) = Of(turn, kinds)
                   /\ \A i : LatestOf(turn', kinds, i) <=> LatestOf(turn, kinds, i)
    <3>1. \A kinds : Of(turn', kinds) = Of(turn, kinds)
      BY <1>6, <2>5 DEF Of
    <3> QED
      BY <3>1 DEF LatestOf
  <2>8. HoldsEntries(reader', turn', origin')
    <3>1. /\ origin \in Seq(DOMAIN turn) /\ Len(origin) = reader.seq
          /\ turn # <<>> => origin # <<>> /\ origin[Len(origin)] = Len(turn)
          /\ EntriesTell(reader.entries, turn, origin)
      BY <2>1 DEF ToolHolds, HoldsEntries
    <3>2. \A k \in DOMAIN origin :
            /\ turn'[origin[k]].kind = turn[origin[k]].kind
            /\ turn[origin[k]].kind \in Recorded => turn'[origin[k]] = turn[origin[k]]
      <4>1. \A k \in DOMAIN origin : origin[k] \in DOMAIN turn
        BY <3>1
      <4>2. kind \notin Recorded
        BY <1>15 DEF Recorded
      <4> QED
        BY <1>6, <2>4, <2>5, <4>1, <4>2
    <3>3. EntriesTell(reader.entries, turn', origin)
      <4>1. DOMAIN reader.entries = {k \in DOMAIN origin : turn'[origin[k]].kind \in Recorded}
        BY <3>1, <3>2 DEF EntriesTell
      <4>2. \A k \in DOMAIN reader.entries : turn'[origin[k]] = turn[origin[k]]
        BY <3>1, <3>2 DEF EntriesTell
      <4> QED
        BY <3>1, <4>1, <4>2 DEF EntriesTell
    <3> QED
      BY <1>1, <1>2, <1>6, <1>15, <2>2, <3>1, <3>3 DEF HoldsEntries
  <2>9. HoldsText(reader', turn')
    <3>1. \A i \in DOMAIN turn' : LatestOf(turn', {"text"}, i) /\ turn'[i].status # "in_progress" =>
            LatestOf(turn, {"text"}, i) /\ turn[i].status # "in_progress" /\ turn'[i] = turn[i]
      BY <1>4, <1>6, <2>5, <2>7
    <3>2. Of(turn', {"text"}) # {} => \E i \in DOMAIN turn' : LatestOf(turn', {"text"}, i)
      BY <1>6, <2>1, <2>7 DEF ToolHolds, HoldsText
    <3> QED
      BY <1>6, <1>15, <2>1, <2>2, <3>1, <3>2 DEF ToolHolds, HoldsText
  <2>10. HoldsEnd(reader', turn')
    BY <1>6, <2>1, <2>2, <2>5, <2>7 DEF ToolHolds, HoldsEnd
  <2>11. ToolHolds(reader', turn', origin')
    BY <2>6, <2>8, <2>9, <2>10 DEF ToolHolds
  <2>12. ToolHolds(reader, turn, origin)'
    BY <2>3, <2>11 DEF ToolHolds, Carries, HoldsEntries, EntriesTell, LastIn, HoldsText,
                       HoldsEnd, Of, LatestOf
  <2>13. CallTypeOK'
    <3>1. origin' \in Seq(DOMAIN turn') /\ Len(origin') = reader'.seq
      BY <2>8 DEF HoldsEntries
    <3> QED
      BY <1>6, <1>7, <2>2, <2>3, <3>1 DEF ToolInv, CallTypeOK, IsReader
  <2> QED
    BY <1>9, <2>2, <2>12, <2>13 DEF ToolInv
<1> QED
  BY <1>3, <1>10, <1>12, <1>13, <1>14, <1>15

LEMMA FinishTold ==
    ASSUME ToolInv, NEW status \in {"finished_successfully", "cut"}, Finish(status) PROVE ToolInv'
<1> DEFINE m == Newest
           n == turn[m].length
           kind == turn[m].kind
           msg == [turn[m] EXCEPT !.status = status]
<1>1. Live /\ Reads /\ turn # <<>>
  BY DEF Finish, Open
<1>2. /\ m \in DOMAIN turn /\ m \in Nat /\ Last(turn) = turn[m]
      /\ turn[m] \in Message /\ turn \in Seq(Message) /\ Len(turn) = m
      /\ wire = "v1" => /\ reader.seq = m /\ reader.kind = turn[m].kind
                        /\ reader.status = turn[m].status
                        /\ reader.content = Whole(m, turn[m].length)
      /\ reader.seq \in Nat /\ reader.content \in Content
      /\ wire \in {"classic", "v1"}
  BY <1>1, NewestTold
<1>3. /\ turn' = [turn EXCEPT ![m].status = status]
      /\ \/ wire = "classic" /\ Envelope(m, kind, Whole(m, n), status)
         \/ wire = "v1" /\ StatusOp(status)
  BY <1>2 DEF Finish
<1>4. msg \in Message /\ msg.kind = kind /\ msg.length = n /\ msg.status = status /\ n \in Nat
  BY <1>2 DEF Message, Status
<1>5. turn' = [turn EXCEPT ![m] = msg]
  BY <1>2, <1>3
<1> HIDE DEF msg
<1>6. /\ turn' \in Seq(Message) /\ Len(turn') = m /\ turn'[m] = msg /\ turn' # <<>>
      /\ \A i \in DOMAIN turn : i # m => turn'[i] = turn[i]
  BY <1>2, <1>4, <1>5
<1>7. GoesOn(turn, turn') /\ Len(turn') <= MaxMessages
  BY <1>2, <1>4, <1>6 DEF GoesOn, ToolInv, CallTypeOK
<1>8. Whole(m, n) \in Content /\ reader.seq + 1 \in Nat
  BY <1>2, <1>4, WholeIs
<1>9. DOMAIN reader = Fields
  BY DEF ToolInv
<1>10. CASE wire = "classic" /\ Envelope(m, kind, Whole(m, n), status)
  <2> HIDE DEF m, n, kind
  <2>1. PICK r : Reset(r, kind, Whole(m, n), status, "none", reader.seq + 1)
                 /\ reader' = Seen(r) /\ origin' = Append(origin, m)
    BY <1>9, <1>10, EnvelopeResets
  <2>2. Carries(r, turn')
    BY <1>4, <1>6, <1>10, <2>1 DEF Carries, Reset
  <2>3. Traced(r, turn', origin')
    BY <1>6, <1>10, <2>1 DEF Traced, Reset
  <2>4. Frame(r, turn', origin')
    BY <1>8, <2>1, <2>2, <2>3, ResetIsFrame
  <2> QED
    BY <1>1, <1>7, <2>1, <2>4, ToldKeeps
<1>11. CASE wire = "v1" /\ StatusOp(status)
  <2>0. reader.seq = m /\ reader.kind = kind /\ reader.content = Whole(m, n)
    BY <1>2, <1>11
  <2>4. Len(turn) = m
    BY <1>2
  <2> HIDE DEF m, n, kind
  <2>1. PICK r : /\ reader' = Seen(r) /\ origin' = origin
                 /\ Reset(r, reader.kind, reader.content, status, "other", reader.seq)
    BY <1>9, <1>11, PatchResets
  <2>2. Carries(r, turn')
    BY <1>4, <1>6, <1>11, <2>0, <2>1 DEF Carries, Reset
  <2>3. Traced(r, turn', origin')
    BY <1>6, <2>1, <2>4 DEF Traced, Reset
  <2>5. Frame(r, turn', origin')
    BY <1>2, <1>11, <2>1, <2>2, <2>3, ResetIsFrame
  <2> QED
    BY <1>1, <1>7, <2>1, <2>5, ToldKeeps
<1> QED
  BY <1>3, <1>10, <1>11

LEMMA MetadataTold == ASSUME ToolInv, Metadata PROVE ToolInv'
<1>1. Live /\ Reads /\ turn # <<>> /\ wire = "v1" /\ turn' = turn /\ OtherOp
  BY DEF Metadata
<1>2. /\ turn \in Seq(Message) /\ reader.seq \in Nat /\ reader.content \in Content
      /\ Carries(reader, turn) /\ DOMAIN reader = Fields /\ Len(turn) <= MaxMessages
  BY <1>1, NewestTold DEF ToolInv, ToolHolds, Live, CallTypeOK
<1>3. GoesOn(turn, turn')
  <2>1. turn[Len(turn)] \in Message
    BY <1>1, <1>2
  <2>2. turn[Len(turn)].length <= turn[Len(turn)].length
    BY <2>1 DEF Message
  <2> QED
    BY <1>1, <1>2, <2>2 DEF GoesOn
<1>4. PICK r : /\ reader' = Seen(r) /\ origin' = origin
               /\ Reset(r, reader.kind, reader.content, reader.status, "other", reader.seq)
  BY <1>1, <1>2, PatchResets
<1>5. Carries(r, turn')
  BY <1>1, <1>2, <1>4 DEF Carries, Reset
<1>6. Frame(r, turn', origin')
  <2>1. Traced(r, turn', origin')
    BY <1>1, <1>4 DEF Traced, Reset
  <2> QED
    BY <1>1, <1>2, <1>4, <1>5, <2>1, ResetIsFrame
<1> QED
  BY <1>1, <1>2, <1>3, <1>4, <1>6, ToldKeeps

\* The invariant holds at first.
LEMMA ToolBegins == CallInit => ToolInv
<1> SUFFICES ASSUME CallInit PROVE ToolInv
  OBVIOUS
<1>1. /\ wire \in {"classic", "v1"} /\ call = "setup" /\ turn = <<>> /\ origin = <<>>
      /\ turn \in Seq(Message) /\ Len(turn) = 0 /\ DOMAIN turn = {}
  BY DEF CallInit
<1>2. /\ DOMAIN reader = Fields /\ reader.kind = "none" /\ reader.content = <<>>
      /\ reader.status = "in_progress" /\ reader.path = "none" /\ reader.seq = 0
      /\ reader.last = <<>> /\ reader.streamed = <<>> /\ reader.entries = NoEntries
      /\ reader.completed = FALSE
  BY DEF CallInit, Fields
<1>3. returned.content = <<>> /\ returned.done = FALSE
  BY DEF CallInit
<1>4. <<>> \in Content /\ DOMAIN NoEntries = {}
  BY DEF Content, NoEntries
<1>5. IsReader(reader)
  <2>1. /\ reader.kind \in Kind \cup {"none"} /\ reader.content \in Content
        /\ reader.status \in Status /\ reader.path \in {"none", "text", "other"}
        /\ reader.seq \in Nat /\ reader.last \in Content /\ reader.streamed \in Content
        /\ reader.completed \in BOOLEAN
    <3>1. reader.content \in Content /\ reader.last \in Content /\ reader.streamed \in Content
      BY <1>2, <1>4
    <3>2. reader.completed \in BOOLEAN
      BY <1>2
    <3>3. reader.seq \in Nat
      BY <1>2
    <3>4. reader.kind \in Kind \cup {"none"} /\ reader.status \in Status
          /\ reader.path \in {"none", "text", "other"}
      BY <1>2 DEF Status
    <3> QED
      BY <3>1, <3>2, <3>3, <3>4
  <2>2. DOMAIN reader.entries = {}
    BY <1>2, <1>4
  <2> QED
    BY <2>1, <2>2 DEF IsReader
<1>6. CallTypeOK
  <2>1. Len(turn) <= MaxMessages
    BY <1>1, CallAssumption
  <2>2. call \in {"setup", "streaming", "returned", "raised"} /\ turn \in Seq(Message)
        /\ returned.content \in Content /\ returned.done \in BOOLEAN
    BY <1>1, <1>3, <1>4
  <2>3. origin \in Seq(DOMAIN turn) /\ Len(origin) = reader.seq
    BY <1>1, <1>2
  <2> QED
    BY <1>1, <1>5, <2>1, <2>2, <2>3 DEF CallTypeOK
<1>7. Of(turn, Recorded) = {} /\ Of(turn, {"text"}) = {}
  BY <1>1 DEF Of
<1>8. ToolHolds(reader, turn, origin)
  <2>1. Carries(reader, turn)
    BY <1>1, <1>2 DEF Carries
  <2>2. HoldsEntries(reader, turn, origin)
    <3>1. EntriesTell(reader.entries, turn, origin)
      BY <1>1, <1>2, <1>4 DEF EntriesTell
    <3>2. origin = [m \in DOMAIN turn |-> m]
      BY <1>1
    <3> QED
      BY <1>1, <1>2, <3>1, <3>2 DEF HoldsEntries
  <2>3. HoldsText(reader, turn) /\ HoldsEnd(reader, turn)
    BY <1>1, <1>2, <1>7 DEF HoldsText, HoldsEnd
  <2> QED
    BY <2>1, <2>2, <2>3 DEF ToolHolds
<1> QED
  BY <1>2, <1>6, <1>8 DEF ToolInv

\* Beginning and ending keep it.
LEMMA EndsKeep ==
    ASSUME ToolInv, Post \/ Refused \/ (\E done \in BOOLEAN : StreamEnds(done)) PROVE ToolInv'
<1>1. UNCHANGED <<wire, turn, origin, reader>>
      /\ (call' \in {"setup", "streaming"} => call \in {"setup", "streaming"})
      /\ call' \in {"setup", "streaming", "returned", "raised"}
  BY DEF Post, Refused, StreamEnds, Live
<1>2. ToolHolds(reader, turn, origin) => ToolHolds(reader, turn, origin)'
  BY <1>1 DEF ToolHolds, Carries, HoldsEntries, EntriesTell, LastIn, HoldsText, HoldsEnd,
              Of, LatestOf
<1>3. returned'.content \in Content /\ returned'.done \in BOOLEAN
  <2>1. CASE Post \/ Refused
    BY <2>1 DEF Post, Refused, ToolInv, CallTypeOK
  <2>2. ASSUME NEW done \in BOOLEAN, StreamEnds(done)
        PROVE  returned'.content \in Content /\ returned'.done \in BOOLEAN
    BY <2>2 DEF StreamEnds, ToolInv, CallTypeOK, IsReader
  <2> QED
    BY <2>1, <2>2
<1>4. IsReader(reader')
  BY <1>1 DEF ToolInv, CallTypeOK, IsReader
<1>5. CallTypeOK'
  BY <1>1, <1>3, <1>4 DEF ToolInv, CallTypeOK, IsReader
<1> QED
  BY <1>1, <1>2, <1>5 DEF ToolInv

\* Every step keeps it.
LEMMA ToolKeeps == ToolInv /\ [CallNext]_callVars => ToolInv'
<1> SUFFICES ASSUME ToolInv, [CallNext]_callVars PROVE ToolInv'
  OBVIOUS
<1>1. CASE UNCHANGED callVars
  BY <1>1 DEF callVars, ToolInv, CallTypeOK, IsReader,
     ToolHolds, Carries, HoldsEntries, EntriesTell, LastIn, HoldsText, HoldsEnd, Of, LatestOf
<1>2. CASE CallNext
  BY <1>2, NewMessageTold, GrowTold, FinishTold, MetadataTold, EndsKeep DEF CallNext
<1> QED
  BY <1>1, <1>2

\* The latest message of some kinds is the one Latest chooses.
LEMMA LatestIs ==
    ASSUME turn \in Seq(Message), NEW kinds, NEW m, LatestOf(turn, kinds, m)
    PROVE  Latest(kinds) = m /\ MessagesOf(kinds) = Of(turn, kinds)
<1>1. MessagesOf(kinds) = Of(turn, kinds) /\ Of(turn, kinds) \subseteq Nat
  BY DEF MessagesOf, Of
<1>2. \A l \in MessagesOf(kinds) :
        (\A i \in MessagesOf(kinds) : i <= l) => l = m
  BY <1>1 DEF LatestOf
<1>3. m \in MessagesOf(kinds) /\ \A i \in MessagesOf(kinds) : i <= m
  BY <1>1 DEF LatestOf
<1>4. \E l \in MessagesOf(kinds) : \A i \in MessagesOf(kinds) : i <= l
  BY <1>3
<1>5. Latest(kinds) = m
  BY <1>2, <1>4 DEF Latest
<1> QED
  BY <1>1, <1>5

\* For turns of any number of messages of any length, tool_call returns what the turn said:
\* an entry for each envelope of a tool's call or answer, of which the last says all of it;
\* the latest text whole, on the classic wire when it has ended; and nothing as complete
\* that did not end so.
THEOREM ToolResults == CallSpec => ResultIsTurn
<1> DEFINE TextWhole ==
             MessagesOf({"text"}) # {} =>
              LET m == Latest({"text"})
              IN turn[m].length > 0 /\ (wire = "v1" \/ turn[m].status # "in_progress")
                   => returned'.content = Whole(m, turn[m].length)
           Ended ==
             \/ returned'.done
             \/ /\ MessagesOf(Kind \ {"note"}) # {}
                /\ LET m == Latest(Kind \ {"note"})
                   IN /\ turn[m].kind \in {"text", "response"}
                      /\ turn[m].status = "finished_successfully"
           Traces == wire = "v1" => origin = [m \in DOMAIN turn |-> m]
<1>1. ASSUME ToolInv, CallNext, Live, call' = "returned"
      PROVE  EntriesAreTurn(returned'.entries) /\ Traces /\ TextWhole /\ Ended
  <2>1. PICK done \in BOOLEAN : StreamEnds(done)
    BY <1>1 DEF CallNext, Post, Refused, NewMessage, Grow, Finish, Metadata, Reads, Live
  <2>2. /\ done \/ reader.completed
        /\ returned' = [content |-> IF reader.last # <<>> THEN reader.last
                                                         ELSE reader.streamed,
                        entries |-> reader.entries, done |-> done]
    BY <1>1, <2>1 DEF StreamEnds
  <2>3. /\ returned'.content = IF reader.last # <<>> THEN reader.last ELSE reader.streamed
        /\ returned'.entries = reader.entries /\ returned'.done = done
    BY <2>2
  <2>4. /\ HoldsEntries(reader, turn, origin) /\ HoldsText(reader, turn)
        /\ HoldsEnd(reader, turn) /\ turn \in Seq(Message) /\ wire \in {"classic", "v1"}
    BY <1>1 DEF ToolInv, ToolHolds, CallTypeOK, Live
  <2>5. MessagesOf({"text"}) = Of(turn, {"text"})
    BY DEF MessagesOf, Of
  <2>6. EntriesAreTurn(returned'.entries) /\ Traces
    <3>1. EntriesTell(reader.entries, turn, origin) /\ Traces
      BY <2>4 DEF HoldsEntries
    <3>2. \A n : LastOf(n) <=> LastIn(origin, n)
      BY DEF LastOf, LastIn
    <3> QED
      BY <2>3, <3>1, <3>2 DEF EntriesTell, EntriesAreTurn
  <2>7. TextWhole
    <3> SUFFICES ASSUME MessagesOf({"text"}) # {}, NEW m, m = Latest({"text"}),
                        turn[m].length > 0, wire = "v1" \/ turn[m].status # "in_progress"
                 PROVE  returned'.content = Whole(m, turn[m].length)
      OBVIOUS
    <3>1. PICK l \in DOMAIN turn : LatestOf(turn, {"text"}, l)
      BY <2>4, <2>5 DEF HoldsText
    <3>2. l = m
      BY <2>4, <3>1, LatestIs
    <3>3. reader.last = Whole(m, turn[m].length)
      BY <2>4, <3>1, <3>2 DEF HoldsText
    <3>4. m \in Nat /\ turn[m].length \in Nat
      <4>1. m \in DOMAIN turn /\ turn \in Seq(Message)
        BY <2>4, <3>1, <3>2
      <4>2. m \in Nat /\ turn[m] \in Message
        BY <4>1
      <4> QED
        BY <4>2 DEF Message
    <3>5. Whole(m, turn[m].length) # <<>>
      BY <3>4, WholeIs
    <3> QED
      BY <2>3, <3>3, <3>5
  <2>8. Ended
    <3>1. CASE done
      BY <2>3, <3>1
    <3>2. CASE reader.completed
      <4>1. PICK m \in DOMAIN turn :
              /\ LatestOf(turn, Counted, m)
              /\ turn[m].kind \in {"text", "response"}
              /\ turn[m].status = "finished_successfully"
        BY <2>4, <3>2 DEF HoldsEnd
      <4>2. Latest(Counted) = m /\ MessagesOf(Counted) = Of(turn, Counted)
        BY <2>4, <4>1, LatestIs
      <4>3. MessagesOf(Counted) # {}
        BY <4>1, <4>2 DEF LatestOf
      <4> QED
        BY <4>1, <4>2, <4>3 DEF Counted
    <3> QED
      BY <2>2, <3>1, <3>2
  <2> QED
    BY <2>6, <2>7, <2>8
<1> DEFINE Result == /\ EntriesAreTurn(returned'.entries)
                     /\ wire = "v1" => origin = [m \in DOMAIN turn |-> m]
                     /\ MessagesOf({"text"}) # {} =>
                          LET m == Latest({"text"})
                          IN turn[m].length > 0 /\ (wire = "v1" \/ turn[m].status # "in_progress")
                               => returned'.content = Whole(m, turn[m].length)
                     /\ returned'.done
                          \/ /\ MessagesOf(Kind \ {"note"}) # {}
                             /\ LET m == Latest(Kind \ {"note"})
                                IN /\ turn[m].kind \in {"text", "response"}
                                   /\ turn[m].status = "finished_successfully"
<1>2. ToolInv /\ [CallNext]_callVars => [Live /\ call' = "returned" => Result]_callVars
  BY <1>1
<1> QED
  BY <1>2, ToolBegins, ToolKeeps, PTL DEF CallSpec, ResultIsTurn

-----------------------------------------------------------------------------
(* The five tools together *)

\* The types of what the five tools keep, whichever of them goes on.
THEOREM ToolTypes == ToolsSpec => []ToolsTypeOK
<1> DEFINE AllInv == ToolInv /\ ImageInv /\ LaneInv /\ WritesInv /\ DotTypeOK
<1>1. ToolsInit => AllInv
  BY ToolBegins, ImageBegins, LaneBegins, WritesBegin, DotBegins
  DEF ToolsInit, DotInv
<1>2. AllInv /\ [ToolsNext]_<<hostVars, turnVars, siteVars>> => AllInv'
  <2>1. [ToolsNext]_<<hostVars, turnVars, siteVars>> =>
          /\ [CallNext]_callVars /\ [ImageNext]_imageVars /\ [LaneNext]_laneVars
          /\ [WritesNext]_writeVars /\ [DotNext]_dotVars
    BY DEF ToolsNext, hostVars, turnVars, siteVars
  <2> QED
    BY <2>1, ToolKeeps, ImageKeeps, LaneKeeps, WritesKeep, DotTypesKept
<1>3. AllInv => ToolsTypeOK
  BY DEF ToolInv, ImageInv, LaneInv, WritesInv, ToolsTypeOK
<1> QED
  BY <1>1, <1>2, <1>3, PTL DEF ToolsSpec
=============================================================================
