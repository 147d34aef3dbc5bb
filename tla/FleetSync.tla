------------------------------ MODULE FleetSync ------------------------------
(***************************************************************************)
(* scripts/fleet_sync.py: a clone is moved to a pinned commit, the         *)
(* editable installs of several interpreters are refreshed and verified,   *)
(* and everything is put back when something fails.  Other syncs of the    *)
(* same clone and a user of it go on meanwhile: between two commands of    *)
(* sync() anything may have happened.  The lock is a directory.            *)
(***************************************************************************)
EXTENDS FiniteSets

CONSTANTS
    Syncs,          \* runs of the script on one clone
    Pythons,        \* --python; at least one
    Commits, Branches, Detached,
    Target,         \* the commit a sync is pinned to
    Version,        \* __version__ of a commit
    MayCrash        \* syncs that may be killed

ASSUME SyncAssumption ==
    /\ Detached \notin Branches
    /\ Target \in [Syncs -> Commits]
    /\ DOMAIN Version = Commits
    /\ Pythons # {}
    /\ MayCrash \subseteq Syncs

VARIABLES
    clone,      \* HEAD, its branch, the branch tips, uncommitted changes
    lock,       \* fleet-sync.lock exists
    metadata,   \* the version the dist-info of each interpreter says
    at,         \* where each sync stands
    saved,      \* previous and previous_branch of each sync
    attempted,  \* interpreters each sync has run pip for, and rolled back
    seen,       \* interpreters the sync at work has found to be right
    edited,     \* history: somebody edited the clone since it last ran git status
    receipt     \* the status each sync has noted

vars == <<clone, lock, metadata, at, saved, attempted, seen, edited, receipt>>

Versions == {Version[c] : c \in Commits}

\* Every check of the clone is two commands: git status, then rev-parse HEAD.
HeadAfter == [recheck      |-> "recheck_head",    confirm |-> "confirm_head",
              check_back   |-> "check_back_head",
              confirm_back |-> "confirm_back_head"]

Looking == {HeadAfter[check] : check \in DOMAIN HeadAfter}

Updating == {"recheck", "recheck_head", "checkout", "install", "verify",
             "confirm", "confirm_head"}

RollingBack == {"check_back", "check_back_head", "checkout_back", "branch_back",
                "branch_checkout", "install_back", "verify_back",
                "confirm_back", "confirm_back_head"}

Locked == Updating \cup RollingBack \cup {"unlock"}

Stages == {"preflight", "head", "branch", "lock", "ended"} \cup Locked

TypeOK ==
    /\ clone \in [head : Commits, branch : Branches \cup {Detached},
                  tip : [Branches -> Commits], dirty : BOOLEAN]
    /\ lock \in BOOLEAN
    /\ metadata \in [Pythons -> Versions]
    /\ at \in [Syncs -> Stages]
    /\ saved \in [Syncs -> [previous : Commits,
                            branch : Branches \cup {Detached}]]
    /\ attempted \in [Syncs -> [there : SUBSET Pythons, back : SUBSET Pythons]]
    /\ seen \subseteq Pythons
    /\ edited \in BOOLEAN
    /\ receipt \in [Syncs -> {"none", "failed", "preview", "verified",
                              "restored", "rollback failed"}]

NothingSaved(s) == [previous |-> Target[s], branch |-> Detached]
NothingTried == [there |-> {}, back |-> {}]

Init ==
    /\ clone \in [head : Commits, branch : Branches \cup {Detached},
                  tip : [Branches -> Commits], dirty : {FALSE}]
    /\ clone.branch # Detached => clone.head = clone.tip[clone.branch]
    /\ lock = FALSE
    /\ metadata = [p \in Pythons |-> Version[clone.head]]
    /\ at = [s \in Syncs |-> "preflight"]
    /\ saved = [s \in Syncs |-> NothingSaved(s)]
    /\ attempted = [s \in Syncs |-> NothingTried]
    /\ seen = {} /\ edited = FALSE
    /\ receipt = [s \in Syncs |-> "none"]

-----------------------------------------------------------------------------
(* Commands of git and pip                                                 *)

CheckoutCommit(commit) ==
    clone' = [clone EXCEPT !.head = commit, !.branch = Detached]

CheckoutBranch(branch) ==
    clone' = [clone EXCEPT !.head = clone.tip[branch], !.branch = branch]

\* pip install --editable: the metadata of whatever is checked out.
Install(p) == metadata' = [metadata EXCEPT ![p] = Version[clone.head]]

\* Code and metadata of an interpreter say the version of this commit.
Installed(p, commit) ==
    Version[clone.head] = Version[commit] /\ metadata[p] = Version[commit]

Goes(s, stage) == at' = [at EXCEPT ![s] = stage]

Notes(s, status) == receipt' = [receipt EXCEPT ![s] = status]

Untouched == UNCHANGED <<clone, metadata>>

\* What a sync that held the lock leaves behind: none of its variables.
Forget(s) ==
    /\ saved' = [saved EXCEPT ![s] = NothingSaved(s)]
    /\ attempted' = [attempted EXCEPT ![s] = NothingTried]

-----------------------------------------------------------------------------
(* sync(): the preflight                                                   *)

\* status; then fetch.
Preflight(s) ==
    /\ at[s] = "preflight" /\ ~clone.dirty
    /\ Goes(s, "head")
    /\ Untouched /\ UNCHANGED <<lock, saved, attempted, seen, edited, receipt>>

\* rev-parse HEAD; a wrong version or a foreign interpreter ends it.
ReadHead(s) ==
    /\ at[s] = "head"
    /\ saved' = [saved EXCEPT ![s].previous = clone.head]
    /\ Goes(s, "branch")
    /\ Untouched /\ UNCHANGED <<lock, attempted, seen, edited, receipt>>

\* branch --show-current; without --apply this is all.
ReadBranch(s) ==
    /\ at[s] = "branch"
    /\ saved' = [saved EXCEPT ![s].branch = clone.branch]
    /\ \/ Goes(s, "lock") /\ UNCHANGED receipt
       \/ Goes(s, "ended") /\ Notes(s, "preview")
    /\ Untouched /\ UNCHANGED <<lock, attempted, seen, edited>>

PreflightFails(s) ==
    /\ at[s] \in {"preflight", "head", "branch"}
    /\ Goes(s, "ended") /\ Notes(s, "failed")
    /\ Untouched /\ UNCHANGED <<lock, saved, attempted, seen, edited>>

\* Mutant of TakeLock: somebody else's lock will do.
TakeLockAnyway(s) ==
    /\ at[s] = "lock" /\ lock' = TRUE
    /\ Goes(s, "recheck") /\ UNCHANGED receipt
    /\ Untouched /\ UNCHANGED <<saved, attempted, seen, edited>>

\* mkdir raises when the directory is there.
TakeLock(s) ==
    /\ at[s] = "lock" /\ lock' = TRUE
    /\ IF lock THEN Goes(s, "ended") /\ Notes(s, "failed")
               ELSE Goes(s, "recheck") /\ UNCHANGED receipt
    /\ Untouched /\ UNCHANGED <<saved, attempted, seen, edited>>

-----------------------------------------------------------------------------
(* sync(): the update                                                      *)

Kept == UNCHANGED <<lock, saved, attempted, edited>>

\* The first command of a check: no uncommitted changes.
NoChanges(s) ==
    /\ at[s] \in DOMAIN HeadAfter /\ ~clone.dirty
    /\ edited' = FALSE
    /\ Goes(s, HeadAfter[at[s]])
    /\ Untouched /\ UNCHANGED <<lock, saved, attempted, seen, receipt>>

Recheck(s) ==
    /\ at[s] = "recheck_head" /\ clone.head = saved[s].previous
    /\ Goes(s, "checkout")
    /\ Untouched /\ Kept /\ UNCHANGED <<seen, receipt>>

Checkout(s) ==
    /\ at[s] = "checkout" /\ CheckoutCommit(Target[s])
    /\ Goes(s, "install")
    /\ Kept /\ UNCHANGED <<metadata, seen, receipt>>

InstallNext(s, p) ==
    /\ at[s] = "install" /\ p \notin attempted[s].there
    /\ attempted' = [attempted EXCEPT ![s].there = @ \cup {p}]
    /\ Install(p) /\ seen' = {}
    /\ Goes(s, IF attempted'[s].there = Pythons THEN "verify" ELSE "install")
    /\ UNCHANGED <<clone, lock, saved, edited, receipt>>

\* Interpreter p is found to be right: what comes next when all are?
Finds(s, p, next) ==
    /\ p \notin seen
    /\ IF seen \cup {p} = Pythons THEN seen' = {} /\ Goes(s, next)
                                  ELSE seen' = seen \cup {p} /\ UNCHANGED at
    /\ Untouched /\ Kept /\ UNCHANGED receipt

\* verify_install.py, run by one interpreter after the other.
Verify(s, p) ==
    at[s] = "verify" /\ Installed(p, Target[s]) /\ Finds(s, p, "confirm")

\* Mutant of Confirm: what was verified once needs no second look.
ConfirmBlindly(s) ==
    /\ at[s] = "confirm_head"
    /\ Goes(s, "unlock") /\ Notes(s, "verified")
    /\ Untouched /\ Kept /\ UNCHANGED seen

Confirm(s) ==
    /\ at[s] = "confirm_head" /\ clone.head = Target[s]
    /\ Goes(s, "unlock") /\ Notes(s, "verified")
    /\ Untouched /\ Kept /\ UNCHANGED seen

\* A check does not hold, or a command fails: before the checkout there is
\* nothing to put back.  A failed pip may have changed the metadata.
UpdateFails(s) ==
    /\ at[s] \in Updating
    /\ Goes(s, IF at[s] \in {"recheck", "recheck_head", "checkout"}
                 THEN "unlock" ELSE "check_back")
    /\ Notes(s, "failed") /\ seen' = {}
    /\ IF at[s] # "install" THEN UNCHANGED <<metadata, attempted>>
       ELSE \E p \in Pythons \ attempted[s].there :
              /\ attempted' = [attempted EXCEPT ![s].there = @ \cup {p}]
              /\ UNCHANGED metadata \/ Install(p)
    /\ UNCHANGED <<clone, lock, saved, edited>>

-----------------------------------------------------------------------------
(* sync(): the rollback                                                    *)

CheckBack(s) ==
    /\ at[s] = "check_back_head" /\ clone.head = Target[s]
    /\ Goes(s, "checkout_back")
    /\ Untouched /\ Kept /\ UNCHANGED <<seen, receipt>>

CheckoutBack(s) ==
    /\ at[s] = "checkout_back" /\ CheckoutCommit(saved[s].previous)
    /\ Goes(s, "branch_back")
    /\ Kept /\ UNCHANGED <<metadata, seen, receipt>>

\* The branch is to be checked out again unless somebody has moved or deleted
\* it, or its tip cannot be read.
BranchBack(s) ==
    /\ at[s] = "branch_back"
    /\ \/ /\ saved[s].branch \in Branches
          /\ clone.tip[saved[s].branch] = saved[s].previous
          /\ Goes(s, "branch_checkout")
       \/ Goes(s, "install_back")
    /\ Untouched /\ Kept /\ UNCHANGED <<seen, receipt>>

\* Wherever the branch points by now.
BranchCheckout(s) ==
    /\ at[s] = "branch_checkout" /\ saved[s].branch \in Branches
    /\ CheckoutBranch(saved[s].branch)
    /\ Goes(s, "install_back")
    /\ Kept /\ UNCHANGED <<metadata, seen, receipt>>

InstallBack(s, p) ==
    /\ at[s] = "install_back" /\ p \in attempted[s].there \ attempted[s].back
    /\ attempted' = [attempted EXCEPT ![s].back = @ \cup {p}]
    /\ Install(p) /\ seen' = {}
    /\ Goes(s, IF attempted'[s].back = attempted[s].there THEN "verify_back"
                                                        ELSE "install_back")
    /\ UNCHANGED <<clone, lock, saved, edited, receipt>>

\* inspect, run by one interpreter after the other.
VerifyBack(s, p) ==
    /\ at[s] = "verify_back" /\ Installed(p, saved[s].previous)
    /\ Finds(s, p, "confirm_back")

ConfirmBack(s) ==
    /\ at[s] = "confirm_back_head" /\ clone.head = saved[s].previous
    /\ Goes(s, "unlock") /\ Notes(s, "restored")
    /\ Untouched /\ Kept /\ UNCHANGED seen

RollbackFails(s) ==
    /\ at[s] \in RollingBack
    /\ Goes(s, "unlock") /\ Notes(s, "rollback failed") /\ seen' = {}
    /\ Untouched /\ Kept

\* finally: lock.rmdir(); then main writes the receipt to its file.
Unlock(s) ==
    /\ at[s] = "unlock" /\ lock' = FALSE
    /\ Goes(s, "ended") /\ Forget(s) /\ edited' = FALSE
    /\ Untouched /\ UNCHANGED <<seen, receipt>>

\* Killed: the lock stays, and so does the incomplete receipt.
Crash(s) ==
    /\ s \in MayCrash /\ at[s] # "ended"
    /\ Goes(s, "ended") /\ Forget(s)
    /\ Untouched /\ UNCHANGED <<lock, seen, edited, receipt>>

-----------------------------------------------------------------------------
(* A user works in the clone                                               *)

Elsewhere == UNCHANGED <<lock, metadata, at, saved, attempted, seen, receipt>>

\* Changes that are made or undone; none touches __version__.
Edit ==
    /\ clone' = [clone EXCEPT !.dirty = ~@]
    /\ edited' = (edited \/ \E s \in Syncs : at[s] \in Looking)
    /\ Elsewhere

Commit(c) ==
    /\ clone' = [clone EXCEPT !.head = c, !.dirty = FALSE,
                   !.tip = [b \in Branches |-> IF b = clone.branch THEN c ELSE @[b]]]
    /\ Elsewhere /\ UNCHANGED edited

Switch(b) == CheckoutBranch(b) /\ Elsewhere /\ UNCHANGED edited

MoveBranch(b, c) ==
    /\ b # clone.branch /\ clone' = [clone EXCEPT !.tip[b] = c]
    /\ Elsewhere /\ UNCHANGED edited

-----------------------------------------------------------------------------
Sync(s) ==
    \/ Preflight(s) \/ ReadHead(s) \/ ReadBranch(s) \/ PreflightFails(s)
    \/ TakeLock(s)
    \/ NoChanges(s)
    \/ Recheck(s) \/ Checkout(s)
    \/ \E p \in Pythons : InstallNext(s, p) \/ Verify(s, p)
    \/ Confirm(s) \/ UpdateFails(s)
    \/ CheckBack(s) \/ CheckoutBack(s) \/ BranchBack(s) \/ BranchCheckout(s)
    \/ \E p \in Pythons : InstallBack(s, p) \/ VerifyBack(s, p)
    \/ ConfirmBack(s) \/ RollbackFails(s)
    \/ Unlock(s)
    \/ Crash(s)

User ==
    \/ Edit
    \/ \E c \in Commits : Commit(c)
    \/ \E b \in Branches : Switch(b) \/ \E c \in Commits : MoveBranch(b, c)

Next == (\E s \in Syncs : Sync(s)) \/ User

Spec == Init /\ [][Next]_vars

-----------------------------------------------------------------------------
(* Properties *)

\* Whoever fails, is killed or finds the lock taken: no two syncs work on the
\* clone at once, and nobody removes a lock that is not his own.
SyncsApart ==
    \A s, r \in Syncs :
        at[s] \in Locked => lock /\ (at[r] \in Locked => r = s)

\* What the last look at the clone gives: HEAD is at the commit, code and
\* metadata of every interpreter say its version, and there are no uncommitted
\* changes but those made since git status, one command earlier.
AtRest(commit) ==
    /\ clone.head = commit
    /\ \A p \in Pythons : Installed(p, commit)
    /\ clone.dirty => edited

\* A sync notes "verified" or "restored" only when that is so, whatever a user
\* has done in the clone between any two of its commands.  The file is written
\* later, when the lock is free again and the clone may have moved on.
ReceiptIsTrue ==
    [][\A s \in Syncs : receipt'[s] # receipt[s] =>
          /\ receipt'[s] = "verified" => AtRest(Target[s])
          /\ receipt'[s] = "restored" => AtRest(saved[s].previous)]_vars
=============================================================================
