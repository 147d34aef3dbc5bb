---------------------------- MODULE MCTaskQueue ----------------------------
(* Small instances of TaskQueue for TLC.                                    *)
EXTENDS TaskQueue, TLC

\* Task ids are interchangeable.  Processes are not: the configurations tell
\* workers from clients, and those that may crash from those that may not.
TaskSymmetry == Permutations(Tasks)
============================================================================
