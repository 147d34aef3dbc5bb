---------------------------- MODULE MCTaskFiles ----------------------------
(* Small instances of TaskFiles for TLC.                                    *)
EXTENDS TaskFiles, TLC

\* Inode numbers only tell files apart; task ids are interchangeable too.
FileSymmetry == Permutations(Tasks) \cup Permutations(Inodes)
============================================================================
