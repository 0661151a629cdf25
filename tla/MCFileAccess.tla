---------------------------- MODULE MCFileAccess ----------------------------
(* Small instances of FileAccess for TLC.                                  *)
EXTENDS FileAccess, TLC

\* Threads and paths are interchangeable in safety runs.
Symmetry == Permutations(Threads) \cup Permutations(Paths)
=============================================================================
