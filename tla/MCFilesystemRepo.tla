-------------------------- MODULE MCFilesystemRepo --------------------------
(* Small instances of FilesystemRepo for TLC. *)
EXTENDS FilesystemRepo, TLC

CONSTANTS n1, n2, n3, n4, s1, s2

Symmetric == Permutations(Names) \cup Permutations(Stubs)
=============================================================================
