---------------------------- MODULE MCDiskCache ----------------------------
(* Small instances of DiskCache.                                           *)
EXTENDS DiskCache, TLC

Symmetry == Permutations(Procs)
=============================================================================
