-------------------------- MODULE MCCachingProvider --------------------------
(* Small instances of CachingProvider for TLC. *)
EXTENDS CachingProvider, TLC

\* Tasks differ only by name, so safety runs may identify their permutations.
Symmetry == Permutations(Tasks)
=============================================================================
