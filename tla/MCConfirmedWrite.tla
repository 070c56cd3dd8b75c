--------------------------- MODULE MCConfirmedWrite ---------------------------
(* Small instances of ConfirmedWrite for TLC. *)
EXTENDS ConfirmedWrite, TLC

\* Commands differ only by name, and so do valves.
Symmetry == Permutations(Commands) \cup Permutations(Valves)
=============================================================================
