--------------------------- MODULE MCAuthedRequest ---------------------------
(* Small instances of AuthedRequest for TLC. *)
EXTENDS AuthedRequest, TLC

\* Tasks differ only by name, so safety runs may identify their permutations.
Symmetry == Permutations(Tasks)
=============================================================================
