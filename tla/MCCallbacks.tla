----------------------------- MODULE MCCallbacks -----------------------------
(* A small instance of Callbacks for TLC. *)
EXTENDS Callbacks

\* Every list of up to two definitions: none, one, the same one twice, one URL
\* twice, and two URLs.
ShortLists == SeqOf(Definitions, 2)

\* Consumers differ only by name, and so do URLs.
Symmetry == Permutations(Consumers) \cup Permutations(Urls)
=============================================================================
