----------------------------- MODULE MCValveCache -----------------------------
(* A small instance of ValveCache for TLC: callers and valves
   differ only by name. *)
EXTENDS ValveCache

\* async_get_valves with one VID.
Singles == {<<v>> : v \in Valves}

Symmetry == Permutations(Tasks) \cup Permutations(Valves)
=============================================================================
