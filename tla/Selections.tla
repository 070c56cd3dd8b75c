------------------------------ MODULE Selections ------------------------------
(***************************************************************************)
(* What a comprehension over a list selects: [x for x in rows if x in S].  *)
(* SelectSeq says the same, but is not a function that proofs can unfold.  *)
(***************************************************************************)
EXTENDS Naturals, Sequences

\* The rows that are in S, in their order: kept[n] is what is kept of the first n.
Kept(rows, S) ==
    LET kept[n \in 0..Len(rows)] ==
            IF n = 0 THEN <<>>
            ELSE IF rows[n] \in S THEN Append(kept[n - 1], rows[n])
            ELSE kept[n - 1]
    IN  kept[Len(rows)]
=============================================================================
