------------------------------- MODULE Resends -------------------------------
(***************************************************************************)
(* ConfirmedWrite with a history of which writes took effect, to ask what  *)
(* sending a write again does.                                             *)
(***************************************************************************)
EXTENDS ConfirmedWrite

VARIABLE landed     \* history: <<c, v>> once a write of c took effect on v

\* The writes that take effect in this step.
Landing == {w \in Commands \X Valves : flight'[w[1]][w[2]] < flight[w[1]][w[2]]}

ResendSpec ==
    /\ Init /\ landed = {}
    /\ [][Next /\ landed' = landed \cup Landing]_<<vars, landed>>

\* What a comment says and the code does not ensure: "resending one that did
\* land changes nothing" (client.py:69).
ResendChangesNothing ==
    [][\A w \in landed : w \in Landing => status' = status]_<<vars, landed>>
=============================================================================
