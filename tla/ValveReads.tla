------------------------------ MODULE ValveReads ------------------------------
(***************************************************************************)
(* What the client promises of the valves it keeps, seen by the caller of  *)
(* get_valve: a call that reads valves may take any time and may find any  *)
(* of them, but each state it keeps was the state of that valve at some    *)
(* time during the call.                                                   *)
(***************************************************************************)
EXTENDS Naturals

CONSTANTS Tasks, Valves

VARIABLES
    status,     \* how often the state of each valve has changed
    valves,     \* the states kept, by valve
    reading,    \* the tasks inside a call
    since       \* for each task, the states when its call began

readVars == <<status, valves, reading, since>>

\* States of some of the valves, by valve.
IsReading(f) ==
    /\ f = [v \in DOMAIN f |-> f[v]]
    /\ DOMAIN f \subseteq Valves
    /\ \A v \in DOMAIN f : f[v] \in Nat
Nothing == [v \in {} |-> 0]

\* dict.update
Updated(old, new) ==
    [v \in DOMAIN old \cup DOMAIN new |-> IF v \in DOMAIN new THEN new[v] ELSE old[v]]

\* Readings of S with states that the valves have been in since the call of t
\* began.
TrueSince(t, S) ==
    {f \in [S -> UNION {since[t][v] .. status[v] : v \in S}] :
        \A v \in S : f[v] \in since[t][v] .. status[v]}

ReadsInit ==
    /\ status = [v \in Valves |-> 0]
    /\ valves = Nothing
    /\ reading = {}
    /\ since = [t \in Tasks |-> status]

ValveChanges(v) ==
    /\ status' = [status EXCEPT ![v] = status[v] + 1]
    /\ UNCHANGED <<valves, reading, since>>

\* A call without a request, such as a refresh of no valves, begins and ends at
\* once.
CallBegins(t) ==
    /\ t \notin reading
    /\ since' = [since EXCEPT ![t] = status]
    /\ \/ reading' = reading \cup {t} /\ valves' = valves
       \/ reading' = reading /\ valves' = Nothing
    /\ UNCHANGED status

\* A call ends and keeps what it found in place of the rest or on top of it.
CallEnds(t) ==
    /\ t \in reading
    /\ reading' = reading \ {t}
    /\ UNCHANGED <<status, since>>
    /\ \E S \in SUBSET Valves : \E f \in TrueSince(t, S) :
          valves' = f \/ valves' = Updated(valves, f)

\* A call that fails keeps nothing.
CallFails(t) ==
    /\ t \in reading
    /\ reading' = reading \ {t}
    /\ UNCHANGED <<status, valves, since>>

ReadsNext ==
    \/ \E v \in Valves : ValveChanges(v)
    \/ \E t \in Tasks : CallBegins(t) \/ CallEnds(t) \/ CallFails(t)

ReadsSpec == ReadsInit /\ [][ReadsNext]_readVars
=============================================================================
