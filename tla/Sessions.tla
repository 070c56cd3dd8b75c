-------------------------------- MODULE Sessions --------------------------------
(***************************************************************************)
(* The HTTP session of a FloLogicClient (src/pyflologic/client.py):        *)
(* _ensure_session opens it, _async_request holds it from its start to its *)
(* end across every await, and async_close closes it, all of them          *)
(* interleaved by one event loop.  A client that was given a session never *)
(* replaces or closes it; the application may close it.                    *)
(*                                                                         *)
(* aiohttp is the environment.  Its close() marks the session closed at    *)
(* once, and then may wait for the connections to end.  A request in       *)
(* flight on a session that is closed ends in a ClientError; one that is   *)
(* made on a closed session ends in a RuntimeError.                        *)
(***************************************************************************)
EXTENDS Naturals, FiniteSets

CONSTANTS
    Tasks,         \* the tasks that make requests, one after another
    Closers,       \* the tasks that call async_close, one after another
    None,          \* no session
    MaxSessions    \* bound of the model: the sessions that are opened

ASSUME SessionAssumption == MaxSessions \in Nat /\ None \notin Nat

VARIABLES
    owned,         \* self._owns_session
    session,       \* self._session
    opened,        \* how many sessions there have been: they are 1 .. opened
    closed,        \* the sessions that are closed
    waiting,       \* the calls of async_close that wait for close()
    stage,         \* where the request of each task is, or how its last one ended
    held,          \* the local variable "session" of each request
    retried,       \* its "attempt" is the second
    overlaid,      \* history: the sessions opened while a close was waiting
    disturbed      \* history: the requests whose session was closed while they held it

vars == <<owned, session, opened, closed, waiting, stage, held, retried, overlaid, disturbed>>

Active == {"token", "sent"}
Ended == {"new", "done", "connection_error", "runtime_error"}

Init ==
    /\ \/ owned = TRUE /\ session = None /\ opened = 0
       \/ owned = FALSE /\ session = 1 /\ opened = 1
    /\ closed = {} /\ waiting = {} /\ overlaid = {} /\ disturbed = {}
    /\ stage = [t \in Tasks |-> "new"]
    /\ held = [t \in Tasks |-> None]
    /\ retried = [t \in Tasks |-> FALSE]

-----------------------------------------------------------------------------
\* Mutant of Usable: a closed session will do.
UsableIfAny(s) == s # None

\* The session that _ensure_session finds can be used.
Usable(s) == s # None /\ s \notin closed

\* A request begins: it uses the session there is, opens one, or finds the one it
\* was given closed.
Start(t) ==
    /\ stage[t] \in Ended
    /\ \/ /\ Usable(session)
          /\ stage' = [stage EXCEPT ![t] = "token"]
          /\ UNCHANGED <<session, opened, overlaid>>
       \/ /\ ~Usable(session) /\ owned /\ opened < MaxSessions
          /\ opened' = opened + 1 /\ session' = opened'
          /\ overlaid' = IF waiting = {} THEN overlaid ELSE overlaid \cup {opened'}
          /\ stage' = [stage EXCEPT ![t] = "token"]
       \/ /\ ~Usable(session) /\ ~owned
          /\ stage' = [stage EXCEPT ![t] = "connection_error"]
          /\ UNCHANGED <<session, opened, overlaid>>
    /\ held' = [held EXCEPT ![t] = IF stage'[t] = "token" THEN session' ELSE None]
    /\ retried' = [retried EXCEPT ![t] = FALSE]
    /\ disturbed' = disturbed \ {t}
    /\ UNCHANGED <<owned, closed, waiting>>

\* Mutant of Ends: the session outlives the request.
EndsHolding(t, how) ==
    /\ stage' = [stage EXCEPT ![t] = how]
    /\ UNCHANGED <<owned, session, opened, closed, waiting, held, retried, overlaid, disturbed>>

\* The request is over, and its local variables are gone.
Ends(t, how) ==
    /\ stage' = [stage EXCEPT ![t] = how]
    /\ held' = [held EXCEPT ![t] = None]
    /\ UNCHANGED <<owned, session, opened, closed, waiting, retried, overlaid, disturbed>>

\* The token is there, and the request is made on the session held since the
\* start; or getting the token failed, if it was fetched.
Sends(t) ==
    /\ stage[t] = "token"
    /\ \/ /\ held[t] \notin closed
          /\ stage' = [stage EXCEPT ![t] = "sent"]
          /\ UNCHANGED <<owned, session, opened, closed, waiting, held, retried,
                         overlaid, disturbed>>
       \/ held[t] \in closed /\ Ends(t, "runtime_error")
       \/ Ends(t, "connection_error")

\* The answer is there: it is a first 401, or any other; or there will be none,
\* which is certain once the session is closed.
Answered(t) ==
    /\ stage[t] = "sent"
    /\ \/ /\ held[t] \notin closed /\ ~retried[t]
          /\ stage' = [stage EXCEPT ![t] = "token"]
          /\ retried' = [retried EXCEPT ![t] = TRUE]
          /\ UNCHANGED <<owned, session, opened, closed, waiting, held, overlaid, disturbed>>
       \/ held[t] \notin closed /\ Ends(t, "done")
       \/ Ends(t, "connection_error")

-----------------------------------------------------------------------------
\* A session is closed under the requests that are under way.
CloseSession(s) ==
    /\ closed' = closed \cup {s}
    /\ disturbed' = disturbed \cup {t \in Tasks : held[t] = s}

\* Mutant of Close: a session that requests hold is left open.
CloseUnlessHeld(c) ==
    /\ c \notin waiting /\ owned /\ session # None
    /\ \/ /\ session \notin closed /\ \A t \in Tasks : held[t] # session
          /\ CloseSession(session)
          /\ waiting' = waiting \cup {c} /\ UNCHANGED session
       \/ /\ UNCHANGED <<closed, disturbed, waiting>>
          /\ session' = None
    /\ UNCHANGED <<owned, opened, stage, held, retried, overlaid>>

\* async_close of an own session that there is: close it, if it is open, and
\* forget it, at once or after waiting.
Close(c) ==
    /\ c \notin waiting /\ owned /\ session # None
    /\ \/ /\ session \notin closed
          /\ CloseSession(session)
          /\ \/ waiting' = waiting \cup {c} /\ UNCHANGED session
             \/ session' = None /\ UNCHANGED waiting
       \/ /\ session \in closed
          /\ session' = None
          /\ UNCHANGED <<closed, disturbed, waiting>>
    /\ UNCHANGED <<owned, opened, stage, held, retried, overlaid>>

\* close() is over, and whatever session there is by now is forgotten.
CloseEnds(c) ==
    /\ c \in waiting
    /\ waiting' = waiting \ {c} /\ session' = None
    /\ UNCHANGED <<owned, opened, closed, stage, held, retried, overlaid, disturbed>>

\* close() raises, or the call is cancelled while it waits: nothing is forgotten, and
\* the session stays the client's although it is closed.
CloseFails(c) ==
    /\ c \in waiting
    /\ waiting' = waiting \ {c}
    /\ UNCHANGED <<owned, session, opened, closed, stage, held, retried, overlaid, disturbed>>

\* The application closes the session it supplied.
SuppliedCloses ==
    /\ ~owned /\ session \notin closed
    /\ CloseSession(session)
    /\ UNCHANGED <<owned, session, opened, waiting, stage, held, retried, overlaid>>

Next ==
    \/ \E t \in Tasks : Start(t) \/ Sends(t) \/ Answered(t)
    \/ \E c \in Closers : Close(c) \/ CloseEnds(c) \/ CloseFails(c)
    \/ SuppliedCloses

Spec == Init /\ [][Next]_vars

-----------------------------------------------------------------------------
SessionTypeOK ==
    /\ owned \in BOOLEAN /\ opened \in Nat
    /\ session \in (1 .. opened) \cup {None}
    /\ closed \subseteq 1 .. opened /\ overlaid \subseteq 1 .. opened
    /\ waiting \subseteq Closers /\ disturbed \subseteq Tasks
    /\ stage \in [Tasks -> Active \cup Ended]
    /\ held \in [Tasks -> (1 .. opened) \cup {None}]
    /\ retried \in [Tasks -> BOOLEAN]
    /\ \A t \in Tasks : stage[t] \in Active <=> held[t] # None

\* "Close the HTTP session, but only if this client created it" (client.py:198),
\* through any number of requests and closes that overlap: every session the
\* client opened is closed or still its current one, except those that a request
\* opened while async_close was waiting.
LeaksOnlyWhileClosing ==
    \A s \in 1 .. opened : s \in closed \/ s = session \/ s \in overlaid

\* A request holds one session through its awaits and its retry, while others may
\* close, forget and replace it: it meets a closed session, and leaves with an
\* exception that is no FloLogicError, only if that very session was closed after
\* the request began.  A session it holds is no longer the client's only for that
\* reason, or because a waiting close forgot it.
OnlyACloseBreaksARequest ==
    \A t \in Tasks :
        /\ stage[t] = "runtime_error" => t \in disturbed
        /\ stage[t] \in Active /\ held[t] # session => t \in disturbed \/ held[t] \in overlaid
=============================================================================
