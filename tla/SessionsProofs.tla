----------------------------- MODULE SessionsProofs -----------------------------
(***************************************************************************)
(* Theorems about Sessions, for any number of requests, of calls of        *)
(* async_close and of sessions: which sessions may be left open, and which *)
(* requests may meet a closed one.                                         *)
(***************************************************************************)
EXTENDS Sessions, TLAPS

\* A session that was replaced or forgotten is closed, or was opened under a
\* waiting close; and so is the one that a waiting close will forget.  A client that
\* was given its session keeps it.
Kept ==
    /\ LeaksOnlyWhileClosing
    /\ waiting # {} => session = None \/ session \in closed \cup overlaid
    /\ ~owned => session # None /\ waiting = {}

\* A request knows of every close of the session it holds.
Known ==
    \A t \in Tasks : held[t] \in closed => t \in disturbed

IInv == SessionTypeOK /\ Kept /\ Known /\ OnlyACloseBreaksARequest

LEMMA NoneIsNoNumber == \A n \in Nat : None \notin 1 .. n
  BY SessionAssumption

LEMMA InitIInv == Init => IInv
  <1> SUFFICES ASSUME Init PROVE IInv
    OBVIOUS
  <1>1. SessionTypeOK
    <2>1. owned \in BOOLEAN /\ opened \in Nat /\ session \in (1 .. opened) \cup {None}
      <3>1. CASE owned = TRUE /\ session = None /\ opened = 0
        BY <3>1
      <3>2. CASE owned = FALSE /\ session = 1 /\ opened = 1
        <4>1. 1 \in 1 .. 1
          OBVIOUS
        <4>2. QED
          BY <3>2, <4>1
      <3>3. QED
        BY <3>1, <3>2 DEF Init
    <2>2. /\ stage \in [Tasks -> Active \cup Ended]
          /\ held \in [Tasks -> (1 .. opened) \cup {None}]
          /\ retried \in [Tasks -> BOOLEAN]
      BY DEF Init, Ended
    <2>3. \A t \in Tasks : stage[t] \in Active <=> held[t] # None
      BY DEF Init, Active
    <2>4. QED
      BY <2>1, <2>2, <2>3 DEF Init, SessionTypeOK
  <1>2. Kept
    <2>1. 1 # None
      BY SessionAssumption
    <2>2. LeaksOnlyWhileClosing
      BY DEF Init, LeaksOnlyWhileClosing
    <2>3. QED
      BY <2>1, <2>2 DEF Init, Kept
  <1>3. Known
    BY DEF Init, Known
  <1>4. OnlyACloseBreaksARequest
    BY DEF Init, OnlyACloseBreaksARequest, Active
  <1>5. QED
    BY <1>1, <1>2, <1>3, <1>4 DEF IInv

-----------------------------------------------------------------------------
\* The end of a request leaves the sessions alone.
LEMMA EndsIInv ==
    ASSUME IInv, NEW t \in Tasks, NEW how \in {"done", "connection_error", "runtime_error"},
           Ends(t, how), how = "runtime_error" => held[t] \in closed
    PROVE  IInv'
  <1> USE DEF Ends, Active, Ended
  <1>1. SessionTypeOK'
    BY DEF IInv, SessionTypeOK
  <1>2. Kept'
    BY DEF IInv, Kept, LeaksOnlyWhileClosing
  <1>3. ASSUME NEW u \in Tasks PROVE held'[u] = None \/ held'[u] = held[u]
    BY DEF IInv, SessionTypeOK
  <1>4. None \notin closed
    <2>1. opened \in Nat /\ closed \subseteq 1 .. opened
      BY DEF IInv, SessionTypeOK
    <2>2. QED
      BY <2>1, NoneIsNoNumber
  <1>5. Known'
    BY <1>3, <1>4 DEF IInv, Known
  <1>6. OnlyACloseBreaksARequest'
    BY DEF IInv, SessionTypeOK, Known, OnlyACloseBreaksARequest
  <1>7. QED
    BY <1>1, <1>2, <1>5, <1>6 DEF IInv

\* A request that begins keeps the session there is, or opens the next one in
\* place of one that is closed or forgotten.
LEMMA StartSessions ==
    ASSUME IInv, NEW t \in Tasks, Start(t)
    PROVE  /\ \/ opened' = opened /\ session' = session /\ overlaid' = overlaid
              \/ /\ opened' = opened + 1 /\ session' = opened + 1
                 /\ session = None \/ session \in closed
                 /\ overlaid' = overlaid \cup {opened + 1} \/ (waiting = {} /\ overlaid' = overlaid)
           /\ \/ /\ stage' = [stage EXCEPT ![t] = "token"]
                 /\ session' # session \/ (session # None /\ session \notin closed)
              \/ stage' = [stage EXCEPT ![t] = "connection_error"]
  BY NoneIsNoNumber DEF IInv, SessionTypeOK, Start, Usable

LEMMA StartIInv == ASSUME IInv, NEW t \in Tasks, Start(t) PROVE IInv'
  <1>1. /\ opened \in Nat /\ opened' \in Nat
        /\ 1 .. opened \subseteq 1 .. opened'
    BY StartSessions DEF IInv, SessionTypeOK
  <1>2. opened + 1 \in 1 .. (opened + 1)
    BY <1>1
  <1>3. session' \in (1 .. opened') \cup {None}
    BY <1>1, <1>2, StartSessions DEF IInv, SessionTypeOK
  <1>4. overlaid' \subseteq 1 .. opened'
    BY <1>1, <1>2, StartSessions DEF IInv, SessionTypeOK
  <1>5. closed \subseteq 1 .. opened /\ opened + 1 \notin closed
    BY <1>1 DEF IInv, SessionTypeOK
  <1>6. stage'[t] = "token" => session' # None /\ session' \notin closed
    <2>1. opened + 1 # None
      BY <1>1, <1>2, NoneIsNoNumber
    <2>2. CASE session' = session
      BY <2>2, StartSessions DEF IInv, SessionTypeOK
    <2>3. CASE session' = opened + 1
      BY <2>1, <2>3, <1>5
    <2>4. QED
      BY <2>2, <2>3, StartSessions
  <1>7. /\ stage' \in [Tasks -> Active \cup Ended]
        /\ \A u \in Tasks \ {t} : stage'[u] = stage[u] /\ held'[u] = held[u]
        /\ stage'[t] \in {"token", "connection_error"}
        /\ held'[t] = IF stage'[t] = "token" THEN session' ELSE None
    BY StartSessions DEF IInv, SessionTypeOK, Start, Active, Ended
  <1>8. held' \in [Tasks -> (1 .. opened') \cup {None}] /\ retried' \in [Tasks -> BOOLEAN]
    BY <1>1, <1>3 DEF IInv, SessionTypeOK, Start
  <1>9. /\ owned' = owned /\ closed' = closed /\ waiting' = waiting
        /\ disturbed' = disturbed \ {t}
    BY DEF Start
  <1>10. \A u \in Tasks : stage'[u] \in Active <=> held'[u] # None
    BY <1>6, <1>7 DEF IInv, SessionTypeOK, Active
  <1>11. SessionTypeOK'
    BY <1>1, <1>3, <1>4, <1>5, <1>7, <1>8, <1>9, <1>10 DEF IInv, SessionTypeOK
  <1>12. Kept'
    <2>1. LeaksOnlyWhileClosing'
      <3>1. SUFFICES ASSUME NEW s \in 1 .. opened'
                     PROVE  s \in closed \/ s = session' \/ s \in overlaid'
        BY <1>9 DEF LeaksOnlyWhileClosing
      <3>2. s \in 1 .. opened \/ (s = opened + 1 /\ opened' = opened + 1)
        BY <1>1, StartSessions
      <3>3. s \in 1 .. opened => s \in closed \/ s = session \/ s \in overlaid
        BY DEF IInv, Kept, LeaksOnlyWhileClosing
      <3>4. None \notin 1 .. opened
        BY <1>1, NoneIsNoNumber
      <3>5. QED
        BY <1>1, <3>2, <3>3, <3>4, StartSessions
    <2>2. waiting' # {} => session' = None \/ session' \in closed' \cup overlaid'
      BY <1>9, StartSessions DEF IInv, Kept
    <2>3. ~owned => session' = session
      BY DEF Start
    <2>4. ~owned' => session' # None /\ waiting' = {}
      BY <1>9, <2>3 DEF IInv, Kept
    <2>5. QED
      BY <2>1, <2>2, <2>4 DEF Kept
  <1>13. Known'
    <2>1. None \notin closed
      BY <1>1, <1>5, NoneIsNoNumber
    <2>2. QED
      BY <1>6, <1>7, <1>9, <2>1 DEF IInv, Known
  <1>14. OnlyACloseBreaksARequest'
    <2>1. SUFFICES ASSUME NEW u \in Tasks
                   PROVE  /\ stage'[u] = "runtime_error" => u \in disturbed'
                          /\ stage'[u] \in Active /\ held'[u] # session' =>
                                u \in disturbed' \/ held'[u] \in overlaid'
      BY DEF OnlyACloseBreaksARequest
    <2>2. CASE u = t
      BY <2>2, <1>7 DEF Active
    <2>3. CASE u # t
      <3>1. held[u] = session /\ stage[u] \in Active =>
               session' = session \/ u \in disturbed
        BY <2>3, StartSessions DEF IInv, SessionTypeOK, Known
      <3>2. QED
        BY <2>3, <3>1, <1>7, <1>9, StartSessions DEF IInv, OnlyACloseBreaksARequest
    <2>4. QED
      BY <2>2, <2>3
  <1>15. QED
    BY <1>11, <1>12, <1>13, <1>14 DEF IInv

LEMMA SendsIInv == ASSUME IInv, NEW t \in Tasks, Sends(t) PROVE IInv'
  <1>1. CASE held[t] \notin closed /\ stage' = [stage EXCEPT ![t] = "sent"]
             /\ UNCHANGED <<owned, session, opened, closed, waiting, held, retried,
                            overlaid, disturbed>>
    <2>1. stage[t] = "token"
      BY DEF Sends
    <2>2. QED
      BY <1>1, <2>1 DEF IInv, SessionTypeOK, Kept, Known, LeaksOnlyWhileClosing,
                        OnlyACloseBreaksARequest, Active, Ended
  <1>2. CASE held[t] \in closed /\ Ends(t, "runtime_error")
    BY <1>2, EndsIInv
  <1>3. CASE Ends(t, "connection_error")
    BY <1>3, EndsIInv
  <1>4. QED
    BY <1>1, <1>2, <1>3 DEF Sends

LEMMA AnsweredIInv == ASSUME IInv, NEW t \in Tasks, Answered(t) PROVE IInv'
  <1>1. CASE stage' = [stage EXCEPT ![t] = "token"]
             /\ retried' = [retried EXCEPT ![t] = TRUE]
             /\ UNCHANGED <<owned, session, opened, closed, waiting, held,
                            overlaid, disturbed>>
    <2>1. stage[t] = "sent"
      BY DEF Answered
    <2>2. QED
      BY <1>1, <2>1 DEF IInv, SessionTypeOK, Kept, Known, LeaksOnlyWhileClosing,
                        OnlyACloseBreaksARequest, Active, Ended
  <1>2. CASE Ends(t, "done")
    BY <1>2, EndsIInv
  <1>3. CASE Ends(t, "connection_error")
    BY <1>3, EndsIInv
  <1>4. QED
    BY <1>1, <1>2, <1>3 DEF Answered

LEMMA CloseIInv == ASSUME IInv, NEW c \in Closers, Close(c) PROVE IInv'
  <1> USE NoneIsNoNumber DEF Close, CloseSession
  <1>1. SessionTypeOK'
    BY DEF IInv, SessionTypeOK
  <1>2. Kept' /\ Known'
    BY DEF IInv, SessionTypeOK, Kept, Known, LeaksOnlyWhileClosing
  <1>3. OnlyACloseBreaksARequest'
    BY DEF IInv, SessionTypeOK, Kept, Known, OnlyACloseBreaksARequest
  <1>4. QED
    BY <1>1, <1>2, <1>3 DEF IInv

LEMMA CloseEndsIInv == ASSUME IInv, NEW c \in Closers, CloseEnds(c) PROVE IInv'
  <1> USE NoneIsNoNumber DEF CloseEnds
  <1>1. SessionTypeOK'
    BY DEF IInv, SessionTypeOK
  <1>2. Kept' /\ Known'
    BY DEF IInv, SessionTypeOK, Kept, Known, LeaksOnlyWhileClosing
  <1>3. OnlyACloseBreaksARequest'
    BY DEF IInv, SessionTypeOK, Kept, Known, OnlyACloseBreaksARequest
  <1>4. QED
    BY <1>1, <1>2, <1>3 DEF IInv

LEMMA CloseFailsIInv == ASSUME IInv, NEW c \in Closers, CloseFails(c) PROVE IInv'
  <1> USE DEF CloseFails
  <1>1. SessionTypeOK'
    BY DEF IInv, SessionTypeOK
  <1>2. Kept' /\ Known'
    BY DEF IInv, SessionTypeOK, Kept, Known, LeaksOnlyWhileClosing
  <1>3. OnlyACloseBreaksARequest'
    BY DEF IInv, SessionTypeOK, Kept, Known, OnlyACloseBreaksARequest
  <1>4. QED
    BY <1>1, <1>2, <1>3 DEF IInv

LEMMA SuppliedClosesIInv == ASSUME IInv, SuppliedCloses PROVE IInv'
  <1> USE NoneIsNoNumber DEF SuppliedCloses, CloseSession
  <1>1. SessionTypeOK'
    BY DEF IInv, SessionTypeOK, Kept
  <1>2. Kept' /\ Known'
    BY DEF IInv, SessionTypeOK, Kept, Known, LeaksOnlyWhileClosing
  <1>3. OnlyACloseBreaksARequest'
    BY DEF IInv, SessionTypeOK, Kept, Known, OnlyACloseBreaksARequest
  <1>4. QED
    BY <1>1, <1>2, <1>3 DEF IInv

LEMMA StepIInv == IInv /\ [Next]_vars => IInv'
  <1> SUFFICES ASSUME IInv, [Next]_vars PROVE IInv'
    OBVIOUS
  <1>1. CASE UNCHANGED vars
    BY <1>1 DEF vars, IInv, SessionTypeOK, Kept, Known, LeaksOnlyWhileClosing,
                OnlyACloseBreaksARequest
  <1>2. CASE \E t \in Tasks : Start(t) \/ Sends(t) \/ Answered(t)
    BY <1>2, StartIInv, SendsIInv, AnsweredIInv
  <1>3. CASE \E c \in Closers : Close(c) \/ CloseEnds(c) \/ CloseFails(c)
    BY <1>3, CloseIInv, CloseEndsIInv, CloseFailsIInv
  <1>4. CASE SuppliedCloses
    BY <1>4, SuppliedClosesIInv
  <1>5. QED
    BY <1>1, <1>2, <1>3, <1>4 DEF Next

LEMMA Invariance == Spec => []IInv
  BY InitIInv, StepIInv, PTL DEF Spec

-----------------------------------------------------------------------------
\* Every state of session, requests and closes is well typed, and exactly the
\* requests under way hold a session (client.py:228).
THEOREM SessionTypeCorrect == Spec => []SessionTypeOK
  <1>1. IInv => SessionTypeOK
    BY DEF IInv
  <1>2. QED
    BY <1>1, Invariance, PTL

\* However many requests and closes overlap, the client leaves no session of its
\* own open but those opened while a close was waiting (client.py:201).
THEOREM NoOtherSessionLeaks == Spec => []LeaksOnlyWhileClosing
  <1>1. IInv => LeaksOnlyWhileClosing
    BY DEF IInv, Kept
  <1>2. QED
    BY <1>1, Invariance, PTL

\* A request meets a closed session only if that session was closed after the
\* request began (client.py:228).
THEOREM RequestsStartOnOpenSessions == Spec => []OnlyACloseBreaksARequest
  <1>1. IInv => OnlyACloseBreaksARequest
    BY DEF IInv
  <1>2. QED
    BY <1>1, Invariance, PTL
=============================================================================
