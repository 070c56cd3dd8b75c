--------------------------- MODULE ValveCacheProofs ---------------------------
(***************************************************************************)
(* Theorems about ValveCache, for any callers, valves, sizes of pages and  *)
(* requests, intervals and bounds: what the client keeps of its valves was *)
(* true during the call that kept it, no call goes back behind what was    *)
(* kept when it began, and a listing misses at most as many valves as left *)
(* the account while it read the pages.                                    *)
(***************************************************************************)
EXTENDS ValveCache, SelectionsProofs, SequenceTheorems, FiniteSetTheorems

\* Readings with states between those of the functions low and high.
Between(f, low, high) ==
    /\ Reads!IsReading(f)
    /\ \A v \in DOMAIN f : low[v] <= f[v] /\ f[v] <= high[v]

\* The types that the steps below depend on.
Typed ==
    /\ account \in Seq(Valves)
    /\ status \in [Valves -> Nat]
    /\ stage \in [Tasks -> Resting \cup Busy]
    /\ since \in [Tasks -> [Valves -> Nat]]
    /\ found = [t \in Tasks |-> found[t]]
    /\ before = [t \in Tasks |-> before[t]]

\* What is kept never comes from the future, and what a call holds lies between
\* the states at its beginning and now; what was kept when it began, before.
Ordered ==
    /\ Reads!IsReading(valves)
    /\ \A v \in DOMAIN valves : valves[v] <= status[v]
    /\ \A t \in Tasks : /\ \A v \in Valves : since[t][v] <= status[v]
                        /\ Between(found[t], since[t], status)
                        /\ Reads!IsReading(before[t])
                        /\ \A v \in DOMAIN before[t] : before[t][v] <= since[t][v]

IInv == Typed /\ Ordered

-----------------------------------------------------------------------------
\* Readings that are updated with readings are readings, of both sets of valves.
LEMMA UpdatedReading ==
    ASSUME NEW f, NEW g, Reads!IsReading(f), Reads!IsReading(g)
    PROVE  /\ Reads!IsReading(Reads!Updated(f, g))
           /\ DOMAIN Reads!Updated(f, g) = DOMAIN f \cup DOMAIN g
           /\ \A v \in DOMAIN g : Reads!Updated(f, g)[v] = g[v]
           /\ \A v \in DOMAIN f \ DOMAIN g : Reads!Updated(f, g)[v] = f[v]
  BY DEF Reads!IsReading, Reads!Updated

LEMMA NothingIsReading ==
    Reads!IsReading(Reads!Nothing) /\ DOMAIN Reads!Nothing = {}
  BY DEF Reads!IsReading, Reads!Nothing

LEMMA InitIInv == Init => IInv
  <1> SUFFICES ASSUME Init PROVE IInv
    OBVIOUS
  <1>1. account \in Seq(Valves)
    BY DEF Init, SeqOf
  <1>2. Typed
    BY <1>1 DEF Init, Typed, Resting, Busy
  <1>3. Ordered
    BY NothingIsReading DEF Init, Ordered, Between
  <1>4. QED
    BY <1>2, <1>3 DEF IInv

\* A step that only changes what the tasks are doing, with found as it was or
\* empty for one of them, keeps the order.
LEMMA LocalStep ==
    ASSUME IInv, NEW t \in Tasks, account' = account, status' = status, since' = since,
           stage' \in [Tasks -> Resting \cup Busy],
           before' = before \/ before' = [before EXCEPT ![t] = Reads!Nothing],
           valves' = valves \/ valves' = Reads!Nothing,
           found' = found \/ found' = [found EXCEPT ![t] = Reads!Nothing]
    PROVE  IInv'
  <1>1. Typed'
    BY DEF IInv, Typed
  <1>2. ASSUME NEW s \in Tasks
        PROVE  /\ found'[s] = found[s] \/ found'[s] = Reads!Nothing
               /\ before'[s] = before[s] \/ before'[s] = Reads!Nothing
    BY DEF IInv, Typed
  <1>3. Ordered'
    BY <1>2, NothingIsReading DEF IInv, Ordered, Between
  <1>4. QED
    BY <1>1, <1>3 DEF IInv

\* A call that is made starts from the present.
LEMMA OpenStep ==
    ASSUME IInv, NEW t \in Tasks, NEW S, Opens(t, S), account' = account,
           status' = status, valves' = valves \/ valves' = Reads!Nothing,
           stage' \in [Tasks -> Resting \cup Busy],
           found' = [found EXCEPT ![t] = Reads!Nothing]
    PROVE  IInv'
  <1>1. /\ since' = [since EXCEPT ![t] = status]
        /\ before' = [before EXCEPT ![t] = valves]
    BY DEF Opens
  <1>2. Typed'
    BY <1>1 DEF IInv, Typed
  <1>3. ASSUME NEW s \in Tasks
        PROVE  /\ \A v \in Valves : since'[s][v] <= status[v]
               /\ Between(found'[s], since'[s], status)
               /\ Reads!IsReading(before'[s])
               /\ \A v \in DOMAIN before'[s] : before'[s][v] <= since'[s][v]
    <2>1. CASE s = t
      BY <1>1, <2>1, NothingIsReading DEF IInv, Typed, Ordered, Between
    <2>2. CASE s # t
      BY <1>1, <2>2 DEF IInv, Typed, Ordered
    <2>3. QED
      BY <2>1, <2>2
  <1>4. Ordered'
    BY <1>3, NothingIsReading DEF IInv, Ordered
  <1>5. QED
    BY <1>2, <1>4 DEF IInv

LEMMA RefreshStep ==
    ASSUME IInv, NEW t \in Tasks, NEW rediscover \in BOOLEAN, Refresh(t, rediscover)
    PROVE  IInv'
  <1>1. /\ account' = account /\ status' = status
        /\ valves' = valves \/ valves' = Reads!Nothing
        /\ stage' \in [Tasks -> Resting \cup Busy]
        /\ found' = [found EXCEPT ![t] = Reads!Nothing]
    BY DEF Refresh, UseList, ReadValves, service, IInv, Typed, Resting, Busy
  <1>2. CASE Opens(t, Members)
    BY <1>1, <1>2, OpenStep
  <1>3. CASE Opens(t, Range(vids))
    BY <1>1, <1>3, OpenStep
  <1>4. QED
    BY <1>2, <1>3 DEF Refresh

LEMMA GetValvesStep ==
    ASSUME IInv, NEW t \in Tasks, NEW list \in Lookups, GetValves(t, list)
    PROVE  IInv'
  <1>1. /\ account' = account /\ status' = status /\ valves' = valves
        /\ stage' \in [Tasks -> Resting \cup Busy]
        /\ found' = [found EXCEPT ![t] = Reads!Nothing]
        /\ Opens(t, Range(list))
    BY DEF GetValves, ReadValves, service, client, IInv, Typed, Resting, Busy
  <1>2. QED
    BY <1>1, OpenStep

LEMMA ListPageStep ==
    ASSUME IInv, NEW t \in Tasks, ListPage(t)
    PROVE  IInv'
  <1>1. /\ account' = account /\ status' = status /\ valves' = valves
        /\ stage' \in [Tasks -> Resting \cup Busy]
        /\ found' = found /\ since' = since /\ before' = before
    BY DEF ListPage, Listed, service, client, history, IInv, Typed, Resting, Busy
  <1>2. QED
    BY <1>1, LocalStep

LEMMA EndOfListingStep ==
    ASSUME IInv, NEW t \in Tasks, EndOfListing(t)
    PROVE  IInv'
  <1>1. /\ account' = account /\ status' = status
        /\ valves' = valves \/ valves' = Reads!Nothing
        /\ stage' \in [Tasks -> Resting \cup Busy]
        /\ found' = [found EXCEPT ![t] = Reads!Nothing]
        /\ since' = since /\ before' = before
    BY DEF EndOfListing, UseList, ReadValves, service, history, IInv, Typed, Resting, Busy
  <1>2. QED
    BY <1>1, LocalStep

LEMMA FailsStep ==
    ASSUME IInv, NEW t \in Tasks, Fails(t)
    PROVE  IInv'
  <1>1. /\ account' = account /\ status' = status /\ valves' = valves
        /\ stage' \in [Tasks -> Resting \cup Busy]
        /\ found' = [found EXCEPT ![t] = Reads!Nothing]
        /\ since' = since
        /\ before' = [before EXCEPT ![t] = Reads!Nothing]
    BY DEF Fails, service, client, IInv, Typed, Resting, Busy
  <1>2. QED
    BY <1>1, LocalStep

\* What FloLogic reports of one request is true now.
LEMMA ReadChunkStep ==
    ASSUME IInv, NEW t \in Tasks, ReadChunk(t)
    PROVE  IInv'
  <1>1. PICK rows : /\ rows \subseteq Members
                    /\ found' = [found EXCEPT ![t] =
                                   Reads!Updated(found[t], [v \in rows |-> status[v]])]
    BY DEF ReadChunk
  <1>2. /\ UNCHANGED <<account, status, stage, since, before, valves>>
        /\ found' = [s \in Tasks |-> found'[s]]
    BY <1>1 DEF ReadChunk, service, client, history, IInv, Typed
  <1>3. Typed'
    BY <1>2 DEF IInv, Typed
  <1>4. rows \subseteq Valves
    BY <1>1 DEF IInv, Typed, Members, Range
  <1> DEFINE g == [v \in rows |-> status[v]]
  <1>5. Reads!IsReading(g) /\ DOMAIN g = rows /\ \A v \in rows : g[v] = status[v]
    BY <1>4 DEF IInv, Typed, Reads!IsReading
  <1>6. found'[t] = Reads!Updated(found[t], g) /\ \A s \in Tasks \ {t} : found'[s] = found[s]
    BY <1>1 DEF IInv, Typed
  <1> HIDE DEF g
  <1>7. Between(found'[t], since[t], status)
    <2>1. Between(found[t], since[t], status)
      BY DEF IInv, Ordered
    <2>2. /\ Reads!IsReading(found'[t])
          /\ DOMAIN found'[t] = DOMAIN found[t] \cup rows
          /\ \A v \in rows : found'[t][v] = status[v]
          /\ \A v \in DOMAIN found[t] \ rows : found'[t][v] = found[t][v]
      <3>1. Reads!IsReading(found[t])
        BY <2>1 DEF Between
      <3>2. /\ Reads!IsReading(Reads!Updated(found[t], g))
            /\ DOMAIN Reads!Updated(found[t], g) = DOMAIN found[t] \cup DOMAIN g
            /\ \A v \in DOMAIN g : Reads!Updated(found[t], g)[v] = g[v]
            /\ \A v \in DOMAIN found[t] \ DOMAIN g :
                  Reads!Updated(found[t], g)[v] = found[t][v]
        BY <1>5, <3>1, UpdatedReading, Zenon
      <3>3. QED
        BY <1>5, <1>6, <3>2
    <2>3. \A v \in rows : since[t][v] <= status[v] /\ status[v] <= status[v]
      BY <1>4 DEF IInv, Typed, Ordered
    <2>4. QED
      BY <2>1, <2>2, <2>3 DEF Between
  <1>8. Ordered'
    BY <1>2, <1>6, <1>7 DEF IInv, Ordered
  <1>9. QED
    BY <1>3, <1>8 DEF IInv

LEMMA EndOfReadStep ==
    ASSUME IInv, NEW t \in Tasks, EndOfRead(t)
    PROVE  IInv'
  <1>1. /\ UNCHANGED <<account, status, found, since, before>>
        /\ stage' \in [Tasks -> Resting \cup Busy]
        /\ valves' = found[t] \/ valves' = Reads!Updated(valves, found[t])
    BY DEF EndOfRead, service, history, IInv, Typed, Resting, Busy
  <1>2. Typed'
    BY <1>1 DEF IInv, Typed
  <1>3. /\ Reads!IsReading(found[t]) /\ Reads!IsReading(valves)
        /\ \A v \in DOMAIN found[t] : found[t][v] <= status[v]
        /\ \A v \in DOMAIN valves : valves[v] <= status[v]
    BY DEF IInv, Ordered, Between
  <1>4. Reads!IsReading(valves') /\ \A v \in DOMAIN valves' : valves'[v] <= status[v]
    <2>1. CASE valves' = found[t]
      BY <1>3, <2>1
    <2>2. CASE valves' = Reads!Updated(valves, found[t])
      <3> DEFINE both == Reads!Updated(valves, found[t])
      <3>1. /\ Reads!IsReading(both)
            /\ DOMAIN both = DOMAIN valves \cup DOMAIN found[t]
            /\ \A v \in DOMAIN found[t] : both[v] = found[t][v]
            /\ \A v \in DOMAIN valves \ DOMAIN found[t] : both[v] = valves[v]
        BY <1>3, UpdatedReading, Zenon
      <3> HIDE DEF both
      <3>2. \A v \in DOMAIN both : both[v] <= status[v]
        BY <1>3, <3>1
      <3>3. valves' = both
        BY <2>2 DEF both
      <3>4. QED
        BY <3>1, <3>2, <3>3
    <2>3. QED
      BY <1>1, <2>1, <2>2
  <1>5. Ordered'
    BY <1>1, <1>4 DEF IInv, Ordered
  <1>6. QED
    BY <1>2, <1>5 DEF IInv

\* The account and the clock are not what the order is about.
LEMMA AccountStep ==
    ASSUME IInv, account' \in Seq(Valves),
           UNCHANGED <<status, stage, since, found, before, valves>>
    PROVE  IInv'
  <1>1. Typed'
    BY DEF IInv, Typed
  <1>2. Ordered'
    BY DEF IInv, Ordered
  <1>3. QED
    BY <1>1, <1>2 DEF IInv

LEMMA JoinStep ==
    ASSUME IInv, NEW v \in Valves, NEW i \in 1..(Len(account) + 1), Join(v, i)
    PROVE  IInv'
  <1>1. /\ account' = SubSeq(account, 1, i - 1) \o <<v>> \o SubSeq(account, i, Len(account))
        /\ account \in Seq(Valves)
    BY DEF Join, InsertAt, IInv, Typed
  <1>2. /\ SubSeq(account, 1, i - 1) \in Seq(Valves)
        /\ SubSeq(account, i, Len(account)) \in Seq(Valves)
        /\ <<v>> \in Seq(Valves)
    BY <1>1
  <1>3. account' \in Seq(Valves)
    BY <1>1, <1>2
  <1>4. QED
    BY <1>3, AccountStep DEF Join, client, locals

LEMMA DepartStep ==
    ASSUME IInv, NEW i \in DOMAIN account, Depart(i)
    PROVE  IInv'
  <1>1. /\ account' = SubSeq(account, 1, i - 1) \o SubSeq(account, i + 1, Len(account))
        /\ account \in Seq(Valves)
    BY DEF Depart, RemoveAt, IInv, Typed
  <1>2. /\ SubSeq(account, 1, i - 1) \in Seq(Valves)
        /\ SubSeq(account, i + 1, Len(account)) \in Seq(Valves)
    BY <1>1
  <1>3. account' \in Seq(Valves)
    BY <1>1, <1>2
  <1>4. QED
    BY <1>3, AccountStep DEF Depart, client, locals

\* States only get newer.
LEMMA ChangeStep ==
    ASSUME IInv, NEW v \in Valves, Change(v)
    PROVE  IInv'
  <1>1. /\ UNCHANGED <<account, stage, since, found, before, valves>>
        /\ status' = [status EXCEPT ![v] = status[v] + 1]
    BY DEF Change, client, locals, history
  <1>2. status' \in [Valves -> Nat] /\ \A w \in Valves : status[w] <= status'[w]
    BY <1>1 DEF IInv, Typed
  <1>3. Typed'
    BY <1>1, <1>2 DEF IInv, Typed
  <1>4. Ordered'
    <2>1. \A w \in Valves : status[w] \in Nat /\ status'[w] \in Nat
      BY <1>2 DEF IInv, Typed
    <2>2. \A w \in DOMAIN valves : w \in Valves /\ valves[w] \in Nat /\ valves[w] <= status[w]
      BY DEF IInv, Ordered, Reads!IsReading
    <2>3. \A w \in DOMAIN valves : valves[w] <= status'[w]
      BY <1>2, <2>1, <2>2
    <2>4. ASSUME NEW t \in Tasks
          PROVE  /\ \A w \in Valves : since[t][w] <= status'[w]
                 /\ Between(found[t], since[t], status')
      <3>1. /\ \A w \in Valves : since[t][w] \in Nat /\ since[t][w] <= status[w]
            /\ Between(found[t], since[t], status)
        BY DEF IInv, Typed, Ordered
      <3>2. \A w \in Valves : since[t][w] <= status'[w]
        BY <1>2, <2>1, <3>1
      <3>3. Between(found[t], since[t], status')
        BY <1>2, <2>1, <3>1 DEF Between, Reads!IsReading
      <3>4. QED
        BY <3>2, <3>3
    <2>5. QED
      BY <1>1, <2>3, <2>4 DEF IInv, Ordered
  <1>5. QED
    BY <1>3, <1>4 DEF IInv

LEMMA IInvStep == IInv /\ [Next]_vars => IInv'
  <1> SUFFICES ASSUME IInv, [Next]_vars PROVE IInv'
    OBVIOUS
  <1>1. ASSUME NEW t \in Tasks, NEW rediscover \in BOOLEAN, Refresh(t, rediscover)
        PROVE  IInv'
    BY <1>1, RefreshStep
  <1>2. ASSUME NEW t \in Tasks, NEW list \in Lookups, GetValves(t, list)
        PROVE  IInv'
    BY <1>2, GetValvesStep
  <1>3. ASSUME NEW t \in Tasks, ListPage(t) PROVE IInv'
    BY <1>3, ListPageStep
  <1>4. ASSUME NEW t \in Tasks, EndOfListing(t) PROVE IInv'
    BY <1>4, EndOfListingStep
  <1>5. ASSUME NEW t \in Tasks, ReadChunk(t) PROVE IInv'
    BY <1>5, ReadChunkStep
  <1>6. ASSUME NEW t \in Tasks, EndOfRead(t) PROVE IInv'
    BY <1>6, EndOfReadStep
  <1>7. ASSUME NEW t \in Tasks, Fails(t) PROVE IInv'
    BY <1>7, FailsStep
  <1>8. ASSUME NEW v \in Valves, NEW i \in 1..(Len(account) + 1), Join(v, i) PROVE IInv'
    BY <1>8, JoinStep
  <1>9. ASSUME NEW i \in DOMAIN account, Depart(i) PROVE IInv'
    BY <1>9, DepartStep
  <1>10. ASSUME NEW v \in Valves, Change(v) PROVE IInv'
    BY <1>10, ChangeStep
  <1>11. CASE Tick \/ UNCHANGED vars
    <2>1. UNCHANGED <<account, status, stage, since, found, before, valves>>
      BY <1>11 DEF Tick, vars, service, client, locals, history
    <2>2. QED
      BY <2>1, AccountStep DEF IInv, Typed
  <1>12. QED
    BY <1>1, <1>2, <1>3, <1>4, <1>5, <1>6, <1>7, <1>8, <1>9, <1>10, <1>11 DEF Next

LEMMA Inductive == Spec => []IInv
  BY InitIInv, IInvStep, PTL DEF Spec

-----------------------------------------------------------------------------
\* ReadsGoForward: no call of async_get_valves or async_refresh returns a state
\* older than the one get_valve showed when the call began.
THEOREM OnlyOverlapsTurnBack == Spec => []ReadsGoForward
  <1>1. IInv => ReadsGoForward
    <2> SUFFICES ASSUME IInv, NEW t \in Tasks,
                        NEW v \in DOMAIN found[t] \cap DOMAIN before[t]
                 PROVE  before[t][v] <= found[t][v]
      BY DEF ReadsGoForward
    <2>1. v \in Valves /\ found[t][v] \in Nat /\ before[t][v] \in Nat
      BY DEF IInv, Ordered, Between, Reads!IsReading
    <2>2. since[t][v] \in Nat
      BY <2>1 DEF IInv, Typed
    <2>3. before[t][v] <= since[t][v] /\ since[t][v] <= found[t][v]
      BY DEF IInv, Ordered, Between
    <2>4. QED
      BY <2>1, <2>2, <2>3
  <1>2. QED
    BY <1>1, Inductive, PTL

\* A task that starts or stops being busy.
LEMMA ReadingAfter ==
    ASSUME IInv, NEW t \in Tasks, NEW s, stage' = [stage EXCEPT ![t] = s]
    PROVE  /\ s \in Busy => Reading' = Reading \cup {t}
           /\ s \notin Busy => Reading' = Reading \ {t}
  BY DEF IInv, Typed, Reading

\* What a task found may be what an abstract call ends with.
LEMMA FoundIsTrueSince ==
    ASSUME IInv, NEW t \in Tasks
    PROVE  DOMAIN found[t] \in SUBSET Valves /\ found[t] \in Reads!TrueSince(t, DOMAIN found[t])
  <1>1. /\ found[t] = [v \in DOMAIN found[t] |-> found[t][v]]
        /\ DOMAIN found[t] \subseteq Valves
        /\ \A v \in DOMAIN found[t] : found[t][v] \in Nat
        /\ \A v \in DOMAIN found[t] : since[t][v] <= found[t][v] /\ found[t][v] <= status[v]
    BY DEF IInv, Ordered, Between, Reads!IsReading
  <1>2. \A v \in Valves : since[t][v] \in Nat /\ status[v] \in Nat
    BY DEF IInv, Typed
  <1>3. \A v \in DOMAIN found[t] : found[t][v] \in since[t][v] .. status[v]
    BY <1>1, <1>2
  <1>4. found[t] \in [DOMAIN found[t] -> UNION {since[t][v] .. status[v] : v \in DOMAIN found[t]}]
    BY <1>1, <1>3
  <1>5. QED
    BY <1>1, <1>3, <1>4 DEF Reads!TrueSince

LEMMA StepIsARead == IInv /\ [Next]_vars => [Reads!ReadsNext]_(Reads!readVars)
  <1> SUFFICES ASSUME IInv, [Next]_vars PROVE [Reads!ReadsNext]_(Reads!readVars)
    OBVIOUS
  <1>0. "done" \notin Busy /\ "idle" \notin Busy /\ "reading" \in Busy
    BY DEF Busy
  <1>1. ASSUME NEW t \in Tasks, NEW S, Opens(t, S), status' = status,
               \/ /\ valves' = valves
                  /\ \E s \in Busy : stage' = [stage EXCEPT ![t] = s]
               \/ valves' = Reads!Nothing /\ stage' = [stage EXCEPT ![t] = "done"]
        PROVE  Reads!CallBegins(t)
    <2>1. t \notin Reading /\ since' = [since EXCEPT ![t] = status]
      BY <1>1 DEF Opens, Resting, Busy, Reading
    <2>2. \/ Reading' = Reading \cup {t} /\ valves' = valves
          \/ Reading' = Reading /\ valves' = Reads!Nothing
      <3>1. "done" \notin Busy
        BY DEF Busy
      <3>2. QED
        BY <1>1, <2>1, <3>1, ReadingAfter
    <2>3. QED
      BY <1>1, <2>1, <2>2 DEF Reads!CallBegins
  <1>2. ASSUME NEW t \in Tasks, NEW rediscover \in BOOLEAN, Refresh(t, rediscover)
        PROVE  Reads!CallBegins(t)
    <2>1. /\ status' = status
          /\ \/ /\ valves' = valves
                /\ \E s \in Busy : stage' = [stage EXCEPT ![t] = s]
             \/ valves' = Reads!Nothing /\ stage' = [stage EXCEPT ![t] = "done"]
      BY <1>2 DEF Refresh, UseList, ReadValves, service, Busy
    <2>2. Opens(t, Members) \/ Opens(t, Range(vids))
      BY <1>2 DEF Refresh
    <2>3. QED
      BY <1>1, <2>1, <2>2
  <1>3. ASSUME NEW t \in Tasks, NEW list \in Lookups, GetValves(t, list)
        PROVE  Reads!CallBegins(t)
    <2>1. /\ status' = status /\ valves' = valves
          /\ \E s \in Busy : stage' = [stage EXCEPT ![t] = s]
          /\ Opens(t, Range(list))
      BY <1>3 DEF GetValves, ReadValves, service, client, Busy
    <2>2. QED
      BY <1>1, <2>1
  <1>4. ASSUME NEW t \in Tasks, ListPage(t) \/ ReadChunk(t)
        PROVE  UNCHANGED Reads!readVars
    <2>1. UNCHANGED <<status, valves, since>> /\ Reading' = Reading
      BY <1>4 DEF ListPage, Listed, ReadChunk, service, client, history, Busy, IInv, Typed, Reading
    <2>2. QED
      BY <2>1 DEF Reads!readVars
  <1>5. ASSUME NEW t \in Tasks, EndOfListing(t)
        PROVE  UNCHANGED Reads!readVars \/ Reads!CallEnds(t)
    <2>1. UNCHANGED <<status, since>> /\ t \in Reading
      BY <1>5 DEF EndOfListing, service, history, Busy, Reading
    <2>2. CASE valves' = valves /\ stage' = [stage EXCEPT ![t] = "reading"]
      <3>1. Reading' = Reading \cup {t}
        BY <2>2, <1>0, ReadingAfter
      <3>2. QED
        BY <2>1, <2>2, <3>1 DEF Reads!readVars
    <2>3. CASE valves' = Reads!Nothing /\ stage' = [stage EXCEPT ![t] = "done"]
      <3>1. Reading' = Reading \ {t}
        BY <2>3, <1>0, ReadingAfter
      <3>2. {} \in SUBSET Valves /\ Reads!Nothing \in Reads!TrueSince(t, {})
        BY DEF Reads!TrueSince, Reads!Nothing
      <3>3. QED
        BY <2>1, <2>3, <3>1, <3>2 DEF Reads!CallEnds
    <2>4. QED
      BY <1>5, <2>2, <2>3 DEF EndOfListing, UseList, ReadValves
  <1>6. ASSUME NEW t \in Tasks, EndOfRead(t)
        PROVE  Reads!CallEnds(t)
    <2>1. /\ UNCHANGED <<status, since>> /\ t \in Reading
          /\ stage' = [stage EXCEPT ![t] = "done"]
          /\ valves' = found[t] \/ valves' = Reads!Updated(valves, found[t])
      BY <1>6 DEF EndOfRead, service, history, Busy, Reading
    <2>2. Reading' = Reading \ {t}
      BY <2>1, <1>0, ReadingAfter
    <2>3. QED
      BY <2>1, <2>2, FoundIsTrueSince DEF Reads!CallEnds
  <1>7. ASSUME NEW t \in Tasks, Fails(t)
        PROVE  Reads!CallFails(t)
    <2>1. /\ UNCHANGED <<status, since, valves>> /\ t \in Reading
          /\ stage' = [stage EXCEPT ![t] = "idle"]
      BY <1>7 DEF Fails, service, client, Reading
    <2>2. Reading' = Reading \ {t}
      BY <2>1, <1>0, ReadingAfter
    <2>3. QED
      BY <2>1, <2>2 DEF Reads!CallFails
  <1>8. ASSUME NEW v \in Valves, Change(v)
        PROVE  Reads!ValveChanges(v)
    BY <1>8 DEF Change, Reads!ValveChanges, client, locals, history, Reading
  <1>9. CASE \/ \E v \in Valves : \E i \in 1..(Len(account) + 1) : Join(v, i)
             \/ \E i \in DOMAIN account : Depart(i)
             \/ Tick \/ UNCHANGED vars
    <2>1. UNCHANGED <<status, valves, since, stage>>
      BY <1>9 DEF Join, Depart, Tick, vars, service, client, locals, history
    <2>2. QED
      BY <2>1 DEF Reads!readVars, Reading
  <1>10. QED
    BY <1>2, <1>3, <1>4, <1>5, <1>6, <1>7, <1>8, <1>9 DEF Next, Reads!ReadsNext

\* KeepsWhatWasTrue: the client implements ValveReads, so each state get_valve
\* shows was the state of that valve at some time during the call that kept it.
THEOREM CacheImplementsReads == Spec => KeepsWhatWasTrue
  <1>1. Init => Reads!ReadsInit
    BY DEF Init, Reads!ReadsInit, Busy, Reading
  <1>2. QED
    BY <1>1, StepIsARead, Inductive, PTL DEF Spec, KeepsWhatWasTrue, Reads!ReadsSpec

-----------------------------------------------------------------------------
\* What the account holds and what a listing finds of it.

\* Lists with and without elements of their own.
LEMMA Concatenation ==
    ASSUME NEW R, NEW s \in Seq(R), NEW u \in Seq(R)
    PROVE  /\ s \o u \in Seq(R)
           /\ Range(s \o u) = Range(s) \cup Range(u)
           /\ IsInjective(s) /\ IsInjective(u) /\ Range(s) \cap Range(u) = {}
                 => IsInjective(s \o u)
  <1> DEFINE w == s \o u
  <1>1. /\ w \in Seq(R) /\ Len(w) = Len(s) + Len(u) /\ Len(s) \in Nat /\ Len(u) \in Nat
        /\ DOMAIN s = 1..Len(s) /\ DOMAIN u = 1..Len(u) /\ DOMAIN w = 1..Len(w)
        /\ \A i \in 1..Len(s) : w[i] = s[i]
        /\ \A i \in 1..Len(u) : w[Len(s) + i] = u[i]
    OBVIOUS
  <1> HIDE DEF w
  <1>2. \A i \in DOMAIN w : \/ i \in DOMAIN s /\ w[i] = s[i]
                            \/ /\ i - Len(s) \in DOMAIN u /\ i - Len(s) + Len(s) = i
                               /\ w[i] = u[i - Len(s)]
    <2> SUFFICES ASSUME NEW i \in DOMAIN w, i \notin DOMAIN s
                 PROVE  /\ i - Len(s) \in DOMAIN u /\ i - Len(s) + Len(s) = i
                        /\ w[i] = u[i - Len(s)]
      BY <1>1
    <2>1. i - Len(s) \in 1..Len(u) /\ i = Len(s) + (i - Len(s))
      BY <1>1
    <2>2. QED
      BY <1>1, <2>1
  <1>3. /\ \A i \in DOMAIN s : i \in DOMAIN w
        /\ \A i \in DOMAIN u : Len(s) + i \in DOMAIN w
    BY <1>1
  <1>4. Range(w) = Range(s) \cup Range(u)
    BY <1>1, <1>2, <1>3 DEF Range
  <1>5. ASSUME IsInjective(s), IsInjective(u), Range(s) \cap Range(u) = {}
        PROVE  IsInjective(w)
    <2> SUFFICES ASSUME NEW i \in DOMAIN w, NEW j \in DOMAIN w, w[i] = w[j] PROVE i = j
      BY DEF IsInjective
    <2>1. i \in Int /\ j \in Int /\ Len(s) \in Int
      BY <1>1
    <2>2. \A m \in DOMAIN s, n \in DOMAIN u : s[m] # u[n]
      BY <1>5 DEF Range
    <2>3. QED
      BY <1>2, <1>5, <2>1, <2>2 DEF IsInjective
  <1>6. QED
    BY <1>1, <1>4, <1>5 DEF w

\* The part of a list between two places.
LEMMA Part ==
    ASSUME NEW R, NEW s \in Seq(R), NEW m \in Nat \ {0}, NEW n \in Nat, n <= Len(s)
    PROVE  /\ SubSeq(s, m, n) \in Seq(R)
           /\ \A i \in DOMAIN SubSeq(s, m, n) :
                 /\ i \in Nat /\ i + m - 1 \in DOMAIN s /\ i + m - 1 <= n /\ m <= i + m - 1
                 /\ SubSeq(s, m, n)[i] = s[i + m - 1]
           /\ \A j \in DOMAIN s : m <= j /\ j <= n =>
                 j - m + 1 \in DOMAIN SubSeq(s, m, n) /\ SubSeq(s, m, n)[j - m + 1] = s[j]
  OBVIOUS

LEMMA Split ==
    ASSUME NEW R, NEW s \in Seq(R), NEW m \in Nat, m <= Len(s)
    PROVE  /\ SubSeq(s, 1, m) \in Seq(R) /\ SubSeq(s, m + 1, Len(s)) \in Seq(R)
           /\ Range(s) = Range(SubSeq(s, 1, m)) \cup Range(SubSeq(s, m + 1, Len(s)))
  <1> DEFINE a == SubSeq(s, 1, m)
             b == SubSeq(s, m + 1, Len(s))
  <1>1. /\ a \in Seq(R) /\ DOMAIN a = 1..m /\ \A i \in 1..m : a[i] = s[i]
        /\ b \in Seq(R) /\ DOMAIN b = 1..(Len(s) - m)
        /\ \A i \in 1..(Len(s) - m) : b[i] = s[m + i]
        /\ DOMAIN s = 1..Len(s) /\ Len(s) \in Nat
    OBVIOUS
  <1> HIDE DEF a, b
  <1>2. ASSUME NEW j \in DOMAIN s, j > m PROVE j - m \in DOMAIN b /\ b[j - m] = s[j]
    <2>1. j - m \in 1..(Len(s) - m) /\ m + (j - m) = j
      BY <1>1, <1>2
    <2>2. QED
      BY <1>1, <2>1
  <1>3. \A j \in DOMAIN s : j > m \/ j \in DOMAIN a
    BY <1>1
  <1>4. \A i \in DOMAIN b : m + i \in DOMAIN s
    BY <1>1
  <1>5. \A i \in DOMAIN a : i \in DOMAIN s
    BY <1>1
  <1>6. Range(s) = Range(a) \cup Range(b)
    BY <1>1, <1>2, <1>3, <1>4, <1>5 DEF Range
  <1>7. QED
    BY <1>1, <1>6 DEF a, b

\* There are pages as long as there are rows.
LEMMA Pages ==
    ASSUME NEW n \in Nat, NEW p \in Nat, NEW k \in Nat \ {0}
    PROVE  /\ p * k \in Nat
           /\ p < (n + k - 1) \div k <=> p * k < n
           /\ (p + 1) * k = p * k + k /\ 0 * k = 0 /\ 1 * k = k
           /\ p # 0 => p * k >= k
  OBVIOUS

LEMMA HasNext ==
    ASSUME account \in Seq(Valves), NEW p \in Nat \ {0}
    PROVE  HasNextPage(p) <=> p * PageSize < Len(account)
  <1>1. Len(account) \in Nat /\ (account = <<>> <=> Len(account) = 0)
    OBVIOUS
  <1>2. CASE account = <<>>
    <2>1. p * PageSize >= PageSize /\ PageSize > 0 /\ p * PageSize \in Nat /\ PageSize \in Nat
      BY Pages, CacheAssumption
    <2>2. QED
      BY <1>1, <1>2, <2>1 DEF HasNextPage, LastPage
  <1>3. CASE account # <<>>
    BY <1>1, <1>3, Pages, CacheAssumption DEF HasNextPage, LastPage
  <1>4. QED
    BY <1>2, <1>3

LEMMA AccountFits ==
    ASSUME account \in Seq(Valves), IsInjective(account)
    PROVE  Cardinality(Valves) \in Nat /\ Len(account) <= Cardinality(Valves)
  <1>1. IsFiniteSet(Valves) /\ Len(account) \in Nat
    BY CacheAssumption
  <1>2. Cardinality(1..Len(account)) = Len(account)
    <2>1. 1 \in Int /\ Len(account) \in Int
      BY <1>1
    <2>2. Cardinality(1..Len(account)) = IF 1 > Len(account) THEN 0 ELSE Len(account) - 1 + 1
      BY <2>1, FS_Interval
    <2>3. QED
      BY <1>1, <2>2
  <1>3. account \in Injection(1..Len(account), Valves)
    BY DEF Injection, IsInjective
  <1>4. QED
    BY <1>1, <1>2, <1>3, FS_Injection, FS_CardinalityType

\* The account without the valve of row i.
LEMMA Removal ==
    ASSUME NEW R, NEW s \in Seq(R), NEW i \in DOMAIN s
    PROVE  /\ RemoveAt(s, i) \in Seq(R)
           /\ DOMAIN RemoveAt(s, i) = 1..(Len(s) - 1) /\ Len(RemoveAt(s, i)) = Len(s) - 1
           /\ \A j \in 1..(Len(s) - 1) :
                 RemoveAt(s, i)[j] = IF j < i THEN s[j] ELSE s[j + 1]
  <1> DEFINE a == SubSeq(s, 1, i - 1)
             b == SubSeq(s, i + 1, Len(s))
  <1>1. /\ i \in Nat /\ 1 <= i /\ i <= Len(s) /\ Len(s) \in Nat
    OBVIOUS
  <1>2. /\ a \in Seq(R) /\ Len(a) = i - 1 /\ \A j \in 1..(i - 1) : a[j] = s[j]
        /\ b \in Seq(R) /\ Len(b) = Len(s) - i /\ \A j \in 1..(Len(s) - i) : b[j] = s[i + j]
    BY <1>1
  <1>3. RemoveAt(s, i) = a \o b
    BY DEF RemoveAt
  <1> HIDE DEF a, b
  <1>4. /\ a \o b \in Seq(R) /\ Len(a \o b) = Len(s) - 1
        /\ DOMAIN (a \o b) = 1..(Len(s) - 1)
        /\ \A j \in 1..(i - 1) : (a \o b)[j] = a[j]
        /\ \A j \in 1..(Len(s) - i) : (a \o b)[i - 1 + j] = b[j]
    <2>0. a \in Seq(R) /\ b \in Seq(R) /\ Len(a) \in Nat /\ Len(b) \in Nat
      BY <1>2
    <2>1. Len(a \o b) = Len(s) - 1
      <3>1. Len(a \o b) = Len(a) + Len(b)
        BY <2>0, ConcatProperties
      <3>2. QED
        BY <1>1, <1>2, <3>1
    <2>2. /\ a \o b \in Seq(R)
          /\ \A j \in 1..Len(a) : (a \o b)[j] = a[j]
          /\ \A j \in 1..Len(b) : (a \o b)[Len(a) + j] = b[j]
      BY <2>0, ConcatProperties
    <2> DEFINE d == a \o b
    <2>3. d \in Seq(R) /\ Len(d) = Len(s) - 1 => DOMAIN d = 1..(Len(s) - 1)
      OBVIOUS
    <2>4. QED
      BY <1>2, <2>1, <2>2, <2>3
  <1>5. ASSUME NEW j \in 1..(Len(s) - 1)
        PROVE  (a \o b)[j] = IF j < i THEN s[j] ELSE s[j + 1]
    <2>1. CASE j < i
      <3>1. j \in 1..(i - 1)
        BY <1>1, <2>1
      <3>2. QED
        BY <1>2, <1>4, <2>1, <3>1
    <2>2. CASE ~(j < i)
      <3> DEFINE m == j - (i - 1)
      <3>1. m \in 1..(Len(s) - i) /\ i + m = j + 1 /\ i - 1 + m = j
        BY <1>1, <2>2
      <3> HIDE DEF m
      <3>2. (a \o b)[i - 1 + m] = b[m] /\ b[m] = s[i + m]
        BY <1>2, <1>4, <3>1
      <3>3. QED
        BY <2>2, <3>1, <3>2
    <2>3. QED
      BY <2>1, <2>2
  <1>6. QED
    BY <1>3, <1>4, <1>5

\* The account with another valve, as row i.
Inserted(t, s, i, e) ==
    /\ DOMAIN t = 1..(Len(s) + 1)
    /\ \A j \in 1..(Len(s) + 1) :
          t[j] = IF j < i THEN s[j] ELSE IF j = i THEN e ELSE s[j - 1]

LEMMA Insertion ==
    ASSUME NEW R, NEW s \in Seq(R), NEW i \in 1..(Len(s) + 1), NEW e \in R
    PROVE  Inserted(InsertAt(s, i, e), s, i, e)
  <1> DEFINE a == SubSeq(s, 1, i - 1)
             b == SubSeq(s, i, Len(s))
             c == a \o <<e>>
  <1>1. /\ i \in Nat /\ 1 <= i /\ i <= Len(s) + 1 /\ Len(s) \in Nat
    OBVIOUS
  <1>2. /\ a \in Seq(R) /\ Len(a) = i - 1 /\ \A j \in 1..(i - 1) : a[j] = s[j]
        /\ b \in Seq(R) /\ Len(b) = Len(s) + 1 - i
        /\ \A j \in 1..(Len(s) + 1 - i) : b[j] = s[i + j - 1]
    BY <1>1
  <1>3. InsertAt(s, i, e) = c \o b
    BY DEF InsertAt
  <1> HIDE DEF a, b
  <1>4. c \in Seq(R) /\ Len(c) = i /\ c[i] = e /\ \A j \in 1..(i - 1) : c[j] = a[j]
    BY <1>1, <1>2
  <1> HIDE DEF c
  <1>5. /\ c \o b \in Seq(R) /\ DOMAIN (c \o b) = 1..(Len(s) + 1)
        /\ \A j \in 1..i : (c \o b)[j] = c[j]
        /\ \A j \in 1..(Len(s) + 1 - i) : (c \o b)[i + j] = b[j]
    <2>1. Len(c \o b) = Len(s) + 1
      <3>1. Len(c \o b) = Len(c) + Len(b)
        BY <1>2, <1>4
      <3>2. QED
        BY <1>1, <1>2, <1>4, <3>1
    <2>2. /\ c \o b \in Seq(R)
          /\ \A j \in 1..Len(c) : (c \o b)[j] = c[j]
          /\ \A j \in 1..Len(b) : (c \o b)[Len(c) + j] = b[j]
      BY <1>2, <1>4
    <2> DEFINE d == c \o b
    <2>3. d \in Seq(R) /\ Len(d) = Len(s) + 1 => DOMAIN d = 1..(Len(s) + 1)
      OBVIOUS
    <2>4. QED
      BY <1>2, <1>4, <2>1, <2>2, <2>3
  <1>6. ASSUME NEW j \in 1..(Len(s) + 1)
        PROVE  (c \o b)[j] = IF j < i THEN s[j] ELSE IF j = i THEN e ELSE s[j - 1]
    <2>1. CASE j < i
      <3>1. j \in 1..(i - 1) /\ j <= i
        BY <1>1, <2>1
      <3>2. QED
        BY <1>2, <1>4, <1>5, <2>1, <3>1
    <2>2. CASE j = i
      BY <1>1, <1>4, <1>5, <2>2
    <2>3. CASE j > i
      <3>1. j - i \in 1..(Len(s) + 1 - i) /\ i + (j - i) = j /\ i + (j - i) - 1 = j - 1
        BY <1>1, <2>3
      <3>2. (c \o b)[j] = s[j - 1]
        BY <1>2, <1>5, <3>1
      <3>3. ~(j < i) /\ j # i
        BY <1>1, <2>3
      <3>4. QED
        BY <3>2, <3>3
    <2>4. j < i \/ j = i \/ j > i
      BY <1>1
    <2>5. QED
      BY <2>1, <2>2, <2>3, <2>4
  <1>7. QED
    BY <1>3, <1>5, <1>6 DEF Inserted

-----------------------------------------------------------------------------
\* The types of the rest, and what the account and the clock are bounded by.
Shapes ==
    /\ now \in 0..MaxTime /\ changes \in 0..MaxChanges /\ discoveredAt \in 0..now
    /\ calls \in 0..MaxCalls
    /\ IsInjective(account)
    /\ vids = None \/ vids \in Seq(Valves)
    /\ refreshes \in [Tasks -> BOOLEAN]
    /\ page \in [Tasks -> Nat]
    /\ \A t \in Tasks : page[t] > 1 => (page[t] - 1) * PageSize < Cardinality(Valves)
    /\ listed \in [Tasks -> Seq(Valves)] /\ rest \in [Tasks -> Seq(Valves)]
    /\ owed \in [Tasks -> SUBSET Valves] /\ was \in [Tasks -> SUBSET Valves]
    /\ departed \in [Tasks -> Nat]

\* How many rows of the account the pages read so far have covered.
Passed(t) == (page[t] - 1) * PageSize

\* What the listing has passed by: it is in those rows now and was not read.
Missed(t) ==
    {v \in owed[t] \ Range(listed[t]) :
        \E i \in DOMAIN account : account[i] = v /\ i <= Passed(t)}

Few(S, t) == Cardinality(S) <= departed[t]

\* What a call may miss, in each of its stages: a listing, what moved into the
\* rows it had read; afterwards, what is neither found nor still to be asked for.
Listing(t) ==
    /\ stage[t] \notin {"listing", "listed"} => listed[t] = <<>>
    /\ stage[t] \in Busy => owed[t] \subseteq Members /\ Members \subseteq was[t]
    /\ DOMAIN found[t] \subseteq was[t]
    /\ stage[t] \in {"listing", "listed"} => IsInjective(listed[t])
    /\ stage[t] = "listing" => page[t] # 0 /\ Few(Missed(t), t)
    /\ stage[t] = "listed" => Few(owed[t] \ Range(listed[t]), t)
    /\ stage[t] \in {"reading", "done"} =>
          Few(owed[t] \ (DOMAIN found[t] \cup Range(rest[t])), t)
    /\ stage[t] = "done" => rest[t] = <<>>

LInv == IInv /\ Shapes /\ \A t \in Tasks : Listing(t)

\* A set of valves is not larger than one that it is part of.
LEMMA Fewer ==
    ASSUME NEW S, NEW T, S \subseteq T, T \subseteq Valves, NEW n, Cardinality(T) <= n,
           n \in Nat
    PROVE  Cardinality(S) <= n
  <1>1. IsFiniteSet(T) /\ IsFiniteSet(S)
    BY FS_Subset, CacheAssumption
  <1>2. Cardinality(S) <= Cardinality(T)
    BY <1>1, FS_Subset
  <1>3. Cardinality(S) \in Nat /\ Cardinality(T) \in Nat
    BY <1>1, FS_CardinalityType
  <1>4. QED
    BY <1>2, <1>3

LEMMA InitLInv == Init => LInv
  <1> SUFFICES ASSUME Init PROVE LInv
    OBVIOUS
  <1>1. IInv
    BY InitIInv
  <1>2. Shapes
    <2>1. 0 \in 0..MaxTime /\ 0 \in 0..MaxChanges /\ 0 \in 0..MaxCalls /\ 0 \in 0..0
      BY CacheAssumption
    <2>2. QED
      BY <2>1 DEF Init, Shapes
  <1>3. ASSUME NEW t \in Tasks PROVE Listing(t)
    BY NothingIsReading DEF Init, Listing, Busy
  <1>4. QED
    BY <1>1, <1>2, <1>3 DEF LInv

\* What a step does not touch stays.
LEMMA Unaffected ==
    ASSUME NEW s, Listing(s), account' = account, stage'[s] = stage[s],
           page'[s] = page[s], listed'[s] = listed[s], rest'[s] = rest[s],
           found'[s] = found[s], owed'[s] = owed[s], was'[s] = was[s],
           departed'[s] = departed[s]
    PROVE  Listing(s)'
  BY DEF Listing, Missed, Passed, Few, Members

\* A step of task t leaves the calls of the others alone.
LEMMA OthersStay ==
    ASSUME LInv, NEW t \in Tasks, account' = account,
           stage' = [stage EXCEPT ![t] = stage'[t]],
           page' = [page EXCEPT ![t] = page'[t]],
           listed' = [listed EXCEPT ![t] = listed'[t]],
           rest' = [rest EXCEPT ![t] = rest'[t]],
           found' = [found EXCEPT ![t] = found'[t]],
           owed' = [owed EXCEPT ![t] = owed'[t]],
           was' = [was EXCEPT ![t] = was'[t]],
           departed' = [departed EXCEPT ![t] = departed'[t]],
           NEW s \in Tasks, s # t
    PROVE  Listing(s)'
  <1>1. /\ stage'[s] = stage[s] /\ page'[s] = page[s] /\ listed'[s] = listed[s]
        /\ rest'[s] = rest[s] /\ found'[s] = found[s] /\ owed'[s] = owed[s]
        /\ was'[s] = was[s] /\ departed'[s] = departed[s]
    BY DEF LInv, IInv, Typed, Shapes
  <1>2. QED
    BY <1>1, Unaffected DEF LInv

-----------------------------------------------------------------------------
\* One page: the rows behind those passed, up to the end of the page.
LEMMA PageRows ==
    ASSUME account \in Seq(Valves), IsInjective(account), NEW p \in Nat \ {0}
    PROVE  /\ Rows(p) \in Seq(Valves) /\ IsInjective(Rows(p))
           /\ \A j \in DOMAIN account :
                 (p - 1) * PageSize < j /\ j <= p * PageSize => account[j] \in Range(Rows(p))
  <1> DEFINE m == (p - 1) * PageSize + 1
             e == IF p * PageSize < Len(account) THEN p * PageSize ELSE Len(account)
             r == Rows(p)
  <1>1. /\ p - 1 \in Nat /\ PageSize \in Nat /\ Len(account) \in Nat
        /\ DOMAIN account = 1..Len(account)
    BY CacheAssumption
  <1>2. (p - 1) * PageSize \in Nat /\ p * PageSize \in Nat
    BY <1>1
  <1>3. m \in Nat \ {0} /\ e \in Nat /\ e <= Len(account)
    BY <1>1, <1>2
  <1>4. \A j \in DOMAIN account :
           (p - 1) * PageSize < j /\ j <= p * PageSize => m <= j /\ j <= e
    BY <1>1, <1>2
  <1>5. r = SubSeq(account, m, e)
    BY DEF Rows
  <1> HIDE DEF m, e, r
  <1>6. /\ r \in Seq(Valves)
        /\ \A i \in DOMAIN r : /\ i \in Nat /\ i + m - 1 \in DOMAIN account
                               /\ r[i] = account[i + m - 1]
        /\ \A j \in DOMAIN account : m <= j /\ j <= e =>
              j - m + 1 \in DOMAIN r /\ r[j - m + 1] = account[j]
    BY <1>3, <1>5, Part
  <1>7. IsInjective(r)
    <2> SUFFICES ASSUME NEW i \in DOMAIN r, NEW j \in DOMAIN r, r[i] = r[j] PROVE i = j
      BY DEF IsInjective
    <2>1. i + m - 1 = j + m - 1
      BY <1>6 DEF IsInjective
    <2>2. QED
      BY <1>3, <1>6, <2>1
  <1>8. \A j \in DOMAIN account :
           (p - 1) * PageSize < j /\ j <= p * PageSize => account[j] \in Range(r)
    BY <1>4, <1>6 DEF Range
  <1>9. QED
    BY <1>6, <1>7, <1>8 DEF r

\* The rows that are added: the others of the page are listed already.
LEMMA Added ==
    ASSUME NEW t, account \in Seq(Valves), IsInjective(account), page[t] \in Nat \ {0},
           listed[t] \in Seq(Valves), IsInjective(listed[t])
    PROVE  /\ listed[t] \o NewRows(t) \in Seq(Valves)
           /\ IsInjective(listed[t] \o NewRows(t))
           /\ Range(listed[t] \o NewRows(t)) = Range(listed[t]) \cup Range(Rows(page[t]))
  <1> DEFINE r == Rows(page[t])
             S == Valves \ Range(listed[t])
             u == Kept(r, S)
  <1>1. r \in Seq(Valves) /\ IsInjective(r)
    BY PageRows
  <1> HIDE DEF r
  <1>2. u \in Seq(Valves) /\ HoldsThose(u, r, S)
    BY <1>1, KeptRange
  <1>3. \A i, j \in DOMAIN u : i # j => \E m, n \in DOMAIN r : m # n /\ u[i] = r[m] /\ u[j] = r[n]
    BY <1>1, KeptApart
  <1> HIDE DEF u
  <1>4. IsInjective(u)
    BY <1>1, <1>3 DEF IsInjective
  <1>5. \A m \in DOMAIN r : r[m] \in Valves
    BY <1>1
  <1>6. Range(u) \cap Range(listed[t]) = {}
    BY <1>2 DEF HoldsThose, Range
  <1>7. Range(listed[t]) \cup Range(u) = Range(listed[t]) \cup Range(r)
    BY <1>2, <1>5 DEF HoldsThose, Range
  <1>8. NewRows(t) = u
    BY DEF NewRows, u, r
  <1>9. QED
    BY <1>2, <1>4, <1>6, <1>7, <1>8, Concatenation DEF r

LEMMA ListPageLists ==
    ASSUME LInv, NEW t \in Tasks, ListPage(t), IInv'
    PROVE  LInv'
  <1> DEFINE p == page[t]
             more == HasNextPage(p)
             lists == listed[t] \o NewRows(t)
  <1>1. /\ stage[t] = "listing" /\ p \in Nat \ {0}
        /\ account \in Seq(Valves) /\ IsInjective(account)
        /\ listed[t] \in Seq(Valves) /\ IsInjective(listed[t])
        /\ owed[t] \subseteq Valves /\ departed[t] \in Nat
        /\ owed[t] \subseteq Members /\ Members \subseteq was[t]
        /\ DOMAIN found[t] \subseteq was[t] /\ Cardinality(Missed(t)) <= departed[t]
    BY DEF ListPage, Listed, LInv, IInv, Typed, Shapes, Listing, Busy, Few
  <1>2. /\ listed' = [listed EXCEPT ![t] = lists]
        /\ page' = [page EXCEPT ![t] = IF more THEN p + 1 ELSE 0]
        /\ stage' = [stage EXCEPT ![t] = IF more THEN "listing" ELSE "listed"]
        /\ UNCHANGED <<now, account, status, changes, vids, discoveredAt, calls, refreshes,
                       rest, found, owed, was, departed>>
    BY DEF ListPage, Listed, service, client, history
  <1>3. /\ lists \in Seq(Valves) /\ IsInjective(lists)
        /\ Range(lists) = Range(listed[t]) \cup Range(Rows(p))
    BY <1>1, Added
  <1>4. more <=> p * PageSize < Len(account)
    BY <1>1, HasNext
  <1>5. /\ PageSize \in Nat /\ Len(account) \in Nat /\ DOMAIN account = 1..Len(account)
        /\ p * PageSize \in Nat /\ (p - 1) * PageSize \in Nat /\ p + 1 - 1 = p
        /\ Cardinality(Valves) \in Nat /\ Len(account) <= Cardinality(Valves)
    BY <1>1, CacheAssumption, AccountFits
  <1> HIDE DEF more, lists
  \* What the listing has not read is missed, or in rows behind the page.
  <1>6. \A i \in DOMAIN account :
           i <= p * PageSize /\ account[i] \in owed[t] \ Range(lists)
              => account[i] \in Missed(t)
    <2> SUFFICES ASSUME NEW i \in DOMAIN account, i <= p * PageSize,
                        account[i] \in owed[t] \ Range(lists)
                 PROVE  account[i] \in Missed(t)
      OBVIOUS
    <2>1. account[i] \notin Range(Rows(p)) /\ account[i] \notin Range(listed[t])
      BY <1>3
    <2>2. ~((p - 1) * PageSize < i)
      BY <1>1, <2>1, PageRows
    <2>3. i <= Passed(t)
      BY <1>5, <2>2 DEF Passed
    <2>4. QED
      BY <2>1, <2>3 DEF Missed
  <1>7. Missed(t) \subseteq Valves
    BY <1>1 DEF Missed
  <1>8. Shapes'
    <2>1. page' \in [Tasks -> Nat] /\ listed' \in [Tasks -> Seq(Valves)]
      BY <1>1, <1>2, <1>3 DEF LInv, Shapes
    <2>2. ASSUME NEW s \in Tasks, page'[s] > 1
          PROVE  (page'[s] - 1) * PageSize < Cardinality(Valves)
      <3>1. CASE s # t
        BY <1>2, <2>2, <3>1 DEF LInv, Shapes
      <3>2. CASE s = t
        <4>1. more /\ page'[s] - 1 = p
          BY <1>1, <1>2, <1>5, <2>2, <3>2 DEF LInv, Shapes
        <4>2. QED
          BY <1>4, <1>5, <4>1
      <3>3. QED
        BY <3>1, <3>2
    <2>3. QED
      BY <1>2, <2>1, <2>2 DEF LInv, Shapes
  <1>9. Listing(t)'
    <2>1. /\ listed'[t] = lists /\ page'[t] = (IF more THEN p + 1 ELSE 0)
          /\ stage'[t] = IF more THEN "listing" ELSE "listed"
      BY <1>2 DEF LInv, IInv, Typed, Shapes
    <2>2. CASE more
      <3>1. Missed(t)' \subseteq Missed(t)
        <4>1. Passed(t)' = p * PageSize
          BY <1>1, <1>5, <2>1, <2>2 DEF Passed
        <4>2. QED
          BY <1>2, <1>6, <2>1, <4>1 DEF Missed
      <3>2. Cardinality(Missed(t)') <= departed[t]
        BY <1>1, <1>7, <3>1, Fewer
      <3>3. QED
        BY <1>1, <1>2, <1>3, <2>1, <2>2, <3>2 DEF Listing, Few, Members
    <2>3. CASE ~more
      <3>1. owed[t] \ Range(lists) \subseteq Missed(t)
        <4>1. \A i \in DOMAIN account : i <= p * PageSize
          BY <1>4, <1>5, <2>3
        <4>2. QED
          BY <1>1, <1>6, <4>1 DEF Members, Range
      <3>2. Cardinality(owed[t] \ Range(lists)) <= departed[t]
        BY <1>1, <1>7, <3>1, Fewer
      <3>3. /\ stage'[t] = "listed" /\ found'[t] = found[t] /\ was'[t] = was[t]
            /\ Members' = Members /\ owed'[t] = owed[t] /\ departed'[t] = departed[t]
        BY <1>2, <2>1, <2>3 DEF Members
      <3>4. Few(owed[t] \ Range(listed[t]), t)'
        BY <2>1, <3>2, <3>3 DEF Few
      <3>5. QED
        BY <1>1, <1>3, <2>1, <3>3, <3>4 DEF Listing
    <2>4. QED
      BY <2>2, <2>3
  <1>10. ASSUME NEW s \in Tasks, s # t PROVE Listing(s)'
    <2>1. /\ stage' = [stage EXCEPT ![t] = stage'[t]]
          /\ page' = [page EXCEPT ![t] = page'[t]]
          /\ listed' = [listed EXCEPT ![t] = listed'[t]]
      BY <1>2 DEF LInv, IInv, Typed, Shapes
    <2>2. /\ rest' = [rest EXCEPT ![t] = rest'[t]]
          /\ found' = [found EXCEPT ![t] = found'[t]]
          /\ owed' = [owed EXCEPT ![t] = owed'[t]]
          /\ was' = [was EXCEPT ![t] = was'[t]]
          /\ departed' = [departed EXCEPT ![t] = departed'[t]]
      BY <1>2 DEF LInv, IInv, Typed, Shapes
    <2>3. QED
      BY <1>2, <1>10, <2>1, <2>2, OthersStay
  <1>11. QED
    BY <1>8, <1>9, <1>10 DEF LInv

-----------------------------------------------------------------------------
\* The beginning of a call.
LEMMA CallOpens ==
    ASSUME LInv, NEW t \in Tasks, NEW S, Opens(t, S)
    PROVE  /\ calls' \in 0..MaxCalls
           /\ owed' \in [Tasks -> SUBSET Valves] /\ was' \in [Tasks -> SUBSET Valves]
           /\ departed' \in [Tasks -> Nat]
           /\ owed'[t] = S \cap Members /\ was'[t] = Members /\ departed'[t] = 0
           /\ owed' = [owed EXCEPT ![t] = owed'[t]]
           /\ was' = [was EXCEPT ![t] = was'[t]]
           /\ departed' = [departed EXCEPT ![t] = departed'[t]]
           /\ listed[t] = <<>>
  <1>1. Members \subseteq Valves
    BY DEF LInv, IInv, Typed, Members, Range
  <1>2. calls' \in 0..MaxCalls
    BY CacheAssumption DEF Opens, LInv, Shapes
  <1>3. listed[t] = <<>>
    BY DEF Opens, LInv, Listing, Resting
  <1>4. QED
    BY <1>1, <1>2, <1>3 DEF Opens, LInv, Shapes

\* async_get_valves takes a list; async_refresh needs no request for none.
Takes(t, list) ==
    /\ rest' = [rest EXCEPT ![t] = list]
    /\ found' = [found EXCEPT ![t] = Reads!Nothing]
    /\ \/ stage' = [stage EXCEPT ![t] = "reading"]
       \/ list = <<>> /\ stage' = [stage EXCEPT ![t] = "done"]

LEMMA ListTaken ==
    ASSUME LInv, NEW t \in Tasks, NEW list \in Seq(Valves), Takes(t, list),
           listed'[t] = <<>>, owed'[t] \subseteq Members', Members' \subseteq was'[t],
           Few(owed[t] \ Range(list), t)'
    PROVE  /\ Listing(t)' /\ rest' \in [Tasks -> Seq(Valves)]
           /\ stage' = [stage EXCEPT ![t] = stage'[t]]
           /\ rest' = [rest EXCEPT ![t] = rest'[t]]
           /\ found' = [found EXCEPT ![t] = found'[t]]
  <1>1. /\ rest'[t] = list /\ DOMAIN found'[t] = {}
        /\ stage'[t] = "reading" \/ (list = <<>> /\ stage'[t] = "done")
    BY NothingIsReading DEF Takes, LInv, IInv, Typed, Shapes
  <1>2. Few(owed[t] \ (DOMAIN found[t] \cup Range(rest[t])), t)'
    BY <1>1 DEF Few
  <1>3. Listing(t)'
    BY <1>1, <1>2 DEF Listing
  <1>4. QED
    BY <1>3 DEF Takes, LInv, IInv, Typed, Shapes

\* A call that takes the list of the valves it is to find.
LEMMA CallTakesList ==
    ASSUME LInv, NEW t \in Tasks, NEW list \in Seq(Valves), Takes(t, list),
           Opens(t, Range(list)), refreshes' \in [Tasks -> BOOLEAN],
           UNCHANGED <<now, account, changes, vids, discoveredAt, page, listed>>, IInv'
    PROVE  LInv'
  <1>1. Few(owed[t] \ Range(list), t)'
    <2> DEFINE missing == owed'[t] \ Range(list)
    <2>1. missing = {} /\ departed'[t] = 0
      BY CallOpens
    <2> HIDE DEF missing
    <2>2. Cardinality(missing) = 0
      BY <2>1, FS_EmptySet
    <2>3. Cardinality(missing) <= departed'[t]
      BY <2>1, <2>2
    <2>4. QED
      BY <2>3 DEF Few, missing
  <1>2. listed'[t] = <<>> /\ owed'[t] \subseteq Members' /\ Members' \subseteq was'[t]
    BY CallOpens DEF Members
  <1>3. /\ Listing(t)' /\ rest' \in [Tasks -> Seq(Valves)]
        /\ stage' = [stage EXCEPT ![t] = stage'[t]]
        /\ rest' = [rest EXCEPT ![t] = rest'[t]]
        /\ found' = [found EXCEPT ![t] = found'[t]]
    BY <1>1, <1>2, ListTaken
  <1>4. /\ page' = [page EXCEPT ![t] = page'[t]]
        /\ listed' = [listed EXCEPT ![t] = listed'[t]]
        /\ owed' = [owed EXCEPT ![t] = owed'[t]]
        /\ was' = [was EXCEPT ![t] = was'[t]]
        /\ departed' = [departed EXCEPT ![t] = departed'[t]]
    BY CallOpens DEF LInv, Shapes
  <1>5. ASSUME NEW s \in Tasks, s # t PROVE Listing(s)'
    BY <1>3, <1>4, <1>5, OthersStay
  <1>6. Shapes'
    BY <1>3, CallOpens DEF LInv, Shapes
  <1>7. QED
    BY <1>3, <1>5, <1>6 DEF LInv

\* A call that asks for the list first.
LEMMA CallLists ==
    ASSUME LInv, NEW t \in Tasks, Opens(t, Members), refreshes' \in [Tasks -> BOOLEAN],
           stage' = [stage EXCEPT ![t] = "listing"], page' = [page EXCEPT ![t] = 1],
           found' = [found EXCEPT ![t] = Reads!Nothing],
           UNCHANGED <<now, account, changes, vids, discoveredAt, listed, rest>>, IInv'
    PROVE  LInv'
  <1>1. /\ stage'[t] = "listing" /\ page'[t] = 1 /\ DOMAIN found'[t] = {}
        /\ listed'[t] = <<>> /\ owed'[t] = Members /\ was'[t] = Members
        /\ departed'[t] = 0 /\ Members' = Members
    <2>1. /\ owed'[t] = Members \cap Members /\ was'[t] = Members /\ departed'[t] = 0
          /\ listed'[t] = <<>> /\ Members' = Members
      BY CallOpens DEF Members
    <2>2. stage'[t] = "listing" /\ page'[t] = 1 /\ found'[t] = Reads!Nothing
      BY DEF LInv, IInv, Typed, Shapes
    <2>3. QED
      BY <2>1, <2>2, NothingIsReading
  <1>2. Few(Missed(t), t)'
    <2>1. Passed(t)' = 0 /\ DOMAIN account' \subseteq Nat \ {0}
      <3>1. DOMAIN account' \subseteq Nat \ {0}
        BY DEF LInv, IInv, Typed
      <3>2. PageSize \in Nat
        BY CacheAssumption
      <3>3. QED
        BY <1>1, <3>1, <3>2 DEF Passed
    <2>2. Missed(t)' = {}
      BY <2>1 DEF Missed
    <2>3. QED
      BY <1>1, <2>2, FS_EmptySet DEF Few
  <1>3. Listing(t)'
    BY <1>1, <1>2 DEF Listing, IsInjective
  <1>4. /\ stage' = [stage EXCEPT ![t] = stage'[t]]
        /\ page' = [page EXCEPT ![t] = page'[t]]
        /\ listed' = [listed EXCEPT ![t] = listed'[t]]
        /\ rest' = [rest EXCEPT ![t] = rest'[t]]
        /\ found' = [found EXCEPT ![t] = found'[t]]
    BY DEF LInv, IInv, Typed, Shapes
  <1>5. ASSUME NEW s \in Tasks, s # t PROVE Listing(s)'
    BY <1>4, <1>5, CallOpens, OthersStay
  <1>6. Shapes'
    <2>1. page' \in [Tasks -> Nat]
      BY DEF LInv, Shapes
    <2>2. ASSUME NEW s \in Tasks, page'[s] > 1
          PROVE  (page'[s] - 1) * PageSize < Cardinality(Valves)
      <3>1. s # t
        BY <1>1, <2>2
      <3>2. page'[s] = page[s]
        BY <3>1 DEF LInv, Shapes
      <3>3. QED
        BY <2>2, <3>2 DEF LInv, Shapes
    <2>3. QED
      BY <2>1, <2>2, CallOpens DEF LInv, Shapes
  <1>7. QED
    BY <1>3, <1>5, <1>6 DEF LInv

LEMMA RefreshLists ==
    ASSUME LInv, NEW t \in Tasks, NEW rediscover \in BOOLEAN, Refresh(t, rediscover), IInv'
    PROVE  LInv'
  <1>1. /\ refreshes' \in [Tasks -> BOOLEAN]
        /\ UNCHANGED <<now, account, changes, vids, discoveredAt>>
    BY DEF Refresh, service, LInv, Shapes
  <1>2. CASE NeedsDiscovery(rediscover)
    <2>1. /\ Opens(t, Members) /\ stage' = [stage EXCEPT ![t] = "listing"]
          /\ page' = [page EXCEPT ![t] = 1]
          /\ found' = [found EXCEPT ![t] = Reads!Nothing]
          /\ UNCHANGED <<listed, rest>>
      BY <1>2 DEF Refresh
    <2>2. QED
      BY <1>1, <2>1, CallLists
  <1>3. CASE ~NeedsDiscovery(rediscover)
    <2>1. UseList(t, vids) /\ Opens(t, Range(vids)) /\ UNCHANGED <<page, listed>>
      BY <1>3 DEF Refresh
    <2>2. vids \in Seq(Valves)
      BY <1>3 DEF NeedsDiscovery, LInv, Shapes
    <2>3. Takes(t, vids)
      BY <2>1 DEF UseList, ReadValves, Takes
    <2>4. QED
      BY <1>1, <2>1, <2>2, <2>3, CallTakesList
  <1>4. QED
    BY <1>2, <1>3

LEMMA GetValvesLists ==
    ASSUME LInv, NEW t \in Tasks, NEW list \in Lookups, GetValves(t, list), IInv'
    PROVE  LInv'
  <1>1. /\ refreshes' \in [Tasks -> BOOLEAN] /\ Opens(t, Range(list))
        /\ UNCHANGED <<now, account, changes, vids, discoveredAt, page, listed>>
    BY DEF GetValves, service, client, LInv, Shapes
  <1>2. list \in Seq(Valves)
    BY CacheAssumption
  <1>3. Takes(t, list)
    BY DEF GetValves, ReadValves, Takes
  <1>4. QED
    BY <1>1, <1>2, <1>3, CallTakesList

LEMMA EndOfListingLists ==
    ASSUME LInv, NEW t \in Tasks, EndOfListing(t), IInv'
    PROVE  LInv'
  <1>1. /\ stage[t] = "listed" /\ listed[t] \in Seq(Valves)
        /\ Few(owed[t] \ Range(listed[t]), t)
        /\ owed[t] \subseteq Members /\ Members \subseteq was[t]
    BY DEF EndOfListing, LInv, Shapes, Listing, Busy
  <1>2. /\ UNCHANGED <<now, account, changes, calls, refreshes, page, owed, was, departed>>
        /\ vids' = listed[t] /\ discoveredAt' = now
        /\ listed' = [listed EXCEPT ![t] = <<>>]
    BY DEF EndOfListing, service, history
  <1>3. Takes(t, listed[t])
    BY DEF EndOfListing, UseList, ReadValves, Takes
  <1>4. /\ listed'[t] = <<>> /\ listed' \in [Tasks -> Seq(Valves)]
        /\ listed' = [listed EXCEPT ![t] = listed'[t]]
    BY <1>2 DEF LInv, Shapes
  <1>5. /\ Listing(t)' /\ rest' \in [Tasks -> Seq(Valves)]
        /\ stage' = [stage EXCEPT ![t] = stage'[t]]
        /\ rest' = [rest EXCEPT ![t] = rest'[t]]
        /\ found' = [found EXCEPT ![t] = found'[t]]
    <2>1. owed'[t] \subseteq Members' /\ Members' \subseteq was'[t]
      BY <1>1, <1>2 DEF Members
    <2>2. Few(owed[t] \ Range(listed[t]), t) =>
             Cardinality(owed'[t] \ Range(listed[t])) <= departed'[t]
      BY <1>2 DEF Few
    <2> DEFINE list == listed[t]
    <2>3. list \in Seq(Valves) /\ Takes(t, list)
      BY <1>1, <1>3
    <2> HIDE DEF list
    <2>4. Cardinality(owed'[t] \ Range(list)) <= departed'[t]
      BY <1>1, <2>2 DEF list
    <2>5. QED
      BY <1>4, <2>1, <2>3, <2>4, ListTaken DEF Few
  <1>6. /\ page' = [page EXCEPT ![t] = page'[t]]
        /\ owed' = [owed EXCEPT ![t] = owed'[t]]
        /\ was' = [was EXCEPT ![t] = was'[t]]
        /\ departed' = [departed EXCEPT ![t] = departed'[t]]
    BY <1>2 DEF LInv, Shapes
  <1>7. ASSUME NEW s \in Tasks, s # t PROVE Listing(s)'
    BY <1>2, <1>4, <1>5, <1>6, <1>7, OthersStay
  <1>8. Shapes'
    <2>1. now' \in 0..MaxTime /\ discoveredAt' \in 0..now' /\ vids' \in Seq(Valves)
      BY <1>1, <1>2, CacheAssumption DEF LInv, Shapes
    <2>2. QED
      BY <1>2, <1>4, <1>5, <2>1 DEF LInv, Shapes
  <1>9. QED
    BY <1>5, <1>7, <1>8 DEF LInv

LEMMA ReadChunkLists ==
    ASSUME LInv, NEW t \in Tasks, ReadChunk(t), IInv'
    PROVE  LInv'
  <1> DEFINE n == IF Len(rest[t]) < ChunkSize THEN Len(rest[t]) ELSE ChunkSize
             first == SubSeq(rest[t], 1, n)
             others == SubSeq(rest[t], n + 1, Len(rest[t]))
             rows == Range(first) \cap Members
  <1>1. /\ stage[t] = "reading" /\ rest[t] \in Seq(Valves) /\ owed[t] \subseteq Valves
        /\ owed[t] \subseteq Members /\ Members \subseteq was[t]
        /\ DOMAIN found[t] \subseteq was[t] /\ listed[t] = <<>> /\ departed[t] \in Nat
        /\ Cardinality(owed[t] \ (DOMAIN found[t] \cup Range(rest[t]))) <= departed[t]
    BY DEF ReadChunk, LInv, Shapes, Listing, Busy, Few
  <1>2. /\ found' = [found EXCEPT ![t] = Reads!Updated(found[t], [v \in rows |-> status[v]])]
        /\ rest' = [rest EXCEPT ![t] = others]
        /\ UNCHANGED <<now, account, changes, vids, discoveredAt, calls, stage, refreshes,
                       page, listed, owed, was, departed>>
    BY DEF ReadChunk, service, client, history
  <1>3. n \in Nat /\ n <= Len(rest[t])
    BY <1>1, CacheAssumption
  <1> HIDE DEF n
  <1>4. others \in Seq(Valves) /\ Range(rest[t]) = Range(first) \cup Range(others)
    BY <1>1, <1>3, Split
  <1> HIDE DEF first, others
  <1>5. rest'[t] = others /\ DOMAIN found'[t] = DOMAIN found[t] \cup rows
    <2>1. DOMAIN [v \in rows |-> status[v]] = rows
      OBVIOUS
    <2> DEFINE g == [v \in rows |-> status[v]]
    <2>2. found'[t] = Reads!Updated(found[t], g)
      BY <1>2 DEF LInv, IInv, Typed
    <2> HIDE DEF g
    <2>3. DOMAIN Reads!Updated(found[t], g) = DOMAIN found[t] \cup DOMAIN g
      BY DEF Reads!Updated
    <2>4. QED
      BY <1>2, <2>1, <2>2, <2>3 DEF g, LInv, Shapes
  <1>6. Listing(t)'
    <2>1. owed[t] \ (DOMAIN found'[t] \cup Range(others))
             \subseteq owed[t] \ (DOMAIN found[t] \cup Range(rest[t]))
      BY <1>1, <1>4, <1>5
    <2>2. Cardinality(owed[t] \ (DOMAIN found'[t] \cup Range(others))) <= departed[t]
      BY <1>1, <2>1, Fewer
    <2>3. /\ stage'[t] = "reading" /\ listed'[t] = <<>> /\ owed'[t] = owed[t]
          /\ was'[t] = was[t] /\ departed'[t] = departed[t] /\ Members' = Members
          /\ DOMAIN found'[t] \subseteq was[t]
      BY <1>1, <1>2, <1>5 DEF Members
    <2>4. Few(owed[t] \ (DOMAIN found[t] \cup Range(rest[t])), t)'
      BY <1>5, <2>2, <2>3 DEF Few
    <2>5. QED
      BY <1>1, <2>3, <2>4 DEF Listing
  <1>7. ASSUME NEW s \in Tasks, s # t PROVE Listing(s)'
    <2>1. /\ stage' = [stage EXCEPT ![t] = stage'[t]]
          /\ page' = [page EXCEPT ![t] = page'[t]]
          /\ listed' = [listed EXCEPT ![t] = listed'[t]]
          /\ owed' = [owed EXCEPT ![t] = owed'[t]]
          /\ was' = [was EXCEPT ![t] = was'[t]]
          /\ departed' = [departed EXCEPT ![t] = departed'[t]]
      BY <1>2 DEF LInv, IInv, Typed, Shapes
    <2>2. /\ rest' = [rest EXCEPT ![t] = rest'[t]]
          /\ found' = [found EXCEPT ![t] = found'[t]]
      BY <1>2 DEF LInv, IInv, Typed, Shapes
    <2>3. QED
      BY <1>2, <1>7, <2>1, <2>2, OthersStay
  <1>8. Shapes'
    BY <1>2, <1>4 DEF LInv, Shapes
  <1>9. QED
    BY <1>6, <1>7, <1>8 DEF LInv

LEMMA EndOfReadLists ==
    ASSUME LInv, NEW t \in Tasks, EndOfRead(t), IInv'
    PROVE  LInv'
  <1>1. /\ stage[t] = "reading" /\ rest[t] = <<>> /\ stage' = [stage EXCEPT ![t] = "done"]
        /\ UNCHANGED <<now, account, changes, vids, discoveredAt, calls, refreshes, page,
                       listed, rest, found, owed, was, departed>>
    BY DEF EndOfRead, service, history
  <1>2. Listing(t)'
    <2>1. Listing(t) /\ stage'[t] = "done" /\ "reading" \in Busy
      BY <1>1 DEF LInv, IInv, Typed, Busy
    <2>2. Few(owed[t] \ (DOMAIN found[t] \cup Range(rest[t])), t)'
      BY <1>1, <2>1 DEF Listing, Few
    <2>3. stage'[t] = "done" /\ Members' = Members
      BY <1>1, <2>1 DEF Members
    <2>4. QED
      BY <1>1, <2>1, <2>2, <2>3 DEF Listing
  <1>3. ASSUME NEW s \in Tasks, s # t PROVE Listing(s)'
    <2>1. stage'[s] = stage[s]
      BY <1>1, <1>3 DEF LInv, IInv, Typed
    <2>2. QED
      BY <1>1, <2>1, Unaffected DEF LInv
  <1>4. Shapes'
    BY <1>1 DEF LInv, Shapes
  <1>5. QED
    BY <1>2, <1>3, <1>4 DEF LInv

LEMMA FailsLists ==
    ASSUME LInv, NEW t \in Tasks, Fails(t), IInv'
    PROVE  LInv'
  <1>1. /\ stage' = [stage EXCEPT ![t] = "idle"] /\ page' = [page EXCEPT ![t] = 0]
        /\ listed' = [listed EXCEPT ![t] = <<>>] /\ rest' = [rest EXCEPT ![t] = <<>>]
        /\ found' = [found EXCEPT ![t] = Reads!Nothing]
        /\ owed' = [owed EXCEPT ![t] = {}] /\ was' = [was EXCEPT ![t] = {}]
        /\ departed' = [departed EXCEPT ![t] = 0]
        /\ UNCHANGED <<now, account, changes, vids, discoveredAt, calls, refreshes>>
    BY DEF Fails, service, client
  <1>2. Listing(t)'
    <2>1. stage'[t] = "idle" /\ listed'[t] = <<>> /\ found'[t] = Reads!Nothing
      BY <1>1 DEF LInv, IInv, Typed, Shapes
    <2>2. QED
      BY <2>1, NothingIsReading DEF Listing, Busy
  <1>3. ASSUME NEW s \in Tasks, s # t PROVE Listing(s)'
    <2>1. /\ stage'[s] = stage[s] /\ page'[s] = page[s] /\ listed'[s] = listed[s]
          /\ rest'[s] = rest[s] /\ found'[s] = found[s] /\ owed'[s] = owed[s]
          /\ was'[s] = was[s] /\ departed'[s] = departed[s]
      BY <1>1, <1>3 DEF LInv, IInv, Typed, Shapes
    <2>2. QED
      BY <1>1, <2>1, Unaffected DEF LInv
  <1>4. Shapes'
    BY <1>1 DEF LInv, Shapes
  <1>5. QED
    BY <1>2, <1>3, <1>4 DEF LInv

-----------------------------------------------------------------------------
\* A valve that joins moves rows backwards: none of them into the rows passed.
LEMMA JoinLists ==
    ASSUME LInv, NEW v \in Valves, NEW i \in 1..(Len(account) + 1), Join(v, i), IInv'
    PROVE  LInv'
  <1>1. /\ v \notin Members /\ account' = InsertAt(account, i, v)
        /\ was' = [t \in Tasks |-> IF stage[t] \in Busy THEN was[t] \cup {v} ELSE was[t]]
        /\ changes' \in 0..MaxChanges
        /\ UNCHANGED <<now, vids, discoveredAt, calls, stage, refreshes, page, listed, rest,
                       found, owed, departed>>
    BY CacheAssumption DEF Join, Happens, client, locals, LInv, Shapes
  <1>2. /\ account \in Seq(Valves) /\ IsInjective(account)
        /\ Len(account) \in Nat /\ DOMAIN account = 1..Len(account)
    BY DEF LInv, IInv, Typed, Shapes
  <1>3. /\ DOMAIN account' = 1..(Len(account) + 1)
        /\ \A j \in 1..(Len(account) + 1) :
              account'[j] = IF j < i THEN account[j] ELSE IF j = i THEN v ELSE account[j - 1]
    <2>1. Inserted(InsertAt(account, i, v), account, i, v)
      BY <1>2, Insertion
    <2>2. QED
      BY <1>1, <2>1 DEF Inserted
  \* Each row is the new one, or one that was not further back.
  <1>4. \A j \in DOMAIN account' :
           \/ j = i /\ account'[j] = v
           \/ j < i /\ j \in DOMAIN account /\ account'[j] = account[j]
           \/ j > i /\ j - 1 \in DOMAIN account /\ account'[j] = account[j - 1]
    <2> SUFFICES ASSUME NEW j \in DOMAIN account'
                 PROVE  \/ j = i /\ account'[j] = v
                        \/ j < i /\ j \in DOMAIN account /\ account'[j] = account[j]
                        \/ j > i /\ j - 1 \in DOMAIN account /\ account'[j] = account[j - 1]
      OBVIOUS
    <2>1. j \in Nat /\ i \in Nat /\ 1 <= j /\ j <= Len(account) + 1 /\ 1 <= i
          /\ i <= Len(account) + 1
      BY <1>2, <1>3
    <2>2. CASE j = i
      BY <1>3, <2>2
    <2>3. CASE j < i
      BY <1>2, <1>3, <2>1, <2>3
    <2>4. CASE j > i
      <3>1. j - 1 \in 1..Len(account) /\ ~(j < i) /\ j # i
        BY <1>2, <2>1, <2>4
      <3>2. QED
        BY <1>2, <1>3, <2>4, <3>1
    <2>5. QED
      BY <2>1, <2>2, <2>3, <2>4
  <1>5. /\ i \in DOMAIN account' /\ account'[i] = v
        /\ \A j \in DOMAIN account : \E m \in DOMAIN account' : account'[m] = account[j]
    <2>1. ASSUME NEW j \in DOMAIN account, j < i
          PROVE  j \in DOMAIN account' /\ account'[j] = account[j]
      BY <1>2, <1>3, <2>1
    <2>2. ASSUME NEW j \in DOMAIN account, ~(j < i)
          PROVE  j + 1 \in DOMAIN account' /\ account'[j + 1] = account[j]
      <3>1. j + 1 \in 1..(Len(account) + 1) /\ ~(j + 1 < i) /\ j + 1 # i /\ j + 1 - 1 = j
        BY <1>2, <2>2
      <3>2. QED
        BY <1>3, <3>1
    <2>3. QED
      BY <1>3, <2>1, <2>2
  <1>6. IsInjective(account')
    <2> SUFFICES ASSUME NEW j \in DOMAIN account', NEW m \in DOMAIN account',
                        account'[j] = account'[m]
                 PROVE  j = m
      BY DEF IsInjective
    <2>1. \A k \in DOMAIN account : account[k] # v
      BY <1>1 DEF Members, Range
    <2>2. j \in Int /\ m \in Int /\ i \in Int
      BY <1>2, <1>3
    <2>3. CASE j = i \/ m = i
      BY <1>4, <2>1, <2>2, <2>3
    <2>4. CASE j < i /\ m < i
      BY <1>2, <1>4, <2>2, <2>4 DEF IsInjective
    <2>5. CASE j > i /\ m > i
      <3>1. j - 1 = m - 1
        BY <1>2, <1>4, <2>2, <2>5 DEF IsInjective
      <3>2. QED
        BY <2>2, <3>1
    <2>6. CASE j < i /\ m > i
      <3>1. j = m - 1
        BY <1>2, <1>4, <2>2, <2>6 DEF IsInjective
      <3>2. QED
        BY <2>2, <2>6, <3>1
    <2>7. CASE j > i /\ m < i
      <3>1. j - 1 = m
        BY <1>2, <1>4, <2>2, <2>7 DEF IsInjective
      <3>2. QED
        BY <2>2, <2>7, <3>1
    <2>8. QED
      BY <2>2, <2>3, <2>4, <2>5, <2>6, <2>7
  <1>7. Members' = Members \cup {v}
    BY <1>4, <1>5 DEF Members, Range
  <1>8. Shapes'
    BY <1>1, <1>6 DEF LInv, Shapes
  <1>9. ASSUME NEW s \in Tasks PROVE Listing(s)'
    <2>1. /\ was[s] \subseteq was'[s]
          /\ stage[s] \in Busy => was'[s] = was[s] \cup {v}
      BY <1>1
    <2>2. ASSUME stage[s] = "listing" PROVE Few(Missed(s), s)'
      <3>1. Passed(s) \in Nat /\ Passed(s)' = Passed(s)
        <4>1. page[s] \in Nat \ {0}
          BY <2>2 DEF LInv, Shapes, Listing
        <4>2. QED
          BY <1>1, <4>1, CacheAssumption DEF Passed
      <3>2. owed[s] \subseteq Members /\ owed[s] \subseteq Valves
        BY <2>2 DEF LInv, Shapes, Listing, Busy
      <3>3. Missed(s)' \subseteq Missed(s)
        <4> SUFFICES ASSUME NEW w \in owed[s] \ Range(listed[s]), NEW j \in DOMAIN account',
                            account'[j] = w, j <= Passed(s)
                     PROVE  \E k \in DOMAIN account : account[k] = w /\ k <= Passed(s)
          BY <1>1, <3>1 DEF Missed
        <4>1. w # v /\ j \in Int
          BY <1>1, <1>2, <1>3, <3>2
        <4>2. j < i \/ j > i
          BY <1>4, <4>1
        <4>3. CASE j < i
          BY <1>4, <4>1, <4>3
        <4>4. CASE j > i
          <5>1. j - 1 \in DOMAIN account /\ account[j - 1] = w
            BY <1>4, <4>1, <4>4
          <5>2. j - 1 <= Passed(s)
            BY <3>1, <4>1
          <5>3. QED
            BY <5>1, <5>2
        <4>5. QED
          BY <4>2, <4>3, <4>4
      <3>4. Missed(s) \subseteq Valves /\ departed[s] \in Nat
            /\ Cardinality(Missed(s)) <= departed[s]
        BY <2>2, <3>2 DEF LInv, Shapes, Listing, Few, Missed
      <3>5. Cardinality(Missed(s)') <= departed[s]
        BY <3>3, <3>4, Fewer
      <3>6. QED
        BY <1>1, <3>5 DEF Few
    <2>3. /\ stage'[s] = stage[s] /\ listed'[s] = listed[s] /\ page'[s] = page[s]
          /\ rest'[s] = rest[s] /\ found'[s] = found[s] /\ owed'[s] = owed[s]
          /\ departed'[s] = departed[s]
      BY <1>1
    <2>4. Listing(s)
      BY DEF LInv
    <2>5. QED
      BY <1>7, <2>1, <2>2, <2>3, <2>4 DEF Listing, Few
  <1>10. QED
    BY <1>8, <1>9 DEF LInv

\* A valve that leaves moves one row into those passed, or none.
LEMMA DepartLists ==
    ASSUME LInv, NEW i \in DOMAIN account, Depart(i), IInv'
    PROVE  LInv'
  <1> DEFINE n == Len(account)
             gone == account[i]
  <1>1. /\ account' = RemoveAt(account, i)
        /\ owed' = [t \in Tasks |-> IF stage[t] \in Busy THEN owed[t] \ {gone} ELSE owed[t]]
        /\ departed' = [t \in Tasks |->
                           IF stage[t] = "listing" THEN departed[t] + 1 ELSE departed[t]]
        /\ changes' \in 0..MaxChanges
        /\ UNCHANGED <<now, vids, discoveredAt, calls, stage, refreshes, page, listed, rest,
                       found, was>>
    BY CacheAssumption DEF Depart, Happens, client, locals, LInv, Shapes
  <1>2. /\ account \in Seq(Valves) /\ IsInjective(account)
        /\ n \in Nat /\ DOMAIN account = 1..n /\ i \in Nat
    BY DEF LInv, IInv, Typed, Shapes
  <1>3. /\ DOMAIN account' = 1..(n - 1)
        /\ \A j \in 1..(n - 1) : account'[j] = IF j < i THEN account[j] ELSE account[j + 1]
    <2> DEFINE shorter == RemoveAt(account, i)
    <2>1. /\ DOMAIN shorter = 1..(n - 1)
          /\ \A j \in 1..(n - 1) : shorter[j] = IF j < i THEN account[j] ELSE account[j + 1]
      BY <1>2, Removal
    <2> HIDE DEF shorter
    <2>2. account' = shorter
      BY <1>1 DEF shorter
    <2>3. QED
      BY <2>1, <2>2
  <1> HIDE DEF n, gone
  \* Each row is one of the earlier ones, that was here or one row further back.
  <1>4. \A j \in DOMAIN account' :
           \/ j < i /\ j \in DOMAIN account /\ account'[j] = account[j]
           \/ ~(j < i) /\ j + 1 \in DOMAIN account /\ account'[j] = account[j + 1]
    BY <1>2, <1>3
  <1>5. \A j \in DOMAIN account : j # i => \E m \in DOMAIN account' : account'[m] = account[j]
    <2> SUFFICES ASSUME NEW j \in DOMAIN account, j # i
                 PROVE  \E m \in DOMAIN account' : account'[m] = account[j]
      OBVIOUS
    <2>1. CASE j < i
      BY <1>2, <1>3, <2>1
    <2>2. CASE j > i
      <3>1. j - 1 \in 1..(n - 1) /\ ~(j - 1 < i) /\ j - 1 + 1 = j
        BY <1>2, <2>2
      <3>2. QED
        BY <1>3, <3>1
    <2>3. QED
      BY <1>2, <2>1, <2>2
  <1>6. IsInjective(account')
    <2> SUFFICES ASSUME NEW j \in DOMAIN account', NEW m \in DOMAIN account',
                        account'[j] = account'[m]
                 PROVE  j = m
      BY DEF IsInjective
    <2>1. j \in Int /\ m \in Int
      BY <1>3
    <2>2. QED
      BY <1>2, <1>4, <2>1 DEF IsInjective
  <1>7. Members' \subseteq Members /\ Members \ {gone} \subseteq Members'
    <2>1. Members' \subseteq Members
      BY <1>4 DEF Members, Range
    <2>2. Members \ {gone} \subseteq Members'
      BY <1>5 DEF Members, Range, gone
    <2>3. QED
      BY <2>1, <2>2
  <1>8. Shapes'
    <2>1. owed' \in [Tasks -> SUBSET Valves] /\ departed' \in [Tasks -> Nat]
      BY <1>1 DEF LInv, Shapes
    <2>2. QED
      BY <1>1, <1>6, <2>1 DEF LInv, Shapes
  <1>9. ASSUME NEW s \in Tasks PROVE Listing(s)'
    <2>1. /\ stage'[s] = stage[s] /\ listed'[s] = listed[s] /\ page'[s] = page[s]
          /\ rest'[s] = rest[s] /\ found'[s] = found[s] /\ was'[s] = was[s]
          /\ owed'[s] = (IF stage[s] \in Busy THEN owed[s] \ {gone} ELSE owed[s])
          /\ departed'[s] = IF stage[s] = "listing" THEN departed[s] + 1 ELSE departed[s]
      BY <1>1
    <2>2. Listing(s) /\ owed[s] \subseteq Valves /\ departed[s] \in Nat
      BY DEF LInv, Shapes
    <2>3. ASSUME stage[s] = "listing" PROVE Few(Missed(s), s)'
      <3> DEFINE next == account[Passed(s) + 1]
      <3>1. Passed(s) \in Nat /\ Passed(s)' = Passed(s)
        <4>1. page[s] \in Nat \ {0}
          BY <2>3 DEF LInv, Shapes, Listing
        <4>2. QED
          BY <1>1, <4>1, CacheAssumption DEF Passed
      <3>2. Missed(s)' \subseteq Missed(s) \cup {next}
        <4> SUFFICES ASSUME NEW w \in owed[s] \ Range(listed[s]), NEW j \in DOMAIN account',
                            account'[j] = w, j <= Passed(s), w # next
                     PROVE  \E k \in DOMAIN account : account[k] = w /\ k <= Passed(s)
          BY <2>1, <3>1 DEF Missed
        <4>1. j \in Int
          BY <1>3
        <4>2. CASE j < i
          BY <1>4, <4>1, <4>2
        <4>3. CASE ~(j < i)
          <5>1. j + 1 \in DOMAIN account /\ account[j + 1] = w
            BY <1>4, <4>1, <4>3
          <5>2. j # Passed(s)
            BY <5>1
          <5>3. j + 1 <= Passed(s)
            BY <3>1, <4>1, <5>2
          <5>4. QED
            BY <5>1, <5>3
        <4>4. QED
          BY <4>2, <4>3
      <3> HIDE DEF next
      <3>3. Missed(s) \subseteq Valves /\ Cardinality(Missed(s)) <= departed[s]
        BY <2>2, <2>3 DEF Listing, Few, Missed
      <3>4. IsFiniteSet(Missed(s)) /\ Cardinality(Missed(s)) \in Nat
        BY <3>3, CacheAssumption, FS_Subset, FS_CardinalityType
      <3>5. /\ IsFiniteSet(Missed(s) \cup {next})
            /\ Cardinality(Missed(s) \cup {next}) \in Nat
            /\ Cardinality(Missed(s) \cup {next}) <= departed[s] + 1
        <4>1. /\ IsFiniteSet(Missed(s) \cup {next})
              /\ Cardinality(Missed(s) \cup {next}) =
                    IF next \in Missed(s) THEN Cardinality(Missed(s))
                    ELSE Cardinality(Missed(s)) + 1
          BY <3>4, FS_AddElement
        <4>2. QED
          BY <2>2, <3>3, <3>4, <4>1
      <3>6. /\ Cardinality(Missed(s)') \in Nat
            /\ Cardinality(Missed(s)') <= Cardinality(Missed(s) \cup {next})
        BY <3>2, <3>5, FS_Subset, FS_CardinalityType
      <3>7. Cardinality(Missed(s)') <= departed[s] + 1
        BY <2>2, <3>5, <3>6
      <3>8. QED
        BY <2>1, <2>3, <3>7 DEF Few
    <2>4. ASSUME stage[s] = "listed" PROVE Few(owed[s] \ Range(listed[s]), s)'
      <3>1. Cardinality(owed[s] \ Range(listed[s])) <= departed[s]
        BY <2>2, <2>4 DEF Listing, Few
      <3>2. owed'[s] \subseteq owed[s]
        BY <2>1
      <3>3. Cardinality(owed'[s] \ Range(listed[s])) <= departed[s]
        BY <2>2, <3>1, <3>2, Fewer
      <3>4. QED
        BY <2>1, <2>4, <3>3 DEF Few
    <2>5. ASSUME stage[s] \in {"reading", "done"}
          PROVE  Few(owed[s] \ (DOMAIN found[s] \cup Range(rest[s])), s)'
      <3>1. Cardinality(owed[s] \ (DOMAIN found[s] \cup Range(rest[s]))) <= departed[s]
        BY <2>2, <2>5 DEF Listing, Few
      <3>2. owed'[s] \subseteq owed[s]
        BY <2>1
      <3>3. Cardinality(owed'[s] \ (DOMAIN found[s] \cup Range(rest[s]))) <= departed[s]
        BY <2>2, <3>1, <3>2, Fewer
      <3>4. QED
        BY <2>1, <2>5, <3>3 DEF Few
    <2>6. stage[s] \in Busy => owed'[s] \subseteq Members' /\ Members' \subseteq was'[s]
      BY <1>7, <2>1, <2>2 DEF Listing
    <2>7. stage[s] = "listing" => page[s] # 0
      BY <2>2 DEF Listing
    <2>8. /\ stage[s] \notin {"listing", "listed"} => listed[s] = <<>>
          /\ DOMAIN found[s] \subseteq was[s]
          /\ stage[s] \in {"listing", "listed"} => IsInjective(listed[s])
          /\ stage[s] = "done" => rest[s] = <<>>
      BY <2>2 DEF Listing
    <2>9. QED
      BY <2>1, <2>3, <2>4, <2>5, <2>6, <2>7, <2>8 DEF Listing
  <1>10. QED
    BY <1>8, <1>9 DEF LInv

\* The clock and the states of the valves are not what a listing is about.
LEMMA ElsewhereLists ==
    ASSUME LInv, IInv', now' \in 0..MaxTime, now <= now', changes' \in 0..MaxChanges,
           UNCHANGED <<account, client, locals, owed, was, departed>>
    PROVE  LInv'
  <1>1. UNCHANGED <<vids, discoveredAt, calls, stage, refreshes, page, listed, rest, found>>
    BY DEF client, locals
  <1>2. ASSUME NEW s \in Tasks PROVE Listing(s)'
    BY <1>1, Unaffected DEF LInv
  <1>3. Shapes'
    <2>1. discoveredAt' \in 0..now'
      BY <1>1, CacheAssumption DEF LInv, Shapes
    <2>2. QED
      BY <1>1, <2>1 DEF LInv, Shapes
  <1>4. QED
    BY <1>2, <1>3 DEF LInv

LEMMA LInvStep == LInv /\ [Next]_vars => LInv'
  <1> SUFFICES ASSUME LInv, [Next]_vars PROVE LInv'
    OBVIOUS
  <1>1. IInv'
    BY IInvStep DEF LInv
  <1>2. ASSUME NEW t \in Tasks, NEW rediscover \in BOOLEAN, Refresh(t, rediscover)
        PROVE  LInv'
    BY <1>1, <1>2, RefreshLists
  <1>3. ASSUME NEW t \in Tasks, NEW list \in Lookups, GetValves(t, list)
        PROVE  LInv'
    BY <1>1, <1>3, GetValvesLists
  <1>4. ASSUME NEW t \in Tasks, ListPage(t) PROVE LInv'
    BY <1>1, <1>4, ListPageLists
  <1>5. ASSUME NEW t \in Tasks, EndOfListing(t) PROVE LInv'
    BY <1>1, <1>5, EndOfListingLists
  <1>6. ASSUME NEW t \in Tasks, ReadChunk(t) PROVE LInv'
    BY <1>1, <1>6, ReadChunkLists
  <1>7. ASSUME NEW t \in Tasks, EndOfRead(t) PROVE LInv'
    BY <1>1, <1>7, EndOfReadLists
  <1>8. ASSUME NEW t \in Tasks, Fails(t) PROVE LInv'
    BY <1>1, <1>8, FailsLists
  <1>9. ASSUME NEW v \in Valves, NEW i \in 1..(Len(account) + 1), Join(v, i) PROVE LInv'
    BY <1>1, <1>9, JoinLists
  <1>10. ASSUME NEW i \in DOMAIN account, Depart(i) PROVE LInv'
    BY <1>1, <1>10, DepartLists
  <1>11. now \in 0..MaxTime /\ MaxTime \in Nat /\ changes \in 0..MaxChanges /\ MaxChanges \in Nat
    BY CacheAssumption DEF LInv, Shapes
  <1>12. ASSUME NEW v \in Valves, Change(v) PROVE LInv'
    <2>1. /\ changes' \in 0..MaxChanges /\ now' = now
          /\ UNCHANGED <<account, client, locals, owed, was, departed>>
      BY <1>11, <1>12 DEF Change, Happens, history
    <2>2. QED
      BY <1>1, <1>11, <2>1, ElsewhereLists
  <1>13. CASE Tick
    <2>1. /\ now' \in 0..MaxTime /\ now <= now' /\ changes' = changes
          /\ UNCHANGED <<account, client, locals, owed, was, departed>>
      BY <1>11, <1>13 DEF Tick, service, history
    <2>2. QED
      BY <1>1, <1>11, <2>1, ElsewhereLists
  <1>14. CASE UNCHANGED vars
    <2>1. /\ now' = now /\ changes' = changes
          /\ UNCHANGED <<account, client, locals, owed, was, departed>>
      BY <1>14 DEF vars, service, history
    <2>2. QED
      BY <1>1, <1>11, <2>1, ElsewhereLists
  <1>15. QED
    BY <1>2, <1>3, <1>4, <1>5, <1>6, <1>7, <1>8, <1>9, <1>10, <1>12, <1>13, <1>14
       DEF Next

LEMMA ListingInductive == Spec => []LInv
  BY InitLInv, LInvStep, PTL DEF Spec

\* CacheTypeOK: the types, the clock and the counters; async_list_vids never asks
\* for a page beyond those that the valves there are could fill.
THEOREM CacheTypeCorrect == Spec => []CacheTypeOK
  <1>1. LInv => CacheTypeOK
    BY DEF LInv, IInv, Typed, Ordered, Between, Shapes, CacheTypeOK
  <1>2. QED
    BY <1>1, ListingInductive, PTL

\* ListingMissesOnlyDepartures: async_list_vids returns each VID once, and of the
\* valves that stay in the account it misses at most one for each valve that
\* left it meanwhile, whichever row that was and however the pages fell.
THEOREM DeparturesHideAtMostOneEach == Spec => []ListingMissesOnlyDepartures
  <1>1. LInv => ListingMissesOnlyDepartures
    BY DEF LInv, Listing, Few, ListingMissesOnlyDepartures
  <1>2. QED
    BY <1>1, ListingInductive, PTL

\* ReturnsTheAccount: a call returns valves that were in the account during the
\* call, and all that stayed in it and that it was to find, but for those its
\* listing missed.
THEOREM CallsReturnTheAccount == Spec => []ReturnsTheAccount
  <1>1. LInv => ReturnsTheAccount
    <2> SUFFICES ASSUME LInv, NEW t \in Tasks, stage[t] = "done"
                 PROVE  /\ DOMAIN found[t] \subseteq was[t]
                        /\ Cardinality(owed[t] \ DOMAIN found[t]) <= departed[t]
      BY DEF ReturnsTheAccount
    <2>1. /\ DOMAIN found[t] \subseteq was[t] /\ rest[t] = <<>>
          /\ Cardinality(owed[t] \ (DOMAIN found[t] \cup Range(rest[t]))) <= departed[t]
      BY DEF LInv, Listing, Few
    <2>2. Range(<<>>) = {}
      BY DEF Range
    <2>3. DOMAIN found[t] \cup Range(rest[t]) = DOMAIN found[t]
      BY <2>1, <2>2
    <2>4. QED
      BY <2>1, <2>3
  <1>2. QED
    BY <1>1, ListingInductive, PTL
=============================================================================
