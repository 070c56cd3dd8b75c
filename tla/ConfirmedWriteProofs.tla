-------------------------- MODULE ConfirmedWriteProofs --------------------------
(***************************************************************************)
(* Theorems about ConfirmedWrite, for any commands, valves, chunks,        *)
(* attempts and times: what the return of a confirmed command says of its  *)
(* valves and of the cache, when it fails at the earliest, and that its    *)
(* attempts share its timeout.  The last counts requests, how many a set   *)
(* of valves takes and how long they may, and has an invariant of its own. *)
(***************************************************************************)
EXTENDS ConfirmedWrite, FiniteSetTheorems, TLAPS

\* The part of the timeout that remains after k attempts.
Left(k) == (Attempts - k) * Share

\* Each attempt writes once to each of its valves, and holds at most readings of
\* the pending ones.
Counted(c) ==
    /\ stage[c] = "new" => attempt[c] = 0 /\ vids[c] = {}
    /\ stage[c] \in Active => attempt[c] \in 1 .. Attempts
    /\ \A v \in Valves :
          /\ flight[c][v] <= attempt[c]
          /\ stage[c] = "putting" /\ v \in rest[c] => flight[c][v] < attempt[c]
    /\ DOMAIN found[c] \subseteq pending[c]

\* Attempt k starts no earlier than k - 1 shares after the command, and ends no
\* earlier than k shares after it, or at the deadline.
Timely(c) ==
    /\ stage[c] = "putting" => now + Left(attempt[c] - 1) >= deadline[c]
    /\ stage[c] \in {"sleeping", "reading"} =>
          until[c] = deadline[c] \/ until[c] + Left(attempt[c]) >= deadline[c]
    /\ stage[c] = "command_error" => now >= deadline[c] /\ pending[c] # {}

\* A valve that is no longer pending was seen at the target.
Observed(c) ==
    /\ vids[c] \ pending[c] \subseteq seen[c]
    /\ \A v \in DOMAIN found[c] : Reflects(found[c][v], target[c]) => v \in seen[c]
    /\ stage[c] = "done" /\ confirm[c] => pending[c] = {}

\* ... and is cached at the target, unless another command reads it.
Cached(c) ==
    \A v \in vids[c] \ pending[c] :
        \/ \E d \in Commands \ {c} : v \in vids[d]
        \/ v \in DOMAIN valves /\ Reflects(valves[v], target[c])

IInv ==
    /\ WriteTypeOK
    /\ \A c \in Commands : Counted(c) /\ Timely(c) /\ Observed(c) /\ Cached(c)

-----------------------------------------------------------------------------
\* Facts about the operators of the module.
LEMMA Constants ==
    /\ ChunkSize \in Nat /\ Attempts \in Nat /\ Attempts >= 1
    /\ Share \in Nat /\ Poll \in Nat /\ RequestTime \in Nat
    /\ MaxStart \in Nat /\ MaxTime \in Nat /\ MaxTrips \in Nat
  BY CommandAssumption, ClockAssumption

LEMMA Shares ==
    /\ Left(Attempts) = 0
    /\ CommandTimeout \in Nat /\ Left(0) = CommandTimeout
    /\ \A k \in 1 .. Attempts : Left(k) \in Nat /\ Left(k - 1) = Left(k) + Share
  <1>1. Attempts \in Nat /\ Share \in Nat
    BY Constants
  <1>2. \A m \in Nat : m * Share \in Nat /\ (m + 1) * Share = m * Share + Share
    BY <1>1
  <1>3. ASSUME NEW k \in 1 .. Attempts
        PROVE  Left(k) \in Nat /\ Left(k - 1) = Left(k) + Share
    <2>1. Attempts - k \in Nat /\ Attempts - (k - 1) = (Attempts - k) + 1
      BY <1>1
    <2>2. QED
      BY <1>2, <2>1 DEF Left
  <1>4. Left(Attempts) = 0
    <2>1. Attempts - Attempts = 0 /\ 0 * Share = 0
      BY <1>1
    <2>2. QED
      BY <2>1 DEF Left
  <1>5. CommandTimeout \in Nat /\ Left(0) = CommandTimeout
    BY <1>1, <1>2 DEF Left, CommandTimeout
  <1>6. QED
    BY <1>3, <1>4, <1>5

LEMMA NothingIsReading == IsReading(Nothing) /\ DOMAIN Nothing = {}
  BY DEF IsReading, Nothing

LEMMA UpdatedReading ==
    ASSUME NEW f, NEW g, IsReading(f), IsReading(g)
    PROVE  /\ IsReading(Updated(f, g))
           /\ DOMAIN Updated(f, g) = DOMAIN f \cup DOMAIN g
           /\ \A v \in DOMAIN g : Updated(f, g)[v] = g[v]
           /\ \A v \in DOMAIN f \ DOMAIN g : Updated(f, g)[v] = f[v]
  BY DEF IsReading, Updated

LEMMA TakenUpState ==
    ASSUME NEW s \in States, NEW aim \in Targets, NEW t \in TakenUp(s, aim)
    PROVE  t \in States
  <1>1. CASE aim \in Rates
    BY <1>1 DEF TakenUp, States
  <1>2. CASE aim \notin Rates
    <2>1. aim \in SettableModes
      BY <1>2, CommandAssumption DEF Targets
    <2>2. {aim} \in Words /\ {"AWAY"} \in Words /\ {"HOME", "DELAY_AWAY"} \in Words
      BY <2>1 DEF SettableModes, Words, Bits, KnownFlags
    <2>3. QED
      BY <1>2, <2>2 DEF TakenUp, States
  <1>3. QED
    BY <1>1, <1>2

LEMMA NapIsNat ==
    ASSUME now \in Nat, NEW end \in Nat
    PROVE  Nap(end) \in Nat
  BY Constants DEF Nap

\* A command whose variables a step leaves alone keeps what is known of it.
LEMMA Others ==
    ASSUME IInv, NEW d \in Commands, now' \in Nat, now <= now',
           stage'[d] = stage[d], attempt'[d] = attempt[d], pending'[d] = pending[d],
           until'[d] = until[d], found'[d] = found[d], rest'[d] = rest[d],
           seen'[d] = seen[d], vids'[d] = vids[d], deadline'[d] = deadline[d],
           target'[d] = target[d], confirm'[d] = confirm[d],
           \A v \in Valves : flight'[d][v] \in Nat /\ flight'[d][v] <= flight[d][v]
    PROVE  Counted(d)' /\ Timely(d)' /\ Observed(d)'
  <1>1. now \in Nat /\ attempt[d] \in Nat /\ deadline[d] \in Nat /\ until[d] \in Nat
    BY Constants DEF IInv, WriteTypeOK
  <1>2. \A v \in Valves : flight[d][v] \in Nat
    BY Constants DEF IInv, WriteTypeOK
  <1>3. Counted(d)'
    BY <1>1, <1>2 DEF IInv, Counted
  <1>4. Timely(d)'
    <2>1. stage[d] = "putting" => Left(attempt[d] - 1) \in Nat
      BY Shares, Constants DEF IInv, Counted, Active
    <2>2. stage'[d] = "putting" => now' + Left(attempt'[d] - 1) >= deadline'[d]
      <3>1. stage[d] = "putting" => now + Left(attempt[d] - 1) >= deadline[d]
        BY DEF IInv, Timely
      <3>2. ASSUME NEW n \in Nat, now + n >= deadline[d] PROVE now' + n >= deadline[d]
        BY <1>1, <3>2
      <3>3. QED
        BY <2>1, <3>1, <3>2
    <2>3. stage'[d] \in {"sleeping", "reading"} =>
             until'[d] = deadline'[d] \/ until'[d] + Left(attempt'[d]) >= deadline'[d]
      BY DEF IInv, Timely
    <2>4. stage'[d] = "command_error" => now' >= deadline'[d] /\ pending'[d] # {}
      <3>1. stage[d] = "command_error" => now >= deadline[d] /\ pending[d] # {}
        BY DEF IInv, Timely
      <3>2. now >= deadline[d] => now' >= deadline[d]
        BY <1>1
      <3>3. QED
        BY <3>1, <3>2
    <2>5. QED
      BY <2>2, <2>3, <2>4 DEF Timely, Left
  <1>5. Observed(d)'
    BY DEF IInv, Observed, Reflects
  <1>6. QED
    BY <1>3, <1>4, <1>5

\* What is known of the cache outlives a step that reads nothing.
LEMMA CacheStays ==
    ASSUME IInv, NEW c \in Commands, valves' = valves, target' = target,
           \A d \in Commands : vids[d] \subseteq vids'[d],
           vids'[c] \ pending'[c] \subseteq vids[c] \ pending[c]
    PROVE  Cached(c)'
  BY DEF IInv, Cached, Reflects

-----------------------------------------------------------------------------
\* A step of c leaves the other commands alone.
Untouched(c) ==
    /\ now' = now /\ target' = target /\ confirm' = confirm
    /\ \A d \in Commands \ {c} :
          /\ stage'[d] = stage[d] /\ attempt'[d] = attempt[d] /\ pending'[d] = pending[d]
          /\ until'[d] = until[d] /\ found'[d] = found[d] /\ rest'[d] = rest[d]
          /\ seen'[d] = seen[d] /\ vids'[d] = vids[d] /\ deadline'[d] = deadline[d]
          /\ \A v \in Valves : flight'[d][v] = flight[d][v]

LEMMA StepOf ==
    ASSUME IInv, NEW c \in Commands, Untouched(c), WriteTypeOK',
           Counted(c)', Timely(c)', Observed(c)', \A d \in Commands : Cached(d)'
    PROVE  IInv'
  <1>1. now' \in Nat /\ now <= now'
    BY Constants DEF IInv, WriteTypeOK, Untouched
  <1>2. ASSUME NEW d \in Commands, d # c PROVE Counted(d)' /\ Timely(d)' /\ Observed(d)'
    <2>1. d \in Commands \ {c}
      BY <1>2
    <2>2. \A v \in Valves : flight[d][v] \in Nat
      BY Constants DEF IInv, WriteTypeOK
    <2>3. \A v \in Valves : flight'[d][v] \in Nat /\ flight'[d][v] <= flight[d][v]
      BY <2>1, <2>2 DEF Untouched
    <2>4. QED
      BY <1>1, <2>1, <2>3, Others DEF Untouched
  <1>3. QED
    BY <1>2 DEF IInv

\* What the types say of one command.
LEMMA TypesOf ==
    ASSUME IInv, NEW c \in Commands
    PROVE  /\ now \in Nat /\ deadline[c] \in Nat /\ until[c] \in Nat /\ due[c] \in Nat
           /\ attempt[c] \in Nat /\ target[c] \in Targets /\ confirm[c] \in BOOLEAN
           /\ pending[c] \subseteq vids[c] /\ vids[c] \subseteq Valves
           /\ IsReading(found[c]) /\ IsReading(valves)
           /\ \A v \in Valves : flight[c][v] \in Nat /\ status[v] \in States
           /\ stage[c] \in Active => Left(attempt[c]) \in Nat
                                     /\ Left(attempt[c] - 1) = Left(attempt[c]) + Share
  <1>1. now \in Nat /\ attempt[c] \in Nat /\ \A v \in Valves : flight[c][v] \in Nat
    BY Constants DEF IInv, WriteTypeOK
  <1>2. stage[c] \in Active => attempt[c] \in 1 .. Attempts
    BY DEF IInv, Counted
  <1>3. QED
    BY <1>1, <1>2, Shares, CommandAssumption DEF IInv, WriteTypeOK

LEMMA BeginIInv ==
    ASSUME IInv, NEW c \in Commands, NEW S \in SUBSET Valves, Begin(c, S)
    PROVE  IInv'
  <1> USE DEF Begin, Send, service
  <1>1. now + CommandTimeout \in Nat /\ now + RequestTime \in Nat /\ 1 \in 0 .. Attempts
        /\ 1 \in 1 .. Attempts /\ 0 \in Nat
    BY Shares, Constants, TypesOf
  <1>2. attempt[c] = 0 /\ vids[c] = {} /\ pending[c] = {} /\ DOMAIN found[c] = {}
    BY DEF IInv, Counted, WriteTypeOK
  <1>3. WriteTypeOK'
    BY <1>1, <1>2 DEF IInv, WriteTypeOK, Active
  <1>4. Untouched(c)
    BY DEF IInv, WriteTypeOK, Untouched
  <1>5. /\ stage'[c] = "putting" /\ attempt'[c] = 1 /\ pending'[c] = S /\ vids'[c] = S
        /\ deadline'[c] = now + CommandTimeout /\ found' = found /\ seen' = seen
        /\ flight' = flight /\ now' = now /\ target' = target /\ valves' = valves
    BY DEF IInv, WriteTypeOK
  <1>6. Counted(c)'
    <2>1. \A v \in Valves : flight[c][v] = 0
      BY <1>2, TypesOf DEF IInv, Counted
    <2>2. QED
      BY <1>1, <1>2, <1>5, <2>1 DEF Counted
  <1>7. Timely(c)'
    <2>1. Left(1 - 1) = CommandTimeout
      BY Shares
    <2>2. now + CommandTimeout >= now + CommandTimeout
      BY <1>1
    <2>3. QED
      BY <1>5, <2>1, <2>2 DEF Timely, Left
  <1>8. Observed(c)'
    BY <1>2, <1>5 DEF Observed
  <1>9. ASSUME NEW d \in Commands PROVE Cached(d)'
    <2>1. \A e \in Commands : vids[e] \subseteq vids'[e]
      BY <1>2, <1>4 DEF Untouched
    <2>2. vids'[d] \ pending'[d] \subseteq vids[d] \ pending[d]
      BY <1>4, <1>5 DEF Untouched
    <2>3. QED
      BY <1>5, <2>1, <2>2, CacheStays
  <1>10. QED
    BY <1>3, <1>4, <1>6, <1>7, <1>8, <1>9, StepOf

\* The write of a chunk: one more in flight for each of its valves.
LEMMA PutChunkIInv == ASSUME IInv, NEW c \in Commands, PutChunk(c) PROVE IInv'
  <1> USE DEF service
  <1>1. PICK part \in SUBSET rest[c] :
           /\ flight' = [flight EXCEPT ![c] = [v \in Valves |->
                                     flight[c][v] + IF v \in part THEN 1 ELSE 0]]
           /\ rest' = [rest EXCEPT ![c] = rest[c] \ part]
    BY DEF PutChunk, Chunks
  <1>2. /\ stage[c] = "putting" /\ stage' = stage /\ now' = now
        /\ UNCHANGED <<valves, vids, target, confirm, deadline, attempt, pending, until,
                       found, seen, status, trips>>
        /\ due' = [due EXCEPT ![c] = IF rest'[c] = {} THEN due[c] ELSE due[c] + RequestTime]
    BY DEF PutChunk, arguments
  <1>3. rest'[c] = rest[c] \ part
    BY <1>1 DEF IInv, WriteTypeOK
  <1>4. \A v \in Valves : flight'[c][v] = flight[c][v] + IF v \in part THEN 1 ELSE 0
    BY <1>1 DEF IInv, WriteTypeOK
  <1>5. /\ attempt[c] \in 1 .. Attempts
        /\ \A v \in Valves : /\ flight[c][v] \in Nat /\ flight[c][v] <= attempt[c]
                             /\ v \in rest[c] => flight[c][v] < attempt[c]
    BY <1>2, TypesOf DEF IInv, Counted, Active
  <1>6. \A v \in Valves : flight'[c][v] \in Nat /\ flight'[c][v] <= attempt[c]
                          /\ (v \in rest'[c] => flight'[c][v] < attempt[c])
    BY <1>3, <1>4, <1>5, Constants
  <1>7. WriteTypeOK'
    <2>1. \A v \in Valves : flight'[c][v] \in 0 .. Attempts
      BY <1>5, <1>6, Constants
    <2>2. flight' \in [Commands -> [Valves -> 0 .. Attempts]]
      BY <1>1, <1>4, <2>1 DEF IInv, WriteTypeOK
    <2>3. due' \in [Commands -> Nat]
      BY <1>2, Constants DEF IInv, WriteTypeOK
    <2>4. rest' \in [Commands -> SUBSET Valves] /\ \A d \in Commands : rest'[d] \subseteq rest[d]
      BY <1>1, <1>3 DEF IInv, WriteTypeOK
    <2>5. QED
      BY <1>2, <2>2, <2>3, <2>4 DEF IInv, WriteTypeOK
  <1>8. Untouched(c)
    BY <1>1, <1>2 DEF IInv, WriteTypeOK, Untouched
  <1>9. Counted(c)'
    BY <1>2, <1>5, <1>6 DEF IInv, Counted, Active
  <1>10. Timely(c)' /\ Observed(c)'
    BY <1>2 DEF IInv, Timely, Observed, Left, Reflects
  <1>11. \A d \in Commands : Cached(d)'
    BY <1>2, CacheStays
  <1>12. QED
    BY <1>7, <1>8, <1>9, <1>10, <1>11, StepOf

-----------------------------------------------------------------------------
\* The end of a command.  What is left is what was pending, or nothing if the
\* valves that are left out were all seen.
LEMMA EndIInv ==
    ASSUME IInv, NEW c \in Commands, stage[c] \in Active,
           NEW how \in Ended, NEW left \in SUBSET pending[c], End(c, how, left),
           UNCHANGED <<now, service, arguments, seen>>,
           found' = found \/ found' = [found EXCEPT ![c] = Nothing],
           DOMAIN found'[c] \subseteq left,
           pending[c] \ left \subseteq seen[c],
           how = "done" /\ confirm[c] => left = {},
           how = "command_error" => now >= deadline[c] /\ left # {},
           IsReading(valves'), \A d \in Commands : Cached(d)'
    PROVE  IInv'
  <1> USE DEF End, service, arguments
  <1>1. /\ stage'[c] = how /\ pending'[c] = left /\ attempt' = attempt
    BY DEF IInv, WriteTypeOK
  <1>2. WriteTypeOK'
    <2>1. found' = [d \in Commands |-> found'[d]] /\ \A d \in Commands : IsReading(found'[d])
      BY NothingIsReading DEF IInv, WriteTypeOK
    <2>2. \A d \in Commands : DOMAIN found'[d] \subseteq vids[d]
      BY NothingIsReading DEF IInv, WriteTypeOK
    <2>3. /\ pending' \in [Commands -> SUBSET Valves]
          /\ \A d \in Commands : pending'[d] \subseteq vids[d]
      BY DEF IInv, WriteTypeOK
    <2>4. /\ stage' \in [Commands -> {"new"} \cup Active \cup Ended]
          /\ until' \in [Commands -> Nat] /\ due' \in [Commands -> Nat]
          /\ rest' \in [Commands -> SUBSET Valves]
      BY DEF IInv, WriteTypeOK
    <2>5. \A d \in Commands : rest'[d] \subseteq pending'[d] \/ stage'[d] \notin {"putting", "reading"}
      BY <1>1 DEF IInv, WriteTypeOK, Ended
    <2>6. QED
      BY <2>1, <2>2, <2>3, <2>4, <2>5 DEF IInv, WriteTypeOK
  <1>3. Untouched(c)
    BY DEF IInv, WriteTypeOK, Untouched
  <1>4. Counted(c)'
    BY <1>1 DEF IInv, Counted, Active, Ended
  <1>5. Timely(c)'
    BY <1>1 DEF Timely, Ended
  <1>6. Observed(c)'
    <2>1. vids[c] \ left \subseteq seen[c]
      BY DEF IInv, Observed
    <2>2. \A v \in DOMAIN found'[c] : Reflects(found'[c][v], target[c]) => v \in seen[c]
      BY NothingIsReading DEF IInv, Observed, WriteTypeOK
    <2>3. QED
      BY <1>1, <2>1, <2>2 DEF Observed, Reflects
  <1>7. QED
    BY <1>2, <1>3, <1>4, <1>5, <1>6, StepOf

\* The command sleeps: with what is left of its valves, and before its deadline
\* or a share after the attempt began to wait.
LEMMA SleepIInv ==
    ASSUME IInv, NEW c \in Commands, stage[c] \in Active,
           NEW end \in Nat, NEW left \in SUBSET pending[c],
           Sleep(c, end), until' = [until EXCEPT ![c] = end],
           pending' = [pending EXCEPT ![c] = left],
           rest' = rest \/ rest' = [rest EXCEPT ![c] = {}],
           found' = found \/ found' = [found EXCEPT ![c] = Nothing],
           DOMAIN found'[c] \subseteq left,
           UNCHANGED <<now, service, arguments, attempt, seen>>,
           pending[c] \ left \subseteq seen[c],
           end = deadline[c] \/ end + Left(attempt[c]) >= deadline[c],
           IsReading(valves'), \A d \in Commands : Cached(d)'
    PROVE  IInv'
  <1> USE DEF Sleep, service, arguments
  <1>1. /\ stage'[c] = "sleeping" /\ pending'[c] = left /\ until'[c] = end
    BY DEF IInv, WriteTypeOK
  <1>2. WriteTypeOK'
    <2>1. found' = [d \in Commands |-> found'[d]] /\ \A d \in Commands : IsReading(found'[d])
      BY NothingIsReading DEF IInv, WriteTypeOK
    <2>2. \A d \in Commands : DOMAIN found'[d] \subseteq vids[d]
      BY NothingIsReading DEF IInv, WriteTypeOK
    <2>3. /\ pending' \in [Commands -> SUBSET Valves]
          /\ \A d \in Commands : pending'[d] \subseteq vids[d]
      BY DEF IInv, WriteTypeOK
    <2>4. now + Nap(end) \in Nat
      BY NapIsNat, TypesOf
    <2>5. /\ stage' \in [Commands -> {"new"} \cup Active \cup Ended]
          /\ until' \in [Commands -> Nat] /\ due' \in [Commands -> Nat]
          /\ rest' \in [Commands -> SUBSET Valves]
      BY <2>4 DEF IInv, WriteTypeOK, Active
    <2>6. \A d \in Commands : rest'[d] \subseteq pending'[d] \/ stage'[d] \notin {"putting", "reading"}
      BY <1>1 DEF IInv, WriteTypeOK
    <2>7. QED
      BY <2>1, <2>2, <2>3, <2>5, <2>6 DEF IInv, WriteTypeOK
  <1>3. Untouched(c)
    BY DEF IInv, WriteTypeOK, Untouched
  <1>4. Counted(c)'
    BY <1>1 DEF IInv, Counted, Active
  <1>5. Timely(c)'
    BY <1>1 DEF Timely, Left
  <1>6. Observed(c)'
    <2>1. vids[c] \ left \subseteq seen[c]
      BY DEF IInv, Observed
    <2>2. \A v \in DOMAIN found'[c] : Reflects(found'[c][v], target[c]) => v \in seen[c]
      BY NothingIsReading DEF IInv, Observed, WriteTypeOK
    <2>3. QED
      BY <1>1, <2>1, <2>2 DEF Observed, Reflects
  <1>7. QED
    BY <1>2, <1>3, <1>4, <1>5, <1>6, StepOf

\* Another attempt: the one before it had its share.
LEMMA SendIInv ==
    ASSUME IInv, NEW c \in Commands, stage[c] = "reading",
           NEW left \in SUBSET pending[c], Send(c, attempt[c] + 1, left),
           attempt[c] < Attempts, now >= until[c], now < deadline[c],
           found' = [found EXCEPT ![c] = Nothing],
           UNCHANGED <<now, service, arguments, seen>>,
           pending[c] \ left \subseteq seen[c],
           IsReading(valves'), \A d \in Commands : Cached(d)'
    PROVE  IInv'
  <1> USE DEF Send, service, arguments
  <1>1. /\ stage'[c] = "putting" /\ pending'[c] = left /\ attempt'[c] = attempt[c] + 1
        /\ found'[c] = Nothing /\ rest'[c] = left
    BY DEF IInv, WriteTypeOK
  <1>2. attempt[c] \in 1 .. Attempts /\ attempt[c] + 1 \in 1 .. Attempts
    BY Constants DEF IInv, Counted, Active
  <1>3. WriteTypeOK'
    <2>1. found' = [d \in Commands |-> found'[d]] /\ \A d \in Commands : IsReading(found'[d])
      BY NothingIsReading DEF IInv, WriteTypeOK
    <2>2. \A d \in Commands : DOMAIN found'[d] \subseteq vids[d]
      BY NothingIsReading DEF IInv, WriteTypeOK
    <2>3. /\ pending' \in [Commands -> SUBSET Valves] /\ rest' \in [Commands -> SUBSET Valves]
          /\ \A d \in Commands : pending'[d] \subseteq vids[d]
      BY DEF IInv, WriteTypeOK
    <2>4. now + RequestTime \in Nat /\ 0 \in Nat /\ attempt[c] + 1 \in 0 .. Attempts
      BY <1>2, TypesOf, Constants
    <2>5. /\ stage' \in [Commands -> {"new"} \cup Active \cup Ended]
          /\ until' \in [Commands -> Nat] /\ due' \in [Commands -> Nat]
          /\ attempt' \in [Commands -> 0 .. Attempts]
      BY <2>4 DEF IInv, WriteTypeOK, Active
    <2>6. \A d \in Commands : rest'[d] \subseteq pending'[d] \/ stage'[d] \notin {"putting", "reading"}
      BY <1>1 DEF IInv, WriteTypeOK
    <2>7. QED
      BY <2>1, <2>2, <2>3, <2>5, <2>6 DEF IInv, WriteTypeOK
  <1>4. Untouched(c)
    BY DEF IInv, WriteTypeOK, Untouched
  <1>5. Counted(c)'
    <2>1. \A v \in Valves : flight[c][v] \in Nat /\ flight[c][v] <= attempt[c]
      BY TypesOf DEF IInv, Counted
    <2>2. \A v \in Valves : flight[c][v] < attempt[c] + 1 /\ flight[c][v] <= attempt[c] + 1
      BY <2>1, <1>2, Constants
    <2>3. QED
      BY <1>1, <1>2, <2>2, NothingIsReading DEF Counted
  <1>6. Timely(c)'
    <2>1. until[c] = deadline[c] \/ until[c] + Left(attempt[c]) >= deadline[c]
      BY DEF IInv, Timely
    <2>2. now + Left(attempt[c]) >= deadline[c]
      BY <1>2, <2>1, TypesOf, Shares
    <2>3. (attempt[c] + 1) - 1 = attempt[c]
      BY <1>2, Constants
    <2>4. QED
      BY <1>1, <2>2, <2>3 DEF Timely, Left
  <1>7. Observed(c)'
    <2>1. vids[c] \ left \subseteq seen[c]
      BY DEF IInv, Observed
    <2>2. QED
      BY <1>1, <2>1, NothingIsReading DEF Observed
  <1>8. QED
    BY <1>3, <1>4, <1>5, <1>6, <1>7, StepOf

LEMMA AcceptedIInv == ASSUME IInv, NEW c \in Commands, Accepted(c) PROVE IInv'
  <1>1. /\ stage[c] = "putting" /\ stage[c] \in Active
        /\ UNCHANGED <<now, service, valves, arguments, found, seen>>
    BY DEF Accepted, Active
  <1>2. DOMAIN found[c] \subseteq pending[c] /\ IsReading(valves)
    BY DEF IInv, Counted, WriteTypeOK
  <1>3. CASE ~confirm[c] /\ End(c, "done", pending[c])
    <2>1. pending' = pending
      BY <1>3 DEF End, IInv, WriteTypeOK
    <2>2. \A d \in Commands : Cached(d)'
      BY <1>1, <2>1, CacheStays DEF arguments
    <2>3. QED
      BY <1>1, <1>2, <1>3, <2>2, EndIInv DEF Ended
  <1>4. CASE /\ confirm[c] /\ until' = [until EXCEPT ![c] = AttemptDeadline(c)]
             /\ Sleep(c, until'[c]) /\ UNCHANGED <<attempt, pending, rest>>
    <2>1. until'[c] = AttemptDeadline(c)
      BY <1>4 DEF IInv, WriteTypeOK
    <2>2. AttemptDeadline(c) \in Nat
      BY TypesOf, Constants DEF AttemptDeadline
    <2>3. AttemptDeadline(c) = deadline[c]
             \/ AttemptDeadline(c) + Left(attempt[c]) >= deadline[c]
      <3>1. now + Left(attempt[c] - 1) >= deadline[c]
        BY <1>1 DEF IInv, Timely
      <3>2. /\ Left(attempt[c]) \in Nat /\ Left(attempt[c] - 1) = Left(attempt[c]) + Share
            /\ now \in Nat /\ deadline[c] \in Nat
        BY <1>1, TypesOf
      <3>3. (now + Share) + Left(attempt[c]) >= deadline[c]
        BY <3>1, <3>2, Constants
      <3>4. QED
        BY <3>3 DEF AttemptDeadline
    <2>4. pending' = [pending EXCEPT ![c] = pending[c]]
      BY <1>4 DEF IInv, WriteTypeOK
    <2>5. \A d \in Commands : Cached(d)'
      BY <1>1, <1>4, CacheStays DEF arguments
    <2>6. QED
      BY <1>1, <1>2, <1>4, <2>1, <2>2, <2>3, <2>4, <2>5, SleepIInv
  <1>5. QED
    BY <1>3, <1>4 DEF Accepted

LEMMA WakeIInv == ASSUME IInv, NEW c \in Commands, Wake(c) PROVE IInv'
  <1> USE DEF Wake, service, arguments
  <1>1. stage[c] = "sleeping" /\ stage'[c] = "reading" /\ rest'[c] = pending[c]
    BY DEF IInv, WriteTypeOK
  <1>2. now + RequestTime \in Nat
    BY TypesOf, Constants
  <1>3. WriteTypeOK'
    BY <1>1, <1>2 DEF IInv, WriteTypeOK, Active
  <1>4. Untouched(c)
    BY DEF IInv, WriteTypeOK, Untouched
  <1>5. Counted(c)'
    BY <1>1 DEF IInv, Counted, Active
  <1>6. Timely(c)' /\ Observed(c)'
    BY <1>1 DEF IInv, Timely, Observed, Left, Reflects
  <1>7. \A d \in Commands : Cached(d)'
    BY CacheStays
  <1>8. QED
    BY <1>3, <1>4, <1>5, <1>6, <1>7, StepOf

\* A chunk is read: what it shows at the target is seen.
LEMMA ReadChunkIInv == ASSUME IInv, NEW c \in Commands, ReadChunk(c) PROVE IInv'
  <1> USE DEF service, arguments
  <1>1. PICK part \in SUBSET rest[c], rows \in SUBSET rest[c] :
           /\ rows \subseteq part
           /\ rest' = [rest EXCEPT ![c] = rest[c] \ part]
           /\ found' = [found EXCEPT ![c] = Updated(found[c], [v \in rows |-> status[v]])]
           /\ seen' = [seen EXCEPT ![c] =
                          seen[c] \cup {v \in rows : Reflects(status[v], target[c])}]
    BY DEF ReadChunk, Chunks
  <1>2. /\ stage[c] = "reading"
        /\ UNCHANGED <<now, service, valves, stage, arguments, attempt, pending, until>>
        /\ due' = [due EXCEPT ![c] = IF rest'[c] = {} THEN due[c] ELSE due[c] + RequestTime]
    BY DEF ReadChunk
  <1> DEFINE g == [v \in rows |-> status[v]]
  <1>3. rest[c] \subseteq pending[c] /\ pending[c] \subseteq vids[c] /\ vids[c] \subseteq Valves
    BY <1>2 DEF IInv, WriteTypeOK
  <1>4. IsReading(found[c]) /\ DOMAIN found[c] \subseteq pending[c]
    BY DEF IInv, WriteTypeOK, Counted
  <1>5. IsReading(g) /\ DOMAIN g = rows /\ \A v \in rows : g[v] = status[v]
    BY <1>3 DEF IsReading, IInv, WriteTypeOK
  <1>6. /\ found'[c] = Updated(found[c], g) /\ rest'[c] = rest[c] \ part
        /\ seen'[c] = seen[c] \cup {v \in rows : Reflects(status[v], target[c])}
    BY <1>1 DEF IInv, WriteTypeOK
  <1> HIDE DEF g
  <1>7. /\ IsReading(found'[c])
        /\ DOMAIN found'[c] = DOMAIN found[c] \cup rows
        /\ \A v \in rows : found'[c][v] = status[v]
        /\ \A v \in DOMAIN found[c] \ rows : found'[c][v] = found[c][v]
    <2>1. IsReading(found[c]) /\ IsReading(g)
      BY <1>4, <1>5
    <2>2. /\ IsReading(Updated(found[c], g))
          /\ DOMAIN Updated(found[c], g) = DOMAIN found[c] \cup DOMAIN g
          /\ \A v \in DOMAIN g : Updated(found[c], g)[v] = g[v]
          /\ \A v \in DOMAIN found[c] \ DOMAIN g : Updated(found[c], g)[v] = found[c][v]
      BY <2>1, UpdatedReading, Zenon
    <2>3. QED
      BY <1>5, <1>6, <2>2
  <1>8. WriteTypeOK'
    <2>1. due' \in [Commands -> Nat]
      BY <1>2, Constants DEF IInv, WriteTypeOK
    <2>2. rest' \in [Commands -> SUBSET Valves] /\ \A d \in Commands : rest'[d] \subseteq rest[d]
      BY <1>1, <1>6 DEF IInv, WriteTypeOK
    <2>3. seen' \in [Commands -> SUBSET Valves] /\ \A d \in Commands : seen'[d] \subseteq vids[d]
      BY <1>1, <1>3, <1>6 DEF IInv, WriteTypeOK
    <2>4. found' = [d \in Commands |-> found'[d]]
      BY <1>1 DEF IInv, WriteTypeOK
    <2>5. \A d \in Commands : IsReading(found'[d]) /\ DOMAIN found'[d] \subseteq vids[d]
      BY <1>1, <1>3, <1>4, <1>7 DEF IInv, WriteTypeOK
    <2>6. QED
      BY <1>2, <2>1, <2>2, <2>3, <2>4, <2>5 DEF IInv, WriteTypeOK
  <1>9. Untouched(c)
    BY <1>1, <1>2 DEF IInv, WriteTypeOK, Untouched
  <1>10. Counted(c)'
    BY <1>2, <1>3, <1>4, <1>6, <1>7 DEF IInv, Counted, Active
  <1>11. Timely(c)'
    BY <1>2 DEF IInv, Timely, Left
  <1>12. Observed(c)'
    <2>1. vids[c] \ pending[c] \subseteq seen'[c]
      BY <1>6 DEF IInv, Observed
    <2>2. \A v \in DOMAIN found'[c] : Reflects(found'[c][v], target[c]) => v \in seen'[c]
      BY <1>6, <1>7 DEF IInv, Observed
    <2>3. QED
      BY <1>2, <2>1, <2>2 DEF Observed, Reflects
  <1>13. \A d \in Commands : Cached(d)'
    BY <1>2, CacheStays
  <1>14. QED
    BY <1>8, <1>9, <1>10, <1>11, <1>12, <1>13, StepOf

-----------------------------------------------------------------------------
\* Judging a pass: what is left are the valves not reported at the target.
LEMMA JudgeLeaves ==
    ASSUME IInv, NEW c \in Commands, NEW f, Judge(c, f)
    PROVE  /\ pending'[c] = Unreported(c, f)
           /\ \A d \in Commands \ {c} : pending'[d] = pending[d]
  BY DEF Judge, End, Send, IInv, WriteTypeOK

LEMMA JudgeIInv ==
    ASSUME IInv, NEW c \in Commands, stage[c] = "reading",
           NEW f, DOMAIN f \subseteq pending[c],
           \A v \in DOMAIN f : Reflects(f[v], target[c]) => v \in seen[c],
           Judge(c, f), UNCHANGED <<now, service, arguments, seen>>,
           IsReading(valves'), \A d \in Commands : Cached(d)'
    PROVE  IInv'
  <1> DEFINE left == Unreported(c, f)
  <1>1. left \in SUBSET pending[c] /\ pending[c] \ left \subseteq seen[c]
    BY DEF Unreported
  <1>2. /\ found' = [found EXCEPT ![c] = Nothing] /\ found'[c] = Nothing
        /\ DOMAIN found'[c] = {}
    BY NothingIsReading DEF Judge, IInv, WriteTypeOK
  <1>3. /\ stage[c] \in Active /\ attempt[c] \in 1 .. Attempts
        /\ until[c] \in Nat /\ now \in Nat /\ deadline[c] \in Nat
    BY TypesOf DEF Active, IInv, Counted
  <1>4. until[c] = deadline[c] \/ until[c] + Left(attempt[c]) >= deadline[c]
    BY DEF IInv, Timely
  <1>5. \/ left = {} /\ End(c, "done", {})
        \/ /\ left # {} /\ now < until[c]
           /\ Sleep(c, until[c])
           /\ pending' = [pending EXCEPT ![c] = left]
           /\ rest' = [rest EXCEPT ![c] = {}]
           /\ UNCHANGED <<attempt, until>>
        \/ /\ left # {} /\ now >= until[c]
           /\ now < deadline[c] /\ attempt[c] < Attempts
           /\ Send(c, attempt[c] + 1, left)
        \/ /\ left # {} /\ now >= until[c]
           /\ now >= deadline[c] \/ attempt[c] = Attempts
           /\ End(c, "command_error", left)
    BY DEF Judge
  <1> HIDE DEF left
  <1>6. CASE left = {} /\ End(c, "done", {})
    BY <1>1, <1>2, <1>3, <1>6, EndIInv DEF Ended
  <1>7. CASE /\ left # {} /\ now < until[c]
             /\ Sleep(c, until[c])
             /\ pending' = [pending EXCEPT ![c] = left]
             /\ rest' = [rest EXCEPT ![c] = {}]
             /\ UNCHANGED <<attempt, until>>
    <2>1. until' = [until EXCEPT ![c] = until[c]]
      BY <1>7 DEF IInv, WriteTypeOK
    <2>2. QED
      BY <1>1, <1>2, <1>3, <1>4, <1>7, <2>1, SleepIInv
  <1>8. CASE /\ left # {} /\ now >= until[c]
             /\ now < deadline[c] /\ attempt[c] < Attempts
             /\ Send(c, attempt[c] + 1, left)
    BY <1>1, <1>2, <1>3, <1>8, SendIInv
  <1>9. CASE /\ left # {} /\ now >= until[c]
             /\ now >= deadline[c] \/ attempt[c] = Attempts
             /\ End(c, "command_error", left)
    <2>1. now >= deadline[c]
      BY <1>3, <1>4, <1>9, Shares
    <2>2. QED
      BY <1>1, <1>2, <1>3, <1>9, <2>1, EndIInv DEF Ended
  <1>10. QED
    BY <1>5, <1>6, <1>7, <1>8, <1>9

\* The readings are kept: those of c replace no reading that another command, which
\* reads other valves, relies on.
LEMMA EndOfReadIInv == ASSUME IInv, NEW c \in Commands, EndOfRead(c) PROVE IInv'
  <1>1. /\ stage[c] = "reading" /\ valves' = Updated(valves, found[c])
        /\ Judge(c, found[c]) /\ UNCHANGED <<now, service, arguments, seen>>
    BY DEF EndOfRead
  <1>2. IsReading(valves) /\ IsReading(found[c]) /\ DOMAIN found[c] \subseteq pending[c]
    BY DEF IInv, WriteTypeOK, Counted
  <1>3. /\ IsReading(valves')
        /\ DOMAIN valves' = DOMAIN valves \cup DOMAIN found[c]
        /\ \A v \in DOMAIN found[c] : valves'[v] = found[c][v]
        /\ \A v \in DOMAIN valves \ DOMAIN found[c] : valves'[v] = valves[v]
    <2>1. /\ IsReading(Updated(valves, found[c]))
          /\ DOMAIN Updated(valves, found[c]) = DOMAIN valves \cup DOMAIN found[c]
          /\ \A v \in DOMAIN found[c] : Updated(valves, found[c])[v] = found[c][v]
          /\ \A v \in DOMAIN valves \ DOMAIN found[c] :
                Updated(valves, found[c])[v] = valves[v]
      BY <1>2, UpdatedReading, Zenon
    <2>2. QED
      BY <1>1, <2>1, Zenon
  <1>4. /\ pending'[c] = Unreported(c, found[c])
        /\ \A d \in Commands \ {c} : pending'[d] = pending[d]
    BY <1>1, JudgeLeaves
  <1>5. ASSUME NEW d \in Commands, NEW v \in vids[d] \ pending'[d],
               ~ \E e \in Commands \ {d} : v \in vids[e]
        PROVE  v \in DOMAIN valves' /\ Reflects(valves'[v], target[d])
    <2>1. CASE v \in pending[d]
      <3>1. d = c
        BY <1>4, <1>5, <2>1
      <3>2. v \in DOMAIN found[c] /\ Reflects(found[c][v], target[c])
        BY <1>4, <1>5, <2>1, <3>1 DEF Unreported
      <3>3. QED
        BY <1>3, <3>1, <3>2
    <2>2. CASE v \notin pending[d]
      <3>1. v \in DOMAIN valves /\ Reflects(valves[v], target[d])
        BY <1>5, <2>2 DEF IInv, Cached
      <3>2. v \notin DOMAIN found[c]
        BY <1>2, <1>5, <2>2 DEF IInv, WriteTypeOK
      <3>3. QED
        BY <1>3, <3>1, <3>2
    <2>3. QED
      BY <2>1, <2>2
  <1>6. \A d \in Commands : Cached(d)'
    BY <1>1, <1>5 DEF Cached, arguments, Reflects
  <1>7. \A v \in DOMAIN found[c] : Reflects(found[c][v], target[c]) => v \in seen[c]
    BY DEF IInv, Observed
  <1>8. QED
    BY <1>1, <1>2, <1>3, <1>6, <1>7, JudgeIInv

LEMMA ReadFailsIInv == ASSUME IInv, NEW c \in Commands, ReadFails(c) PROVE IInv'
  <1>1. /\ stage[c] = "reading" /\ Judge(c, Nothing)
        /\ UNCHANGED <<now, service, valves, arguments, seen>>
    BY DEF ReadFails
  <1>2. Unreported(c, Nothing) = pending[c]
    BY NothingIsReading DEF Unreported
  <1>3. \A d \in Commands : pending'[d] = pending[d]
    BY <1>1, <1>2, JudgeLeaves
  <1>4. \A d \in Commands : Cached(d)'
    BY <1>1, <1>3, CacheStays DEF arguments
  <1>5. IsReading(valves')
    BY <1>1 DEF IInv, WriteTypeOK
  <1>6. QED
    BY <1>1, <1>4, <1>5, JudgeIInv, NothingIsReading

LEMMA RaisesIInv == ASSUME IInv, NEW c \in Commands, Raises(c) PROVE IInv'
  <1>1. /\ stage[c] \in Active /\ End(c, "raised", pending[c])
        /\ found' = [found EXCEPT ![c] = Nothing]
        /\ UNCHANGED <<now, service, valves, arguments, seen>>
    BY DEF Raises
  <1>2. pending' = pending
    BY <1>1 DEF End, IInv, WriteTypeOK
  <1>3. \A d \in Commands : Cached(d)'
    BY <1>1, <1>2, CacheStays DEF arguments
  <1>4. DOMAIN found'[c] \subseteq pending[c] /\ IsReading(valves')
    BY <1>1, NothingIsReading DEF IInv, WriteTypeOK
  <1>5. QED
    BY <1>1, <1>3, <1>4, EndIInv DEF Ended

-----------------------------------------------------------------------------
\* What FloLogic does, and time, leave the commands alone.
LEMMA WorldIInv ==
    ASSUME IInv, WriteTypeOK', now <= now', UNCHANGED <<valves, stage, arguments, locals>>,
           \A c \in Commands, v \in Valves :
              flight'[c][v] \in Nat /\ flight'[c][v] <= flight[c][v]
    PROVE  IInv'
  <1> USE DEF arguments, locals
  <1>1. now' \in Nat
    BY Constants DEF WriteTypeOK
  <1>2. \A c \in Commands : Cached(c)'
    BY CacheStays
  <1>3. \A c \in Commands : Counted(c)' /\ Timely(c)' /\ Observed(c)'
    BY <1>1, Others
  <1>4. QED
    BY <1>2, <1>3 DEF IInv

LEMMA LandIInv ==
    ASSUME IInv, NEW c \in Commands, NEW v \in Valves, Land(c, v)
    PROVE  IInv'
  <1>1. PICK s \in TakenUp(status[v], target[c]) : status' = [status EXCEPT ![v] = s]
    BY DEF Land
  <1>2. /\ flight[c][v] > 0 /\ flight' = [flight EXCEPT ![c][v] = flight[c][v] - 1]
        /\ UNCHANGED <<now, trips, valves, stage, arguments, locals>>
    BY DEF Land
  <1>3. flight[c][v] \in 0 .. Attempts
    BY DEF IInv, WriteTypeOK
  <1>4. flight[c][v] - 1 \in 0 .. Attempts /\ flight[c][v] - 1 <= flight[c][v]
    BY <1>2, <1>3, Constants
  <1>5. s \in States
    BY TakenUpState, TypesOf
  <1>6. flight' \in [Commands -> [Valves -> 0 .. Attempts]] /\ status' \in [Valves -> States]
    BY <1>1, <1>2, <1>4, <1>5 DEF IInv, WriteTypeOK
  <1>7. \A d \in Commands, w \in Valves :
           flight'[d][w] = IF d = c /\ w = v THEN flight[c][v] - 1 ELSE flight[d][w]
    BY <1>2 DEF IInv, WriteTypeOK
  <1>8. \A d \in Commands, w \in Valves :
           flight'[d][w] \in Nat /\ flight'[d][w] <= flight[d][w]
    <2>1. \A d \in Commands, w \in Valves : flight[d][w] \in Nat
      BY Constants DEF IInv, WriteTypeOK
    <2>2. QED
      BY <1>4, <1>7, <2>1, Constants
  <1>9. WriteTypeOK'
    BY <1>2, <1>6 DEF IInv, WriteTypeOK, arguments, locals
  <1>10. now \in Nat /\ now <= now'
    BY <1>2, Constants DEF IInv, WriteTypeOK
  <1>11. QED
    BY <1>2, <1>8, <1>9, <1>10, WorldIInv

LEMMA TripIInv == ASSUME IInv, NEW v \in Valves, Trip(v) PROVE IInv'
  <1> USE DEF Trip
  <1>1. status[v] \in States /\ {"SENSOR_LEAK", "SHUTOFF"} \subseteq Bits
    BY DEF IInv, WriteTypeOK, Bits, KnownFlags
  <1>2. status[v].word \cup {"SENSOR_LEAK", "SHUTOFF"} \in Words
    BY <1>1 DEF States, Words
  <1>3. [status[v] EXCEPT !.word = @ \cup {"SENSOR_LEAK", "SHUTOFF"}] \in States
    BY <1>1, <1>2 DEF States
  <1>4. status' \in [Valves -> States]
    BY <1>3 DEF IInv, WriteTypeOK
  <1>5. trips' \in 0 .. MaxTrips
    BY Constants DEF IInv, WriteTypeOK
  <1>6. WriteTypeOK'
    BY <1>4, <1>5 DEF IInv, WriteTypeOK, arguments, locals
  <1>7. now \in Nat /\ \A c \in Commands, w \in Valves : flight[c][w] \in Nat
    BY Constants DEF IInv, WriteTypeOK
  <1>8. QED
    BY <1>6, <1>7, WorldIInv

LEMMA TickIInv == ASSUME IInv, Tick PROVE IInv'
  <1> USE DEF Tick, service
  <1>1. now \in 0 .. MaxTime /\ now < MaxTime
    BY DEF IInv, WriteTypeOK
  <1>2. now' \in 0 .. MaxTime /\ now <= now'
    BY <1>1, Constants
  <1>3. WriteTypeOK'
    BY <1>2 DEF IInv, WriteTypeOK, arguments, locals
  <1>4. \A c \in Commands, w \in Valves : flight[c][w] \in Nat
    BY Constants DEF IInv, WriteTypeOK
  <1>5. QED
    BY <1>2, <1>3, <1>4, WorldIInv

LEMMA StutterIInv == ASSUME IInv, UNCHANGED vars PROVE IInv'
  <1> USE DEF vars, service
  <1>1. WriteTypeOK'
    BY DEF IInv, WriteTypeOK, arguments, locals
  <1>2. now \in Nat /\ \A c \in Commands, w \in Valves : flight[c][w] \in Nat
    BY Constants DEF IInv, WriteTypeOK
  <1>3. QED
    BY <1>1, <1>2, WorldIInv

-----------------------------------------------------------------------------
LEMMA InitIInv == Init => IInv
  <1> SUFFICES ASSUME Init PROVE IInv
    OBVIOUS
  <1> USE DEF Init
  <1>1. status \in [Valves -> States]
    <2>1. \A m \in Modes : {m} \in Words
      BY CommandAssumption DEF SettableModes, Words, Bits, KnownFlags
    <2>2. QED
      BY <2>1 DEF States
  <1>2. 0 \in 0 .. MaxTime /\ 0 \in 0 .. MaxTrips /\ 0 \in 0 .. Attempts /\ 0 \in Nat
    BY Constants
  <1>3. WriteTypeOK
    <2>1. flight \in [Commands -> [Valves -> 0 .. Attempts]]
      BY <1>2
    <2>2. IsReading(valves) /\ \A c \in Commands : IsReading(found[c]) /\ DOMAIN found[c] = {}
      BY NothingIsReading
    <2>3. QED
      BY <1>1, <1>2, <2>1, <2>2 DEF WriteTypeOK
  <1>4. \A c \in Commands : Counted(c)
    BY <1>2, NothingIsReading DEF Counted, Active
  <1>5. \A c \in Commands : Timely(c) /\ Observed(c) /\ Cached(c)
    BY NothingIsReading DEF Timely, Observed, Cached
  <1>6. QED
    BY <1>3, <1>4, <1>5 DEF IInv

LEMMA StepIInv == IInv /\ [Next]_vars => IInv'
  <1> SUFFICES ASSUME IInv, [Next]_vars PROVE IInv'
    OBVIOUS
  <1>1. CASE \E c \in Commands : \/ \E S \in SUBSET Valves : Begin(c, S)
                                 \/ Answer(c) \/ Wake(c) \/ Raises(c)
    BY <1>1, BeginIInv, PutChunkIInv, AcceptedIInv, ReadChunkIInv, EndOfReadIInv,
       ReadFailsIInv, WakeIInv, RaisesIInv DEF Answer
  <1>2. CASE \E v \in Valves : Trip(v) \/ \E c \in Commands : Land(c, v)
    BY <1>2, TripIInv, LandIInv
  <1>3. CASE Tick
    BY <1>3, TickIInv
  <1>4. CASE UNCHANGED vars
    BY <1>4, StutterIInv
  <1>5. QED
    BY <1>1, <1>2, <1>3, <1>4 DEF Next

LEMMA Invariance == Spec => []IInv
  BY InitIInv, StepIInv, PTL DEF Spec

-----------------------------------------------------------------------------
\* Every state of the commands is well typed, and a pass reaches only valves that
\* are pending (client.py:415).
THEOREM WriteTypeCorrect == Spec => []WriteTypeOK
  <1>1. IInv => WriteTypeOK
    BY DEF IInv
  <1>2. QED
    BY <1>1, Invariance, PTL

\* However many commands overlap, one that returns confirmed has seen each of its
\* valves at its own target (client.py:344).
THEOREM ConfirmationIsObserved == Spec => []ConfirmedMeansObserved
  <1>1. IInv => ConfirmedMeansObserved
    BY DEF IInv, Observed, ConfirmedMeansObserved
  <1>2. QED
    BY <1>1, Invariance, PTL

\* A valve of a confirmed command is cached at its target, unless another command
\* reads it (client.py:307).
THEOREM ConfirmationIsCached == Spec => []ConfirmedIsCached
  <1>1. IInv => ConfirmedIsCached
    BY DEF IInv, Observed, Cached, ConfirmedIsCached
  <1>2. QED
    BY <1>1, Invariance, PTL

\* FloLogicCommandError never comes before the timeout is over, whatever the number
\* of attempts it is shared by (client.py:437).
THEOREM NoEarlyError == Spec => []ErrorOnlyAtTheDeadline
  <1>1. IInv => ErrorOnlyAtTheDeadline
    BY DEF IInv, Timely, ErrorOnlyAtTheDeadline
  <1>2. QED
    BY <1>1, Invariance, PTL

-----------------------------------------------------------------------------
\* How long the requests for a set of valves may take, and those of the current
\* pass, with the one that is out.
Cost(S) == Requests(S) * RequestTime
Ahead(c) == IF rest[c] = {} THEN RequestTime ELSE Cost(rest[c])

\* No pass begins after the deadline but one of reads, which follows a pass of
\* writes that began before it.
Bounded(c) ==
    stage[c] \in Active =>
        /\ vids[c] # {} /\ now <= due[c]
        /\ stage[c] = "putting" =>
              due[c] + Ahead(c) < deadline[c] + Cost(vids[c]) + RequestTime
        /\ stage[c] \in {"sleeping", "reading"} => until[c] <= deadline[c]
        /\ stage[c] = "sleeping" => due[c] < deadline[c] + Cost(vids[c])
        /\ stage[c] = "reading" =>
              due[c] + Ahead(c) < deadline[c] + 2 * Cost(vids[c]) + RequestTime

BInv == IInv /\ \A c \in Commands : Bounded(c)

-----------------------------------------------------------------------------
\* Counting requests: the quotients that occur, as facts about numbers.
LEMMA Quotients ==
    ASSUME NEW m \in Nat, NEW n \in Nat, NEW k \in Nat \ {0}
    PROVE  /\ (n + k - 1) \div k \in Nat
           /\ m <= n => (m + k - 1) \div k <= (n + k - 1) \div k
           /\ (0 + k - 1) \div k = 0
           /\ n # 0 /\ n <= k => (n + k - 1) \div k = 1
           /\ n >= k => (n + k - 1) \div k = ((n - k) + k - 1) \div k + 1
  OBVIOUS

\* ... and of products.
LEMMA Products ==
    ASSUME NEW m \in Nat, NEW n \in Nat, NEW r \in Nat
    PROVE  /\ m * r \in Nat
           /\ m <= n => m * r <= n * r
           /\ (n + 1) * r = n * r + r
           /\ 2 * n * r = 2 * (n * r)
           /\ 0 * r = 0 /\ 1 * r = r
  OBVIOUS

LEMMA CostOf ==
    ASSUME NEW S \in SUBSET Valves
    PROVE  /\ IsFiniteSet(S) /\ Cardinality(S) \in Nat
           /\ Requests(S) \in Nat /\ Cost(S) \in Nat
  <1>1. IsFiniteSet(S) /\ Cardinality(S) \in Nat
    BY FS_Subset, FS_CardinalityType, CommandAssumption
  <1>2. Requests(S) \in Nat
    BY <1>1, Quotients, CommandAssumption DEF Requests
  <1>3. QED
    BY <1>1, <1>2, Products, Constants DEF Cost

LEMMA CostGrows ==
    ASSUME NEW T \in SUBSET Valves, NEW S \in SUBSET T
    PROVE  Cost(S) <= Cost(T)
  <1>1. Cardinality(S) <= Cardinality(T)
    BY CostOf, FS_Subset
  <1>2. Requests(S) <= Requests(T)
    BY <1>1, CostOf, Quotients, CommandAssumption DEF Requests
  <1>3. QED
    BY <1>2, CostOf, Products, Constants DEF Cost

\* A request takes its chunk off what is left.
LEMMA CostOfChunk ==
    ASSUME NEW S \in SUBSET Valves, S # {}, NEW part \in Chunks(S)
    PROVE  Cost(S) = Cost(S \ part) + RequestTime
  <1>1. /\ part \subseteq S /\ Cardinality(part) \in Nat
        /\ Cardinality(S) \in Nat /\ Cardinality(S) # 0
        /\ Cardinality(part) = IF Cardinality(S) < ChunkSize THEN Cardinality(S) ELSE ChunkSize
    BY CostOf, FS_EmptySet DEF Chunks
  <1>2. Cardinality(S \ part) = Cardinality(S) - Cardinality(part)
    <2>1. IsFiniteSet(S) /\ S \cap part = part
      BY <1>1, CostOf
    <2>2. QED
      BY <2>1, FS_Difference
  <1>3. Requests(S) = Requests(S \ part) + 1
    <2>1. CASE Cardinality(S) < ChunkSize
      <3>1. Cardinality(S \ part) = 0
        BY <1>1, <1>2, <2>1
      <3>2. QED
        BY <1>1, <2>1, <3>1, Quotients, CommandAssumption DEF Requests
    <2>2. CASE Cardinality(S) >= ChunkSize
      <3>1. Cardinality(S \ part) = Cardinality(S) - ChunkSize
        BY <1>1, <1>2, <2>2, CommandAssumption
      <3>2. QED
        BY <1>1, <2>2, <3>1, Quotients, CommandAssumption DEF Requests
    <2>3. QED
      BY <1>1, <2>1, <2>2, CommandAssumption
  <1>4. S \ part \in SUBSET Valves
    OBVIOUS
  <1>5. QED
    BY <1>3, <1>4, CostOf, Products, Constants DEF Cost

\* Something takes at least one request.
LEMMA CostOfSome ==
    ASSUME NEW S \in SUBSET Valves, S # {}
    PROVE  Cost(S) >= RequestTime
  <1>1. PICK v \in S : TRUE
    OBVIOUS
  <1>2. {v} \in SUBSET S /\ Cardinality({v}) = 1
    BY FS_Singleton
  <1>3. Requests({v}) = 1
    BY <1>2, Quotients, CommandAssumption DEF Requests
  <1>4. Cost({v}) = RequestTime
    BY <1>3, Products, Constants DEF Cost
  <1>5. QED
    BY <1>2, <1>4, CostGrows

-----------------------------------------------------------------------------
\* What is known of one command.
LEMMA FactsOf ==
    ASSUME BInv, NEW c \in Commands
    PROVE  /\ now \in Nat /\ deadline[c] \in Nat /\ until[c] \in Nat /\ due[c] \in Nat
           /\ pending[c] \in SUBSET vids[c] /\ vids[c] \in SUBSET Valves
           /\ rest[c] \in SUBSET Valves
           /\ RequestTime \in Nat /\ RequestTime > 0
           /\ Cost(vids[c]) \in Nat /\ Ahead(c) \in Nat
           /\ vids[c] # {} => Cost(vids[c]) >= RequestTime
           /\ Ahead(c) >= RequestTime
           /\ IInv /\ Bounded(c)
  <1>1. IInv
    BY DEF BInv
  <1>2. /\ now \in Nat /\ deadline[c] \in Nat /\ until[c] \in Nat /\ due[c] \in Nat
        /\ pending[c] \in SUBSET vids[c] /\ vids[c] \in SUBSET Valves
    BY <1>1, TypesOf
  <1>3. rest[c] \in SUBSET Valves
    BY <1>1 DEF IInv, WriteTypeOK
  <1>4. RequestTime \in Nat /\ RequestTime > 0
    BY ClockAssumption
  <1>5. Cost(vids[c]) \in Nat /\ Ahead(c) \in Nat
    BY <1>2, <1>3, <1>4, CostOf DEF Ahead
  <1>6. vids[c] # {} => Cost(vids[c]) >= RequestTime
    BY <1>2, CostOfSome
  <1>7. Ahead(c) >= RequestTime
    BY <1>3, <1>4, CostOfSome DEF Ahead
  <1>8. QED
    BY <1>1, <1>2, <1>3, <1>4, <1>5, <1>6, <1>7 DEF BInv

\* A step of c, or of nobody, leaves what is known of the other commands.
LEMMA OthersBounded ==
    ASSUME BInv, NEW d \in Commands, now' = now,
           stage'[d] = stage[d], due'[d] = due[d], rest'[d] = rest[d],
           until'[d] = until[d], deadline'[d] = deadline[d], vids'[d] = vids[d]
    PROVE  Bounded(d)'
  BY DEF BInv, Bounded, Ahead, Cost, Requests

LEMMA BeginBounded ==
    ASSUME BInv, NEW c \in Commands, NEW S \in SUBSET Valves, Begin(c, S),
           NEW d \in Commands
    PROVE  Bounded(d)'
  <1> USE DEF Begin, Send
  <1>1. CASE d = c
    <2>1. /\ stage'[c] = "putting" /\ due'[c] = now + RequestTime /\ rest'[c] = S
          /\ vids'[c] = S /\ deadline'[c] = now + CommandTimeout /\ now' = now /\ S # {}
      BY DEF BInv, IInv, WriteTypeOK
    <2>2. Cost(S) \in Nat /\ now \in Nat /\ RequestTime \in Nat
      BY FactsOf, CostOf
    <2>3. CommandTimeout \in Nat /\ CommandTimeout > 0
      BY Products, CommandAssumption, ClockAssumption DEF CommandTimeout
    <2>4. now <= now + RequestTime
      BY <2>2
    <2>5. (now + RequestTime) + Cost(S) < (now + CommandTimeout) + Cost(S) + RequestTime
      BY <2>2, <2>3
    <2>6. QED
      BY <1>1, <2>1, <2>4, <2>5 DEF Bounded, Ahead, Cost, Requests
  <1>2. CASE d # c
    BY <1>2, OthersBounded DEF BInv, IInv, WriteTypeOK
  <1>3. QED
    BY <1>1, <1>2

\* A chunk is answered, in a pass of writes or of reads.
LEMMA ChunkBounded ==
    ASSUME BInv, NEW c \in Commands, stage[c] \in {"putting", "reading"}, rest[c] # {},
           NEW part \in Chunks(rest[c]),
           rest' = [rest EXCEPT ![c] = rest[c] \ part],
           due' = [due EXCEPT ![c] = IF rest'[c] = {} THEN due[c] ELSE due[c] + RequestTime],
           UNCHANGED <<now, stage, until, deadline, vids>>,
           NEW d \in Commands
    PROVE  Bounded(d)'
  <1>1. rest'[c] = rest[c] \ part
    BY DEF BInv, IInv, WriteTypeOK
  <1>2. due'[c] = IF rest'[c] = {} THEN due[c] ELSE due[c] + RequestTime
    BY DEF BInv, IInv, WriteTypeOK
  <1>3. rest[c] \in SUBSET Valves /\ rest'[c] \in SUBSET Valves
    BY <1>1, FactsOf
  <1>4. Cost(rest[c]) = Cost(rest'[c]) + RequestTime /\ Cost(rest'[c]) \in Nat
    BY <1>1, <1>3, CostOf, CostOfChunk
  <1>5. due[c] \in Nat /\ RequestTime \in Nat /\ now \in Nat
    BY FactsOf
  <1>6. CASE d = c
    <2>1. Ahead(c)' = IF rest'[c] = {} THEN RequestTime ELSE Cost(rest'[c])
      BY DEF Ahead, Cost, Requests
    <2>2. due'[c] + Ahead(c)' <= due[c] + Ahead(c)
      BY <1>2, <1>4, <1>5, <2>1 DEF Ahead
    <2>3. due[c] <= due'[c] /\ due'[c] \in Nat
      BY <1>2, <1>5
    <2>4. Ahead(c) \in Nat /\ Ahead(c)' \in Nat
      BY <1>4, <1>5, <2>1, FactsOf
    <2>5. Cost(vids[c])' = Cost(vids[c])
      BY DEF Cost, Requests
    <2>6. stage[c] \in Active /\ vids[c] # {} /\ now <= due[c] /\ Cost(vids[c]) \in Nat
          /\ deadline[c] \in Nat
      BY FactsOf DEF Bounded, Active
    <2>7. stage[c] = "putting" =>
             due'[c] + Ahead(c)' < deadline[c] + Cost(vids[c]) + RequestTime
      <3>1. stage[c] = "putting" =>
               due[c] + Ahead(c) < deadline[c] + Cost(vids[c]) + RequestTime
        BY <2>6, FactsOf DEF Bounded
      <3>2. QED
        BY <1>5, <2>2, <2>3, <2>4, <2>6, <3>1
    <2>8. stage[c] = "reading" =>
             due'[c] + Ahead(c)' < deadline[c] + 2 * Cost(vids[c]) + RequestTime
      <3>1. stage[c] = "reading" =>
               due[c] + Ahead(c) < deadline[c] + 2 * Cost(vids[c]) + RequestTime
        BY <2>6, FactsOf DEF Bounded
      <3>2. 2 * Cost(vids[c]) \in Nat
        BY <2>6
      <3>3. QED
        BY <1>5, <2>2, <2>3, <2>4, <2>6, <3>1, <3>2
    <2>9. stage[c] = "reading" => until[c] <= deadline[c]
      BY <2>6, FactsOf DEF Bounded
    <2>10. now <= due'[c]
      BY <1>5, <2>3, <2>6
    <2>11. QED
      BY <1>6, <2>5, <2>6, <2>7, <2>8, <2>9, <2>10 DEF Bounded
  <1>7. CASE d # c
    BY <1>7, OthersBounded DEF BInv, IInv, WriteTypeOK
  <1>8. QED
    BY <1>6, <1>7

\* A command sleeps until a moment that is not after its deadline.
LEMMA SleepBounded ==
    ASSUME BInv, NEW c \in Commands, stage[c] \in Active, NEW end \in Nat,
           end <= deadline[c], now < deadline[c] + Cost(vids[c]),
           Sleep(c, end), until'[c] = end,
           \A d \in Commands \ {c} : until'[d] = until[d] /\ rest'[d] = rest[d],
           UNCHANGED <<now, deadline, vids>>,
           NEW d \in Commands
    PROVE  Bounded(d)'
  <1> USE DEF Sleep
  <1>1. CASE d = c
    <2>1. stage'[c] = "sleeping" /\ due'[c] = now + Nap(end)
      BY DEF BInv, IInv, WriteTypeOK
    <2>2. vids[c] # {} /\ Cost(vids[c]) \in Nat /\ Cost(vids[c]) > 0
          /\ now \in Nat /\ deadline[c] \in Nat
      <3>1. vids[c] # {}
        BY FactsOf DEF Bounded
      <3>2. /\ Cost(vids[c]) >= RequestTime /\ Cost(vids[c]) \in Nat
            /\ RequestTime \in Nat /\ RequestTime > 0
            /\ now \in Nat /\ deadline[c] \in Nat
        BY <3>1, FactsOf
      <3>3. QED
        BY <3>1, <3>2
    <2>3. now <= now + Nap(end) /\ now + Nap(end) < deadline[c] + Cost(vids[c])
      BY <2>2, Constants DEF Nap
    <2>4. Cost(vids[c])' = Cost(vids[c])
      BY DEF Cost, Requests
    <2>5. QED
      BY <1>1, <2>1, <2>2, <2>3, <2>4 DEF Bounded
  <1>2. CASE d # c
    BY <1>2, OthersBounded DEF BInv, IInv, WriteTypeOK
  <1>3. QED
    BY <1>1, <1>2

\* A command is over.
LEMMA EndBounded ==
    ASSUME BInv, NEW c \in Commands, NEW how \in Ended, NEW left, End(c, how, left),
           UNCHANGED <<now, deadline, vids>>,
           NEW d \in Commands
    PROVE  Bounded(d)'
  <1> USE DEF End
  <1>1. CASE d = c
    <2>1. stage'[c] = how
      BY DEF BInv, IInv, WriteTypeOK
    <2>2. QED
      BY <1>1, <2>1 DEF Bounded, Active, Ended
  <1>2. CASE d # c
    BY <1>2, OthersBounded DEF BInv, IInv, WriteTypeOK
  <1>3. QED
    BY <1>1, <1>2

LEMMA AcceptedBounded ==
    ASSUME BInv, NEW c \in Commands, Accepted(c), NEW d \in Commands
    PROVE  Bounded(d)'
  <1>1. stage[c] = "putting" /\ rest[c] = {} /\ stage[c] \in Active
        /\ UNCHANGED <<now, deadline, vids>>
    BY DEF Accepted, Active, arguments
  <1>2. CASE End(c, "done", pending[c])
    BY <1>1, <1>2, EndBounded DEF Ended
  <1>3. CASE until' = [until EXCEPT ![c] = AttemptDeadline(c)] /\ Sleep(c, until'[c])
             /\ UNCHANGED <<attempt, pending, rest>>
    <2>1. until'[c] = AttemptDeadline(c)
      BY <1>3 DEF BInv, IInv, WriteTypeOK
    <2>2. AttemptDeadline(c) \in Nat /\ AttemptDeadline(c) <= deadline[c]
      <3>1. now \in Nat /\ deadline[c] \in Nat /\ Share \in Nat
        BY FactsOf, Constants
      <3>2. QED
        BY <3>1 DEF AttemptDeadline
    <2>3. now < deadline[c] + Cost(vids[c])
      <3>1. due[c] + RequestTime < deadline[c] + Cost(vids[c]) + RequestTime /\ now <= due[c]
        BY <1>1, FactsOf DEF Bounded, Ahead
      <3>2. /\ now \in Nat /\ due[c] \in Nat /\ deadline[c] \in Nat
            /\ Cost(vids[c]) \in Nat /\ RequestTime \in Nat
        BY FactsOf
      <3>3. QED
        BY <3>1, <3>2
    <2>4. \A e \in Commands \ {c} : until'[e] = until[e] /\ rest'[e] = rest[e]
      BY <1>3 DEF BInv, IInv, WriteTypeOK
    <2>5. Sleep(c, AttemptDeadline(c))
      BY <1>3, <2>1
    <2>6. QED
      BY <1>1, <2>1, <2>2, <2>3, <2>4, <2>5, SleepBounded
  <1>4. QED
    BY <1>2, <1>3 DEF Accepted

LEMMA WakeBounded ==
    ASSUME BInv, NEW c \in Commands, Wake(c), NEW d \in Commands
    PROVE  Bounded(d)'
  <1> USE DEF Wake, arguments
  <1>1. CASE d = c
    <2>1. /\ stage[c] = "sleeping" /\ due[c] <= now
          /\ stage'[c] = "reading" /\ rest'[c] = pending[c] /\ due'[c] = now + RequestTime
          /\ now' = now /\ vids' = vids /\ deadline' = deadline /\ until' = until
      BY DEF BInv, IInv, WriteTypeOK
    <2>2. /\ vids[c] # {} /\ now <= due[c] /\ due[c] < deadline[c] + Cost(vids[c])
          /\ until[c] <= deadline[c]
      BY <2>1, FactsOf DEF Bounded, Active
    <2>3. /\ Cost(vids[c]) \in Nat /\ Cost(vids[c]) >= RequestTime /\ RequestTime \in Nat
          /\ now \in Nat /\ due[c] \in Nat /\ deadline[c] \in Nat
      BY <2>2, FactsOf
    <2>4. Cost(pending[c]) \in Nat /\ Cost(pending[c]) <= Cost(vids[c])
      BY FactsOf, CostOf, CostGrows
    <2>5. Ahead(c)' = IF pending[c] = {} THEN RequestTime ELSE Cost(pending[c])
      BY <2>1 DEF Ahead, Cost, Requests
    <2>6. (now + RequestTime) + Ahead(c)' < deadline[c] + 2 * Cost(vids[c]) + RequestTime
      <3>1. Ahead(c)' \in Nat /\ Ahead(c)' <= Cost(vids[c])
        BY <2>3, <2>4, <2>5
      <3>2. now < deadline[c] + Cost(vids[c])
        BY <2>1, <2>2, <2>3
      <3>3. QED
        BY <2>3, <3>1, <3>2
    <2>7. Cost(vids[c])' = Cost(vids[c]) /\ now <= now + RequestTime
      BY <2>1, <2>3 DEF Cost, Requests
    <2>8. QED
      BY <1>1, <2>1, <2>2, <2>6, <2>7 DEF Bounded
  <1>2. CASE d # c
    BY <1>2, OthersBounded DEF BInv, IInv, WriteTypeOK
  <1>3. QED
    BY <1>1, <1>2

\* A pass of reads is judged: if the command goes on, it is before its deadline.
LEMMA JudgeBounded ==
    ASSUME BInv, NEW c \in Commands, stage[c] = "reading", NEW f, Judge(c, f),
           UNCHANGED <<now, deadline, vids>>,
           NEW d \in Commands
    PROVE  Bounded(d)'
  <1> DEFINE left == Unreported(c, f)
  <1>1. left \in SUBSET vids[c] /\ left \in SUBSET Valves
    BY FactsOf DEF Unreported
  <1>2. \/ \E how \in Ended : End(c, how, left) \/ End(c, how, {})
        \/ /\ now < until[c]
           /\ Sleep(c, until[c])
           /\ rest' = [rest EXCEPT ![c] = {}]
           /\ UNCHANGED <<attempt, until>>
        \/ /\ left # {} /\ now < deadline[c]
           /\ Send(c, attempt[c] + 1, left)
    BY DEF Judge, Ended
  <1> HIDE DEF left
  <1>3. /\ stage[c] \in Active /\ until[c] <= deadline[c] /\ vids[c] # {}
        /\ until[c] \in Nat /\ deadline[c] \in Nat /\ now \in Nat
        /\ Cost(vids[c]) \in Nat /\ RequestTime \in Nat
    BY FactsOf DEF Bounded, Active
  <1>4. CASE \E how \in Ended : End(c, how, left) \/ End(c, how, {})
    BY <1>4, EndBounded
  <1>5. CASE /\ now < until[c]
             /\ Sleep(c, until[c])
             /\ rest' = [rest EXCEPT ![c] = {}]
             /\ UNCHANGED <<attempt, until>>
    <2>1. now < deadline[c] + Cost(vids[c])
      BY <1>3, <1>5
    <2>2. until'[c] = until[c]
          /\ \A e \in Commands \ {c} : until'[e] = until[e] /\ rest'[e] = rest[e]
      BY <1>5 DEF BInv, IInv, WriteTypeOK
    <2>3. QED
      BY <1>3, <1>5, <2>1, <2>2, SleepBounded
  <1>6. CASE left # {} /\ now < deadline[c] /\ Send(c, attempt[c] + 1, left)
    <2> USE DEF Send
    <2>1. CASE d = c
      <3>1. stage'[c] = "putting" /\ due'[c] = now + RequestTime /\ rest'[c] = left
        BY <1>6 DEF BInv, IInv, WriteTypeOK
      <3>2. Cost(left) \in Nat /\ Cost(left) <= Cost(vids[c])
        BY <1>1, CostOf, CostGrows, FactsOf
      <3>3. (now + RequestTime) + Cost(left) < deadline[c] + Cost(vids[c]) + RequestTime
        BY <1>3, <1>6, <3>2
      <3>4. Ahead(c)' = Cost(left) /\ Cost(vids[c])' = Cost(vids[c])
        BY <1>6, <3>1 DEF Ahead, Cost, Requests
      <3>5. now <= now + RequestTime
        BY <1>3
      <3>6. QED
        BY <1>3, <2>1, <3>1, <3>3, <3>4, <3>5 DEF Bounded
    <2>2. CASE d # c
      BY <1>6, <2>2, OthersBounded DEF BInv, IInv, WriteTypeOK
    <2>3. QED
      BY <2>1, <2>2
  <1>7. QED
    BY <1>2, <1>4, <1>5, <1>6

\* Time passes, but not beyond what a command waits for.
LEMMA TickBounded ==
    ASSUME BInv, Tick, NEW d \in Commands
    PROVE  Bounded(d)'
  <1>1. UNCHANGED <<stage, due, rest, until, deadline, vids>> /\ now' = now + 1
    BY DEF Tick, arguments, locals
  <1>2. stage[d] \in Active => now + 1 <= due[d]
    <2>1. now \in Nat /\ due[d] \in Nat
      BY FactsOf
    <2>2. stage[d] \in Active => now < due[d]
      BY DEF Tick
    <2>3. QED
      BY <2>1, <2>2
  <1>3. QED
    BY <1>1, <1>2, FactsOf DEF Bounded, Ahead, Cost, Requests

LEMMA StepBounded == BInv /\ [Next]_vars => BInv'
  <1> SUFFICES ASSUME BInv, [Next]_vars PROVE BInv'
    OBVIOUS
  <1>1. IInv'
    BY StepIInv DEF BInv
  <1> SUFFICES ASSUME NEW d \in Commands PROVE Bounded(d)'
    BY <1>1 DEF BInv
  <1>2. ASSUME NEW c \in Commands, NEW S \in SUBSET Valves, Begin(c, S) PROVE Bounded(d)'
    BY <1>2, BeginBounded
  <1>3. ASSUME NEW c \in Commands, PutChunk(c) PROVE Bounded(d)'
    <2>1. PICK part \in Chunks(rest[c]) : rest' = [rest EXCEPT ![c] = rest[c] \ part]
      BY <1>3 DEF PutChunk
    <2>2. QED
      BY <1>3, <2>1, ChunkBounded DEF PutChunk, arguments
  <1>4. ASSUME NEW c \in Commands, ReadChunk(c) PROVE Bounded(d)'
    <2>1. PICK part \in Chunks(rest[c]) : rest' = [rest EXCEPT ![c] = rest[c] \ part]
      BY <1>4 DEF ReadChunk
    <2>2. QED
      BY <1>4, <2>1, ChunkBounded DEF ReadChunk, arguments
  <1>5. ASSUME NEW c \in Commands, Accepted(c) \/ Wake(c) PROVE Bounded(d)'
    BY <1>5, AcceptedBounded, WakeBounded
  <1>6. ASSUME NEW c \in Commands, EndOfRead(c) PROVE Bounded(d)'
    BY <1>6, JudgeBounded DEF EndOfRead, arguments
  <1>7. ASSUME NEW c \in Commands, ReadFails(c) PROVE Bounded(d)'
    BY <1>7, JudgeBounded DEF ReadFails, arguments
  <1>8. ASSUME NEW c \in Commands, Raises(c) PROVE Bounded(d)'
    BY <1>8, EndBounded DEF Raises, arguments, Ended
  <1>9. ASSUME \/ \E v \in Valves : Trip(v) \/ \E c \in Commands : Land(c, v)
               \/ UNCHANGED vars
        PROVE  Bounded(d)'
    BY <1>9, OthersBounded DEF Trip, Land, vars, arguments, locals
  <1>10. CASE Tick
    BY <1>10, TickBounded, Zenon
  <1>11. QED
    BY <1>1, <1>2, <1>3, <1>4, <1>5, <1>6, <1>7, <1>8, <1>9, <1>10 DEF Next, Answer

\* However many attempts and chunks there are and however short a share is, a
\* command never runs on for longer after its timeout than one pass of writes and
\* one of reads take (client.py:407).
THEOREM TimeoutIsShared == Spec => []RetriesShareTheTimeout
  <1>1. Init => BInv
    BY InitIInv DEF BInv, Bounded, Init, Active
  <1>2. ASSUME BInv, NEW c \in Commands, stage[c] \in Active
        PROVE  now < deadline[c] + 2 * Requests(vids[c]) * RequestTime
    <2>1. now <= due[c] /\ vids[c] # {} /\ stage[c] \in {"putting", "sleeping", "reading"}
      BY <1>2, FactsOf DEF Bounded, Active
    <2>2. due[c] < deadline[c] + 2 * Cost(vids[c])
      <3>1. /\ stage[c] = "putting" =>
                  due[c] + Ahead(c) < deadline[c] + Cost(vids[c]) + RequestTime
            /\ stage[c] = "sleeping" => due[c] < deadline[c] + Cost(vids[c])
            /\ stage[c] = "reading" =>
                  due[c] + Ahead(c) < deadline[c] + 2 * Cost(vids[c]) + RequestTime
        BY <1>2, FactsOf DEF Bounded
      <3>2. /\ due[c] \in Nat /\ deadline[c] \in Nat /\ RequestTime \in Nat
            /\ Cost(vids[c]) \in Nat /\ Ahead(c) \in Nat /\ Ahead(c) >= RequestTime
        BY <1>2, FactsOf
      <3>3. QED
        BY <2>1, <3>1, <3>2
    <2>3. 2 * Requests(vids[c]) * RequestTime = 2 * Cost(vids[c])
      <3>1. Requests(vids[c]) \in Nat /\ RequestTime \in Nat
        BY <1>2, FactsOf, CostOf
      <3>2. QED
        BY <3>1, Products DEF Cost
    <2>4. now \in Nat /\ due[c] \in Nat /\ deadline[c] \in Nat /\ Cost(vids[c]) \in Nat
      BY <1>2, FactsOf
    <2>5. QED
      BY <2>1, <2>2, <2>3, <2>4
  <1>3. BInv => RetriesShareTheTimeout
    BY <1>2 DEF RetriesShareTheTimeout
  <1>4. QED
    BY <1>1, <1>3, StepBounded, PTL DEF Spec
=============================================================================
