---------------------------- MODULE ConfirmedWrite ----------------------------
(***************************************************************************)
(* async_set_mode and async_set_flow_sensitivity of FloLogicClient         *)
(* (src/pyflologic/client.py), with _async_command, _async_await_reflected *)
(* and async_get_valves under them: a write is sent to the valves in       *)
(* chunks, the valves are read back until they reflect it, and the ones    *)
(* that do not are sent the write again, all within one timeout.  Several  *)
(* commands of one client run concurrently.                                *)
(*                                                                         *)
(* FloLogic is the environment: "a 200 means the request was accepted, not *)
(* that the valve acted on it".  Accepted writes are in flight until the   *)
(* valve takes them up, in any order and after any delay; one that         *)
(* FloLogic drops, as a rate below the valve's winter setting, stays in    *)
(* flight for ever.  A valve may also close by itself.  The order in which *)
(* a caller lists the VIDs is left open, so a chunk is any part of the     *)
(* right size.                                                             *)
(***************************************************************************)
EXTENDS ValveModes, FiniteSets

CONSTANTS
    Commands,     \* calls of the two operations, each made at most once
    Valves,       \* VIDs
    Modes,        \* the modes that are commanded
    Rates,        \* the flow sensitivities that are commanded
    OtherRate,    \* any other, or one that is not reported
    Confirm,      \* the values of the argument "confirm"
    ChunkSize,    \* const.MAX_VIDS_PER_REQUEST
    Attempts,     \* _COMMAND_ATTEMPTS
    Share,        \* one attempt's share of the timeout
    Poll,         \* _CONFIRM_POLL_SECONDS
    RequestTime,  \* longest time one _async_request takes
    MaxStart,     \* bound of the model: commands are made up to this time
    MaxTime,      \* bound of the model on the clock
    MaxTrips      \* bound of the model: how often a valve closes by itself

ASSUME CommandAssumption ==
    /\ Modes \subseteq SettableModes
    /\ Rates \cap SettableModes = {} /\ OtherRate \notin Rates
    /\ Confirm \subseteq BOOLEAN
    /\ IsFiniteSet(Valves)
    /\ ChunkSize \in Nat \ {0} /\ Attempts \in Nat \ {0}

ASSUME ClockAssumption ==
    /\ Share \in Nat \ {0} /\ Poll \in Nat \ {0} /\ RequestTime \in Nat \ {0}
    /\ MaxStart \in Nat /\ MaxTime \in Nat /\ MaxTrips \in Nat

\* The argument "timeout".
CommandTimeout == Attempts * Share

VARIABLES
    now,        \* the event loop's clock
    status,     \* FloLogic: what it reports of each valve, its Mode word and its
                \* flow sensitivity
    flight,     \* FloLogic: for each command and valve, how many accepted writes
                \* the valve has yet to act on
    trips,      \* how often a valve has closed by itself
    valves,     \* self._valves: the states last read
    stage,      \* where each command is
    vids,       \* the arguments of each command
    target,     \* ... a mode or a rate
    confirm,
    deadline,   \* the local variables of _async_command ...
    attempt,
    pending,
    until,      \* ... and of _async_await_reflected: its "deadline"
    found,      \* ... and of async_get_valves
    rest,       \* the part of pending that the current pass has yet to reach
    due,        \* when the current request or sleep is over at the latest
    seen        \* history: valves that a read of the command showed at its target

service == <<status, flight, trips>>
arguments == <<vids, target, confirm, deadline>>
locals == <<attempt, pending, until, found, rest, due, seen>>
vars == <<now, service, valves, stage, arguments, locals>>

Active == {"putting", "sleeping", "reading"}
Ended == {"done", "command_error", "raised"}

Targets == Modes \cup Rates
States == [word : Words, rate : Rates \cup {OtherRate}]

\* What a read returned: the states of some valves, by valve.
IsReading(f) ==
    /\ f = [v \in DOMAIN f |-> f[v]]
    /\ DOMAIN f \subseteq Valves
    /\ \A v \in DOMAIN f : f[v] \in States
Nothing == [v \in {} |-> {}]

\* dict.update
Updated(old, new) ==
    [v \in DOMAIN old \cup DOMAIN new |-> IF v \in DOMAIN new THEN new[v] ELSE old[v]]

\* _chunks: the parts of S that the next request may carry.
Chunks(S) ==
    {part \in SUBSET S : Cardinality(part) = IF Cardinality(S) < ChunkSize
                                             THEN Cardinality(S) ELSE ChunkSize}

\* How many requests it takes to reach all of S.
Requests(S) == (Cardinality(S) + ChunkSize - 1) \div ChunkSize

\* The states with which a valve shows that it took up a command: with Delay Away
\* configured it holds the Away command back.
TakenUp(s, aim) ==
    IF aim \in Rates THEN {[s EXCEPT !.rate = aim]}
    ELSE {[s EXCEPT !.word = m] :
             m \in IF aim = "AWAY" THEN {{"AWAY"}, {"HOME", "DELAY_AWAY"}} ELSE {{aim}}}

\* The predicate "reflects": mode_reflects or _drip_rate_reflects.
Reflects(s, aim) == IF aim \in Rates THEN s.rate = aim ELSE ModeReflects(s.word, aim)

Init ==
    /\ now = 0
    /\ status \in [Valves -> {[word |-> {m}, rate |-> OtherRate] : m \in Modes}]
    /\ flight = [c \in Commands |-> [v \in Valves |-> 0]]
    /\ trips = 0
    /\ valves = Nothing
    /\ stage = [c \in Commands |-> "new"]
    /\ vids = [c \in Commands |-> {}]
    /\ target \in [Commands -> Targets]
    /\ confirm \in [Commands -> Confirm]
    /\ deadline = [c \in Commands |-> 0]
    /\ attempt = [c \in Commands |-> 0]
    /\ pending = [c \in Commands |-> {}]
    /\ until = [c \in Commands |-> 0]
    /\ found = [c \in Commands |-> Nothing]
    /\ rest = [c \in Commands |-> {}]
    /\ due = [c \in Commands |-> 0]
    /\ seen = [c \in Commands |-> {}]

-----------------------------------------------------------------------------
\* Send the write of attempt k to the valves S, starting with the first chunk.
Send(c, k, S) ==
    /\ stage' = [stage EXCEPT ![c] = "putting"]
    /\ attempt' = [attempt EXCEPT ![c] = k]
    /\ pending' = [pending EXCEPT ![c] = S]
    /\ rest' = [rest EXCEPT ![c] = S]
    /\ until' = [until EXCEPT ![c] = 0]
    /\ due' = [due EXCEPT ![c] = now + RequestTime]

\* A call with a list of VIDs that is not empty, and a rate that is positive.
Begin(c, S) ==
    /\ stage[c] = "new" /\ now <= MaxStart
    /\ S # {}
    /\ vids' = [vids EXCEPT ![c] = S]
    /\ deadline' = [deadline EXCEPT ![c] = now + CommandTimeout]
    /\ Send(c, 1, S)
    /\ UNCHANGED <<now, service, valves, target, confirm, found, seen>>

\* FloLogic accepts the write for one chunk.
PutChunk(c) ==
    /\ stage[c] = "putting" /\ rest[c] # {}
    /\ \E part \in Chunks(rest[c]) :
          /\ flight' = [flight EXCEPT ![c] = [v \in Valves |->
                                   flight[c][v] + IF v \in part THEN 1 ELSE 0]]
          /\ rest' = [rest EXCEPT ![c] = rest[c] \ part]
    /\ due' = [due EXCEPT ![c] = IF rest'[c] = {} THEN due[c] ELSE due[c] + RequestTime]
    /\ UNCHANGED <<now, status, trips, valves, stage, arguments,
                   attempt, pending, until, found, seen>>

\* Mutants of AttemptDeadline: an attempt gets one poll, or outlasts the command.
OnePoll(c) == IF deadline[c] < now + Poll THEN deadline[c] ELSE now + Poll
OwnShare(c) == now + Share

\* attempt_deadline: an attempt's share of the timeout, cut off at its end.
AttemptDeadline(c) == IF deadline[c] < now + Share THEN deadline[c] ELSE now + Share

\* How long _async_await_reflected sleeps before its next read.
Nap(end) == IF end <= now THEN 0 ELSE IF end - now < Poll THEN end - now ELSE Poll

Sleep(c, end) ==
    /\ stage' = [stage EXCEPT ![c] = "sleeping"]
    /\ due' = [due EXCEPT ![c] = now + Nap(end)]

\* The command is over, and its local variables are gone.
End(c, how, left) ==
    /\ stage' = [stage EXCEPT ![c] = how]
    /\ pending' = [pending EXCEPT ![c] = left]
    /\ rest' = [rest EXCEPT ![c] = {}]
    /\ until' = [until EXCEPT ![c] = 0]
    /\ due' = [due EXCEPT ![c] = 0]
    /\ UNCHANGED attempt

\* The last write was answered: return, or start waiting for the valves.
Accepted(c) ==
    /\ stage[c] = "putting" /\ rest[c] = {}
    /\ \/ /\ ~confirm[c]
          /\ End(c, "done", pending[c])
       \/ /\ confirm[c]
          /\ until' = [until EXCEPT ![c] = AttemptDeadline(c)]
          /\ Sleep(c, until'[c])
          /\ UNCHANGED <<attempt, pending, rest>>
    /\ UNCHANGED <<now, service, valves, arguments, found, seen>>

\* Mutant of Wake: every valve of the command is read again.
WakeForAll(c) ==
    /\ stage[c] = "sleeping" /\ due[c] <= now
    /\ stage' = [stage EXCEPT ![c] = "reading"]
    /\ rest' = [rest EXCEPT ![c] = vids[c]]
    /\ due' = [due EXCEPT ![c] = now + RequestTime]
    /\ UNCHANGED <<now, service, valves, arguments, attempt, pending, until, found, seen>>

\* The sleep is over, and async_get_valves starts.
Wake(c) ==
    /\ stage[c] = "sleeping" /\ due[c] <= now
    /\ stage' = [stage EXCEPT ![c] = "reading"]
    /\ rest' = [rest EXCEPT ![c] = pending[c]]
    /\ due' = [due EXCEPT ![c] = now + RequestTime]
    /\ UNCHANGED <<now, service, valves, arguments, attempt, pending, until, found, seen>>

\* FloLogic reports the valves of one chunk; it may leave some out.
ReadChunk(c) ==
    /\ stage[c] = "reading" /\ rest[c] # {}
    /\ \E part \in Chunks(rest[c]) : \E rows \in SUBSET part :
          /\ rest' = [rest EXCEPT ![c] = rest[c] \ part]
          /\ found' = [found EXCEPT ![c] = Updated(found[c], [v \in rows |-> status[v]])]
          /\ seen' = [seen EXCEPT ![c] =
                         seen[c] \cup {v \in rows : Reflects(status[v], target[c])}]
    /\ due' = [due EXCEPT ![c] = IF rest'[c] = {} THEN due[c] ELSE due[c] + RequestTime]
    /\ UNCHANGED <<now, service, valves, stage, arguments, attempt, pending, until>>

\* Mutant of Unreported: a valve without a row counts as reported.
Contradicting(c, f) == {v \in pending[c] \cap DOMAIN f : ~Reflects(f[v], target[c])}

\* Valves still not reporting the target, given the readings f.
Unreported(c, f) ==
    {v \in pending[c] : v \notin DOMAIN f \/ ~Reflects(f[v], target[c])}

\* Mutant of Judge: the reads go on until every valve reports the target.
JudgePatiently(c, f) ==
    LET left == Unreported(c, f)
    IN  /\ found' = [found EXCEPT ![c] = Nothing]
        /\ \/ left = {} /\ End(c, "done", {})
           \/ /\ left # {}
              /\ Sleep(c, until[c])
              /\ pending' = [pending EXCEPT ![c] = left]
              /\ rest' = [rest EXCEPT ![c] = {}]
              /\ UNCHANGED <<attempt, until>>

\* The pass is judged by the readings f: every valve reports the target; or
\* there is time for another read; or for another attempt; or for neither.
Judge(c, f) ==
    LET left == Unreported(c, f)
    IN  /\ found' = [found EXCEPT ![c] = Nothing]
        /\ \/ left = {} /\ End(c, "done", {})
           \/ /\ left # {} /\ now < until[c]
              /\ Sleep(c, until[c])
              /\ pending' = [pending EXCEPT ![c] = left]
              /\ rest' = [rest EXCEPT ![c] = {}]
              /\ UNCHANGED <<attempt, until>>
           \/ /\ left # {} /\ now >= until[c]
              /\ now < deadline[c] /\ attempt[c] < Attempts
              /\ Send(c, attempt[c] + 1, left)
           \/ /\ left # {} /\ now >= until[c]
              /\ now >= deadline[c] \/ attempt[c] = Attempts
              /\ End(c, "command_error", left)

\* Mutant of EndOfRead: the readings replace the ones before them.
EndOfReadReplaces(c) ==
    /\ stage[c] = "reading" /\ rest[c] = {}
    /\ valves' = found[c]
    /\ Judge(c, found[c])
    /\ UNCHANGED <<now, service, arguments, seen>>

\* The last row was read: async_get_valves keeps what it found, and returns.
EndOfRead(c) ==
    /\ stage[c] = "reading" /\ rest[c] = {}
    /\ valves' = Updated(valves, found[c])
    /\ Judge(c, found[c])
    /\ UNCHANGED <<now, service, arguments, seen>>

\* A read of the pass ends in FloLogicConnectionError, and what the pass found
\* so far is dropped with it.
ReadFails(c) ==
    /\ stage[c] = "reading"
    /\ Judge(c, Nothing)
    /\ UNCHANGED <<now, service, valves, arguments, seen>>

\* Any other exception, from a write or a read, or the task is cancelled: it
\* leaves the command, whatever FloLogic has accepted by then.
Raises(c) ==
    /\ stage[c] \in Active
    /\ End(c, "raised", pending[c])
    /\ found' = [found EXCEPT ![c] = Nothing]
    /\ UNCHANGED <<now, service, valves, arguments, seen>>

-----------------------------------------------------------------------------
\* A valve takes up an accepted write of c: what it reports from then on.
Land(c, v) ==
    /\ flight[c][v] > 0
    /\ flight' = [flight EXCEPT ![c][v] = flight[c][v] - 1]
    /\ \E s \in TakenUp(status[v], target[c]) : status' = [status EXCEPT ![v] = s]
    /\ UNCHANGED <<now, trips, valves, stage, arguments, locals>>

\* A sensor finds a leak, and the valve closes.
Trip(v) ==
    /\ trips < MaxTrips
    /\ trips' = trips + 1
    /\ status' = [status EXCEPT ![v].word = @ \cup {"SENSOR_LEAK", "SHUTOFF"}]
    /\ UNCHANGED <<now, flight, valves, stage, arguments, locals>>

\* Time passes, but not beyond the end of a sleep or of a request.
Tick ==
    /\ now < MaxTime
    /\ \A c \in Commands : stage[c] \in Active => now < due[c]
    /\ now' = now + 1
    /\ UNCHANGED <<service, valves, stage, arguments, locals>>

Answer(c) == PutChunk(c) \/ Accepted(c) \/ ReadChunk(c) \/ EndOfRead(c) \/ ReadFails(c)

Next ==
    \/ \E c \in Commands : \/ \E S \in SUBSET Valves : Begin(c, S)
                           \/ Answer(c) \/ Wake(c) \/ Raises(c)
    \/ \E v \in Valves : Trip(v) \/ \E c \in Commands : Land(c, v)
    \/ Tick

Spec == Init /\ [][Next]_vars

\* The event loop runs every ready task, aiohttp's total timeout ends a request
\* without an answer, and time passes.
FairSpec ==
    /\ Spec
    /\ \A c \in Commands : WF_vars(Answer(c)) /\ WF_vars(Wake(c))
    /\ WF_vars(Tick)

-----------------------------------------------------------------------------
\* Types, and that a pass only reaches valves that are pending.
WriteTypeOK ==
    /\ now \in 0..MaxTime
    /\ status \in [Valves -> States]
    /\ flight \in [Commands -> [Valves -> 0..Attempts]]
    /\ trips \in 0..MaxTrips
    /\ IsReading(valves)
    /\ stage \in [Commands -> {"new"} \cup Active \cup Ended]
    /\ target \in [Commands -> Targets] /\ confirm \in [Commands -> Confirm]
    /\ deadline \in [Commands -> Nat] /\ until \in [Commands -> Nat]
    /\ due \in [Commands -> Nat]
    /\ attempt \in [Commands -> 0..Attempts]
    /\ vids \in [Commands -> SUBSET Valves] /\ pending \in [Commands -> SUBSET Valves]
    /\ rest \in [Commands -> SUBSET Valves] /\ seen \in [Commands -> SUBSET Valves]
    /\ found = [c \in Commands |-> found[c]]
    /\ \A c \in Commands :
          /\ pending[c] \subseteq vids[c]
          /\ rest[c] \subseteq pending[c] \/ stage[c] \notin {"putting", "reading"}
          /\ IsReading(found[c]) /\ DOMAIN found[c] \subseteq vids[c]
          /\ seen[c] \subseteq vids[c]

\* "By default this returns only once every valve reports the new mode"
\* (client.py:344): each of the command's valves was seen at the target by a
\* read of this command, through chunks, missing rows, failed reads and resends.
ConfirmedMeansObserved ==
    \A c \in Commands : stage[c] = "done" /\ confirm[c] => vids[c] \subseteq seen[c]

\* The command returns with get_valve showing the target, if nobody else reads
\* the valves: what a read found survives the later reads of the same command,
\* which leave out the valves that already reported.
ConfirmedIsCached ==
    \A c \in Commands : stage[c] = "done" /\ confirm[c] =>
        \A v \in vids[c] :
            \/ \E d \in Commands \ {c} : v \in vids[d]
            \/ v \in DOMAIN valves /\ Reflects(valves[v], target[c])

\* "did not report it within {timeout}s" (client.py:437): the error never comes
\* before the timeout is over, although it is three attempts that give up, each
\* after a share of the timeout that starts when its last write was answered.
ErrorOnlyAtTheDeadline ==
    \A c \in Commands :
        stage[c] = "command_error" => now >= deadline[c] /\ pending[c] # {}

\* "The retries share the caller's timeout rather than multiplying it"
\* (client.py:407): a command outlives its deadline by less than one pass of
\* writes and one of reads, however many times it was sent.
RetriesShareTheTimeout ==
    \A c \in Commands : stage[c] \in Active =>
        now < deadline[c] + 2 * Requests(vids[c]) * RequestTime

\* Every command ends: confirmed, failed or with an exception.
EveryCommandEnds ==
    \A c \in Commands : stage[c] \in Active ~> stage[c] \in Ended
=============================================================================
