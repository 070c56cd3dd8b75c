------------------------------ MODULE ValveCache ------------------------------
(***************************************************************************)
(* The valves a FloLogicClient knows (src/pyflologic/client.py):           *)
(* async_refresh with its list of VIDs and that list's age,                *)
(* async_list_vids page by page, and async_get_valves request by request.  *)
(* Several calls run concurrently on one client and share _vids,           *)
(* _discovered_at and _valves.                                             *)
(*                                                                         *)
(* FloLogic is the environment: valves join the account at any place of    *)
(* the listing, leave it and change state between any two requests.  The   *)
(* step in which FloLogic handles a request is apart from the step in      *)
(* which the client acts on the last answer, so answers may overtake each  *)
(* other.                                                                  *)
(***************************************************************************)
EXTENDS Selections, Integers, FiniteSets, SequencesExt

CONSTANTS
    Tasks,        \* concurrent callers of the client
    Valves,       \* VIDs
    Lookups,      \* the arguments of async_get_valves: lists of VIDs
    PageSize,     \* rows FloLogic puts on a page
    ChunkSize,    \* const.MAX_VIDS_PER_REQUEST
    Interval,     \* discovery_interval
    MaxTime,      \* bound of the model on the clock
    MaxCalls,     \* bound of the model on the calls made
    MaxChanges    \* bound of the model on what happens to account and valves

ASSUME CacheAssumption ==
    /\ Lookups \subseteq Seq(Valves) \ {<<>>}
    /\ IsFiniteSet(Valves)
    /\ PageSize \in Nat \ {0} /\ ChunkSize \in Nat \ {0}
    /\ Interval \in Nat /\ MaxTime \in Nat
    /\ MaxCalls \in Nat /\ MaxChanges \in Nat

VARIABLES
    now,          \* time.monotonic
    account,      \* FloLogic: the account's VIDs in the order of the listing
    status,       \* FloLogic: how often the state of each valve has changed
    changes,      \* how much has happened to account and status
    vids,         \* self._vids
    discoveredAt, \* self._discovered_at
    valves,       \* self._valves: the states last kept, by valve
    calls,        \* how many calls were made
    stage,        \* where each task is
    refreshes,    \* whether the task's call is an async_refresh
    page,         \* the local variables of async_list_vids: page
    listed,       \* ... and vids
    rest,         \* the part of the list that async_get_valves has yet to ask for
    found,        \* the local variable of async_get_valves, and what a call returned
    since,        \* history: the states of the valves when the call began
    before,       \* history: the states kept when the call began
    owed,         \* history: valves the call was to find, still in the account
    was,          \* history: valves in the account at some time during the call
    departed      \* history: how many left the account during the listing

service == <<account, status, changes>>
client == <<vids, discoveredAt, valves>>
locals == <<calls, stage, refreshes, page, listed, rest, found>>
history == <<since, before, owed, was, departed>>
vars == <<now, service, client, locals, history>>

Resting == {"idle", "done"}
Busy == {"listing", "listed", "reading"}

\* _vids before the first discovery.
None == <<"None">>

Members == Range(account)

\* The refinement: a task is inside a call of ValveReads while it is busy.
Reading == {t \in Tasks : stage[t] \in Busy}
Reads == INSTANCE ValveReads WITH reading <- Reading

Init ==
    /\ now = 0
    /\ account \in {s \in SeqOf(Valves, Cardinality(Valves)) : IsInjective(s)}
    /\ status = [v \in Valves |-> 0] /\ changes = 0
    /\ vids = None /\ discoveredAt = 0
    /\ valves = Reads!Nothing
    /\ calls = 0 /\ stage = [t \in Tasks |-> "idle"]
    /\ refreshes = [t \in Tasks |-> FALSE]
    /\ page = [t \in Tasks |-> 0]
    /\ listed = [t \in Tasks |-> <<>>]
    /\ rest = [t \in Tasks |-> <<>>]
    /\ found = [t \in Tasks |-> Reads!Nothing]
    /\ since = [t \in Tasks |-> status]
    /\ before = [t \in Tasks |-> Reads!Nothing]
    /\ owed = [t \in Tasks |-> {}]
    /\ was = [t \in Tasks |-> {}]
    /\ departed = [t \in Tasks |-> 0]

-----------------------------------------------------------------------------
\* A call is made that is to find the valves S.
Opens(t, S) ==
    /\ stage[t] \in Resting
    /\ calls < MaxCalls /\ calls' = calls + 1
    /\ since' = [since EXCEPT ![t] = status]
    /\ before' = [before EXCEPT ![t] = valves]
    /\ owed' = [owed EXCEPT ![t] = S \cap Members]
    /\ was' = [was EXCEPT ![t] = Members]
    /\ departed' = [departed EXCEPT ![t] = 0]

\* Mutant of ReadValves: what an earlier call of the task found is kept.
ReadValvesOnTop(t, list) ==
    /\ stage' = [stage EXCEPT ![t] = "reading"]
    /\ rest' = [rest EXCEPT ![t] = list]
    /\ UNCHANGED found

\* The beginning of async_get_valves.
ReadValves(t, list) ==
    /\ stage' = [stage EXCEPT ![t] = "reading"]
    /\ rest' = [rest EXCEPT ![t] = list]
    /\ found' = [found EXCEPT ![t] = Reads!Nothing]

\* The end of async_refresh, given the list to read: no valves need no request.
UseList(t, list) ==
    \/ /\ list = <<>>
       /\ valves' = Reads!Nothing
       /\ stage' = [stage EXCEPT ![t] = "done"]
       /\ rest' = [rest EXCEPT ![t] = <<>>]
       /\ found' = [found EXCEPT ![t] = Reads!Nothing]
    \/ /\ list # <<>>
       /\ ReadValves(t, list)
       /\ UNCHANGED valves

\* The list is missing, not wanted, or too old.
NeedsDiscovery(rediscover) ==
    vids = None \/ rediscover \/ now - discoveredAt >= Interval

\* async_refresh, up to its first request.
Refresh(t, rediscover) ==
    /\ refreshes' = [refreshes EXCEPT ![t] = TRUE]
    /\ \/ /\ NeedsDiscovery(rediscover)
          /\ stage' = [stage EXCEPT ![t] = "listing"]
          /\ page' = [page EXCEPT ![t] = 1]
          /\ found' = [found EXCEPT ![t] = Reads!Nothing]
          /\ Opens(t, Members)
          /\ UNCHANGED <<valves, listed, rest>>
       \/ /\ ~NeedsDiscovery(rediscover)
          /\ UseList(t, vids)
          /\ Opens(t, Range(vids))
          /\ UNCHANGED <<page, listed>>
    /\ UNCHANGED <<now, service, vids, discoveredAt>>

\* async_get_valves, called directly.
GetValves(t, list) ==
    /\ refreshes' = [refreshes EXCEPT ![t] = FALSE]
    /\ ReadValves(t, list)
    /\ Opens(t, Range(list))
    /\ UNCHANGED <<now, service, client, page, listed>>

\* FloLogic's pages: rows that have moved between two requests are on two of
\* them or on none.
LastPage == IF account = <<>> THEN 1 ELSE (Len(account) + PageSize - 1) \div PageSize
HasNextPage(p) == p < LastPage
Rows(p) ==
    SubSeq(account, (p - 1) * PageSize + 1,
           IF p * PageSize < Len(account) THEN p * PageSize ELSE Len(account))

Listed(t, rows, more) ==
    /\ stage[t] = "listing"
    /\ listed' = [listed EXCEPT ![t] = listed[t] \o rows]
    /\ page' = [page EXCEPT ![t] = IF more THEN page[t] + 1 ELSE 0]
    /\ stage' = [stage EXCEPT ![t] = IF more THEN "listing" ELSE "listed"]
    /\ UNCHANGED <<now, service, client, calls, refreshes, rest, found, history>>

\* Rows of the page that are not listed yet.
NewRows(t) == Kept(Rows(page[t]), Valves \ Range(listed[t]))

\* Mutants of ListPage: all rows are added; the last page is left out, or is
\* only known by the empty one after it.
ListPageTwice(t) == Listed(t, Rows(page[t]), HasNextPage(page[t]))
ListPageShort(t) == Listed(t, NewRows(t), HasNextPage(page[t] + 1))
ListPageUntilEmpty(t) == Listed(t, NewRows(t), Rows(page[t]) # <<>>)

\* One page of async_list_vids.
ListPage(t) == Listed(t, NewRows(t), HasNextPage(page[t]))

\* async_list_vids returns, and the refresh goes on with the new list.
EndOfListing(t) ==
    /\ stage[t] = "listed"
    /\ vids' = listed[t]
    /\ discoveredAt' = now
    /\ UseList(t, listed[t])
    /\ listed' = [listed EXCEPT ![t] = <<>>]
    /\ UNCHANGED <<now, service, calls, refreshes, page, history>>

\* FloLogic reports the valves of one request that are in the account.
ReadChunk(t) ==
    LET n == IF Len(rest[t]) < ChunkSize THEN Len(rest[t]) ELSE ChunkSize
        rows == Range(SubSeq(rest[t], 1, n)) \cap Members
    IN  /\ stage[t] = "reading" /\ rest[t] # <<>>
        /\ found' = [found EXCEPT ![t] =
                        Reads!Updated(found[t], [v \in rows |-> status[v]])]
        /\ rest' = [rest EXCEPT ![t] = SubSeq(rest[t], n + 1, Len(rest[t]))]
        /\ UNCHANGED <<now, service, client, calls, stage, refreshes, page, listed,
                       history>>

\* The last answer arrived: async_get_valves adds what it found to _valves, and
\* async_refresh puts it in place of _valves without another await.
EndOfRead(t) ==
    /\ stage[t] = "reading" /\ rest[t] = <<>>
    /\ stage' = [stage EXCEPT ![t] = "done"]
    /\ valves' = IF refreshes[t] THEN found[t] ELSE Reads!Updated(valves, found[t])
    /\ UNCHANGED <<now, service, vids, discoveredAt, calls, refreshes, page, listed,
                   rest, found, history>>

\* A request raises, or the task is cancelled: a list that was fetched stays,
\* what was read is dropped.
Fails(t) ==
    /\ stage[t] \in Busy
    /\ stage' = [stage EXCEPT ![t] = "idle"]
    /\ page' = [page EXCEPT ![t] = 0]
    /\ listed' = [listed EXCEPT ![t] = <<>>]
    /\ rest' = [rest EXCEPT ![t] = <<>>]
    /\ found' = [found EXCEPT ![t] = Reads!Nothing]
    /\ before' = [before EXCEPT ![t] = Reads!Nothing]
    /\ owed' = [owed EXCEPT ![t] = {}]
    /\ was' = [was EXCEPT ![t] = {}]
    /\ departed' = [departed EXCEPT ![t] = 0]
    /\ UNCHANGED <<now, service, client, calls, refreshes, since>>

-----------------------------------------------------------------------------
Happens == changes < MaxChanges /\ changes' = changes + 1

\* A valve joins the account, as row i of the listing.
Join(v, i) ==
    /\ Happens
    /\ v \notin Members
    /\ account' = InsertAt(account, i, v)
    /\ was' = [t \in Tasks |-> IF stage[t] \in Busy THEN was[t] \cup {v} ELSE was[t]]
    /\ UNCHANGED <<now, status, client, locals, since, before, owed, departed>>

\* The valve of row i leaves it.
Depart(i) ==
    /\ Happens
    /\ account' = RemoveAt(account, i)
    /\ owed' = [t \in Tasks |->
                   IF stage[t] \in Busy THEN owed[t] \ {account[i]} ELSE owed[t]]
    /\ departed' = [t \in Tasks |->
                       IF stage[t] = "listing" THEN departed[t] + 1 ELSE departed[t]]
    /\ UNCHANGED <<now, status, client, locals, since, before, was>>

\* Something happens to a valve: its reported state is a new one.
Change(v) ==
    /\ Happens
    /\ status' = [status EXCEPT ![v] = status[v] + 1]
    /\ UNCHANGED <<now, account, client, locals, history>>

Tick ==
    /\ now < MaxTime
    /\ now' = now + 1
    /\ UNCHANGED <<service, client, locals, history>>

Next ==
    \/ \E t \in Tasks : \/ \E rediscover \in BOOLEAN : Refresh(t, rediscover)
                        \/ \E list \in Lookups : GetValves(t, list)
                        \/ ListPage(t) \/ EndOfListing(t)
                        \/ ReadChunk(t) \/ EndOfRead(t) \/ Fails(t)
    \/ \E v \in Valves : Change(v) \/ \E i \in 1..(Len(account) + 1) : Join(v, i)
    \/ \E i \in DOMAIN account : Depart(i)
    \/ Tick

Spec == Init /\ [][Next]_vars

-----------------------------------------------------------------------------
\* Types, and that async_list_vids asks for no page that cannot exist.
CacheTypeOK ==
    /\ now \in 0..MaxTime /\ changes \in 0..MaxChanges /\ discoveredAt \in 0..now
    /\ calls \in 0..MaxCalls
    /\ account \in Seq(Valves) /\ status \in [Valves -> Nat]
    /\ vids = None \/ vids \in Seq(Valves)
    /\ Reads!IsReading(valves)
    /\ stage \in [Tasks -> Resting \cup Busy] /\ refreshes \in [Tasks -> BOOLEAN]
    /\ page \in [Tasks -> Nat]
    /\ \A t \in Tasks :
          /\ page[t] > 1 => (page[t] - 1) * PageSize < Cardinality(Valves)
          /\ listed[t] \in Seq(Valves) /\ rest[t] \in Seq(Valves)
          /\ Reads!IsReading(found[t]) /\ Reads!IsReading(before[t])
    /\ since \in [Tasks -> [Valves -> Nat]]
    /\ owed \in [Tasks -> SUBSET Valves] /\ was \in [Tasks -> SUBSET Valves]
    /\ departed \in [Tasks -> Nat]

\* async_list_vids returns "every VID these credentials can see, across all
\* pages" (client.py:278), each once, but for at most one per valve that left the
\* account meanwhile and moved the rows behind it forward.  Valves that join
\* never hide one.
ListingMissesOnlyDepartures ==
    \A t \in Tasks : stage[t] = "listed" =>
        /\ IsInjective(listed[t])
        /\ Cardinality(owed[t] \ Range(listed[t])) <= departed[t]

\* "Valves that have left the account drop out of the result" (client.py:315),
\* and no others do: what a call returns was in the account during the call, and
\* of the valves that stayed in it and that it was to find, it misses only those
\* that its listing missed.
ReturnsTheAccount ==
    \A t \in Tasks : stage[t] = "done" =>
        /\ DOMAIN found[t] \subseteq was[t]
        /\ Cardinality(owed[t] \ DOMAIN found[t]) <= departed[t]

\* No call returns a state older than the one get_valve showed when the call
\* began, whichever call had put it there: only calls that overlap can turn the
\* cache back.
ReadsGoForward ==
    \A t \in Tasks : stage[t] = "done" =>
        \A v \in DOMAIN found[t] \cap DOMAIN before[t] : before[t][v] <= found[t][v]

\* The client keeps only states that were true during the call that kept them.
KeepsWhatWasTrue == Reads!ReadsSpec
=============================================================================
