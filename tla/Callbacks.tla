------------------------------- MODULE Callbacks -------------------------------
(***************************************************************************)
(* The company's callback definitions, changed by several consumers        *)
(* through src/pyflologic/client.py: async_set_callbacks and               *)
(* async_delete_callbacks write the whole list, async_add_callback and     *)
(* async_remove_callbacks read it in one request and write it in another.  *)
(*                                                                         *)
(* FloLogic keeps the list and "offers nothing atomic".  A consumer that   *)
(* gives up waiting leaves a write behind that FloLogic may still apply,   *)
(* before or after the consumer has tried again.                           *)
(***************************************************************************)
EXTENDS Selections, FiniteSets, SequencesExt

CONSTANTS
    Consumers,   \* one client each
    Urls,        \* the URLs that callbacks are registered with
    NoUrl,       \* what a row has that CallbackDefinition.from_json rejects
    Lists,       \* the lists that an application gives to async_set_callbacks
    MaxCalls     \* bound of the model on the calls made

ASSUME CallbackAssumption ==
    IsFiniteSet(Urls) /\ NoUrl \notin Urls /\ MaxCalls \in Nat

Definitions == [url : Urls, active : BOOLEAN]
Rows == [url : Urls \cup {NoUrl}, active : BOOLEAN]

\* An application may set any list, one with a URL in it twice too.
ASSUME ListsAssumption == Lists \subseteq Seq(Definitions)

\* The URLs that a list has more than one row of.
Twice(rows) == {u \in Urls : \E i, j \in DOMAIN rows :
                                i # j /\ rows[i].url = u /\ rows[j].url = u}

\* The calls: the two that write a list made from the one they read, and the
\* two that write whatever the list is.
Updates == [op : {"add"}, new : Definitions] \cup [op : {"remove"}, match : SUBSET Definitions]
Replacements == [op : {"set"}, rows : Lists] \cup [op : {"delete"}]

\* A consumer between two calls.
NoCall == [op |-> "none"]

VARIABLES
    list,        \* FloLogic: the rows of the company's list
    late,        \* FloLogic: writes given up by their consumer and not yet applied
    stage,       \* where each consumer is
    call,        \* what its call does
    updated,     \* the local variable "updated" or "kept": the list to write
    calls,       \* how many calls were made
    outdated,    \* history: the consumers whose list was replaced since they read it
    overwritten, \* history: a write was applied that was made from an outdated list
    meant,       \* history: the definitions that the applied calls should leave
    doubled      \* history: the URLs that a list that was set, or the one the
                 \* company began with, has more than once

vars == <<list, late, stage, call, updated, calls, outdated, overwritten, meant, doubled>>

\* Mutant of Parsed: a row without a URL is taken for a definition.
ParsedAll(rows) == rows

\* async_get_callbacks: the rows that parse.
Parsed(rows) == Kept(rows, Definitions)

\* Mutants of Update: an added definition joins the one it replaces, or is not
\* written where its URL is registered.
UpdateByAppending(rows, c) ==
    CASE c.op = "add"    -> Append(rows, c.new)
      [] c.op = "remove" -> Kept(rows, Definitions \ c.match)
UpdateOnce(rows, c) ==
    CASE c.op = "add"    -> IF \E r \in Range(rows) : r.url = c.new.url
                            THEN rows ELSE Append(rows, c.new)
      [] c.op = "remove" -> Kept(rows, Definitions \ c.match)

\* The list that adding one definition, or removing those that match, makes of
\* the list read.
Update(rows, c) ==
    CASE c.op = "add"    -> Append(Kept(rows, {d \in Definitions : d.url # c.new.url}), c.new)
      [] c.op = "remove" -> Kept(rows, Definitions \ c.match)

\* The definitions that should be left of a set of them.
Effect(defs, c) ==
    CASE c.op = "add"    -> {d \in defs : d.url # c.new.url} \cup {c.new}
      [] c.op = "remove" -> defs \ c.match
      [] c.op = "set"    -> Range(c.rows)
      [] c.op = "delete" -> {}

Init ==
    /\ list \in SeqOf(Rows, 2)
    /\ late = {}
    /\ stage = [c \in Consumers |-> "idle"]
    /\ call = [c \in Consumers |-> NoCall]
    /\ updated = [c \in Consumers |-> <<>>]
    /\ calls = 0
    /\ outdated = {}
    /\ overwritten = FALSE
    /\ meant = Range(Parsed(list))
    /\ doubled = Twice(list)

-----------------------------------------------------------------------------
\* async_add_callback or async_remove_callbacks, up to the request that reads.
BeginUpdate(c, what) ==
    /\ stage[c] = "idle"
    /\ calls < MaxCalls /\ calls' = calls + 1
    /\ stage' = [stage EXCEPT ![c] = "getting"]
    /\ call' = [call EXCEPT ![c] = what]
    /\ UNCHANGED <<list, late, updated, outdated, overwritten, meant, doubled>>

\* async_set_callbacks or async_delete_callbacks, up to their request.
BeginReplace(c, what) ==
    /\ stage[c] = "idle"
    /\ calls < MaxCalls /\ calls' = calls + 1
    /\ stage' = [stage EXCEPT ![c] = "putting"]
    /\ call' = [call EXCEPT ![c] = what]
    /\ updated' = [updated EXCEPT ![c] = IF what.op = "set" THEN what.rows ELSE <<>>]
    /\ UNCHANGED <<list, late, outdated, overwritten, meant, doubled>>

\* The call is over, one way or another.
Ends(c) ==
    /\ stage' = [stage EXCEPT ![c] = "idle"]
    /\ call' = [call EXCEPT ![c] = NoCall]
    /\ updated' = [updated EXCEPT ![c] = <<>>]

\* FloLogic reports the list, and the consumer makes the new one of it; a list
\* that would not change is not written.
Get(c) ==
    LET read == Parsed(list)
        new == Update(read, call[c])
    IN  /\ stage[c] = "getting"
        /\ \/ /\ new # read
              /\ stage' = [stage EXCEPT ![c] = "putting"]
              /\ updated' = [updated EXCEPT ![c] = new]
              /\ UNCHANGED <<call, meant>>
           \/ /\ new = read
              /\ Ends(c)
              /\ meant' = Effect(meant, call[c])
        /\ UNCHANGED <<list, late, calls, outdated, overwritten, doubled>>

\* A write is applied; stale says whether it was made from an outdated list.
Applies(rows, what, stale) ==
    /\ list' = rows
    /\ meant' = Effect(meant, what)
    /\ overwritten' = (overwritten \/ stale)
    /\ doubled' = doubled \cup (IF what.op = "set" THEN Twice(rows) ELSE {})

\* FloLogic applies the write of c, and answers.
Put(c) ==
    /\ stage[c] = "putting"
    /\ Applies(updated[c], call[c], c \in outdated)
    /\ outdated' = {d \in Consumers \ {c} : stage[d] = "putting" /\ call[d] \in Updates}
    /\ late' = {[w EXCEPT !.stale = w.what \in Updates] : w \in late}
    /\ Ends(c)
    /\ UNCHANGED calls

\* A request raises.  If it was a write, FloLogic may have got it all the same,
\* and apply it at any time.
GiveUp(c) ==
    /\ stage[c] # "idle"
    /\ \/ late' = late
       \/ /\ stage[c] = "putting"
          /\ late' = late \cup
                {[rows |-> updated[c], what |-> call[c], stale |-> c \in outdated]}
    /\ Ends(c)
    /\ outdated' = outdated \ {c}
    /\ UNCHANGED <<list, calls, overwritten, meant, doubled>>

\* FloLogic applies a write that its consumer gave up.
Late(w) ==
    /\ Applies(w.rows, w.what, w.stale)
    /\ outdated' = {d \in Consumers : stage[d] = "putting" /\ call[d] \in Updates}
    /\ late' = {[x EXCEPT !.stale = x.what \in Updates] : x \in late \ {w}}
    /\ UNCHANGED <<stage, call, updated, calls>>

Next ==
    \/ \E c \in Consumers : \/ \E what \in Updates : BeginUpdate(c, what)
                            \/ \E what \in Replacements : BeginReplace(c, what)
                            \/ Get(c) \/ Put(c) \/ GiveUp(c)
    \/ \E w \in late : Late(w)

Spec == Init /\ [][Next]_vars

-----------------------------------------------------------------------------
\* Types, and that a consumer has a list to write only while it writes.
CallbackTypeOK ==
    /\ list \in Seq(Rows) /\ calls \in 0..MaxCalls
    /\ stage \in [Consumers -> {"idle", "getting", "putting"}]
    /\ outdated \subseteq Consumers /\ overwritten \in BOOLEAN
    /\ meant \subseteq Definitions /\ doubled \subseteq Urls
    /\ \A c \in Consumers :
          /\ call[c] \in Updates \cup Replacements \cup {NoCall}
          /\ call[c] = NoCall <=> stage[c] = "idle"
          /\ updated[c] \in Seq(Definitions)
          /\ updated[c] # <<>> => stage[c] = "putting"
    /\ \A w \in late : w.rows \in Seq(Definitions) /\ w.what \in Updates \cup Replacements

\* "Add or update one callback, keeping every other definition" and its
\* counterpart (client.py:546, 562): as long as no consumer wrote a list made
\* from one that was replaced in the meantime, the list holds exactly the
\* definitions that the calls applied one after another leave, through calls
\* that are given up, applied late, made again or found to change nothing.
LossNeedsAnOutdatedWrite == ~overwritten => Range(Parsed(list)) = meant

\* "A definition with the same URL is replaced" (client.py:548): a URL has two
\* rows only if an application set a list, or the company began with one, that
\* has it twice.  No other call, tried again or applied late, and no overlap of
\* calls registers a URL that is there.
OneRowPerUrl == Twice(list) \subseteq doubled
=============================================================================
