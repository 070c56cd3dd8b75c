------------------------------ MODULE Deliveries ------------------------------
(***************************************************************************)
(* A callback on its way from FloLogic to the application                  *)
(* (src/pyflologic/webhook.py, and CallbackEvent.from_params and           *)
(* ValveMode.from_names under it).  FloLogic fills the registered URL,     *)
(* signs it together with the time, and requests it.  What lies between    *)
(* may hold the request up, spell its query in another way, add parameters *)
(* to it, or damage it.  The receiver never sees the URL that was signed:  *)
(* it rebuilds it from the template it registered and the query that       *)
(* arrived.                                                                *)
(*                                                                         *)
(* A signature is the record of what it covers, so that two of them are    *)
(* equal just if they cover the same.  The names of a mode are taken as    *)
(* _normalize folds them: "ShutOff" and "SHUTOFF" are one name.  The key   *)
(* of a parameter is a name and whether it is spelled with a capital,      *)
(* which a dictionary tells apart and key.lower() does not; a placeholder  *)
(* is its name in lower case.  The headers arrive as sent.                 *)
(***************************************************************************)
EXTENDS ValveModes, Integers, FiniteSets

CONSTANTS
    Templates,     \* the URLs that may be registered
    Events,        \* what FloLogic reports
    Variables,     \* the placeholders FloLogic fills
    Spaced,        \* the values with a space
    Escaped,       \* the values with a character that is percent-encoded
    Recognized,    \* the texts that a member of CallbackReason names
    RelayKeys,     \* the keys of the parameters a relay may add
    Secret,        \* the secret the receiver knows
    Secrets,       \* the secrets FloLogic signs with
    Skews,         \* how far FloLogic's clock is ahead
    Tolerance,     \* SIGNATURE_TOLERANCE
    MaxTime,       \* bound of the model on the clock
    MaxSends,      \* bound of the model on the callbacks sent
    MaxHops        \* bound of the model on what happens to one on its way

Fixed == "fixed"   \* the place of a part of a template that is no placeholder

\* The values of a query: what a parameter decodes to.  The last is a list of
\* tokens, each a name or a number, whose bits are a word.
Blank == <<"blank">>
Text(s) == <<"text", s>>
Hole(name) == <<"hole", name>>
Names(tokens) == IF tokens = {} THEN Blank ELSE <<"names", tokens>>

Name(name) == <<"name", name>>
Number(word) == <<"number", word>>

\* The key of a parameter in lower case, and key.lower().
Key(name) == [name |-> name, cased |-> FALSE]
Fold(key) == key.name

\* _encoder: a value with the spelling of its spaces and escapes, which a value
\* that has none does not show.
Spelled(value, space, hex) ==
    [value |-> value,
     space |-> IF value \in Spaced THEN space ELSE "",
     hex   |-> IF value \in Escaped THEN hex ELSE ""]

Encoded(value, form, lower) ==
    Spelled(value, IF form THEN "+" ELSE "%20", IF lower THEN "af" ELSE "AF")

\* The text of a template at a place that is not filled.
Verbatim(slot) ==
    IF slot = Fixed THEN [value |-> Text(Fixed), space |-> "", hex |-> ""]
    ELSE [value |-> Hole(slot), space |-> "", hex |-> "plain"]

\* build_callback_url
BuildCallbackUrl(base, names) ==
    [base EXCEPT !.query = @ \o [i \in DOMAIN names |-> [key |-> Key(names[i]), slot |-> names[i]]]]

\* What a template asks for in its query.
Asked(T) == {T.query[i].slot : i \in DOMAIN T.query}

ASSUME DeliveryAssumption ==
    /\ \A T \in Templates :
          /\ T.query \in Seq([key : [name : STRING, cased : BOOLEAN], slot : STRING])
          /\ \A i, j \in DOMAIN T.query : Fold(T.query[i].key) = Fold(T.query[j].key) => i = j
          /\ \A i \in DOMAIN T.query : T.query[i].slot \in {Fixed, Fold(T.query[i].key)}
    /\ \A e \in Events :
          /\ e.previous \in Words /\ e.current \in Words
          /\ \A value \in {e.reason, e.vid, e.occurred_at} : value = Blank \/ value[1] = "text"
    /\ Fixed \notin Variables
    /\ RelayKeys \subseteq [name : STRING, cased : BOOLEAN]
    /\ Skews \subseteq Int /\ Tolerance \in Nat
    /\ MaxTime \in Nat /\ MaxSends \in Nat /\ MaxHops \in Nat

VARIABLES
    registered,    \* the template that is registered
    now,           \* time.time
    sends,         \* how many callbacks were sent
    wire,          \* the callbacks under way
    heard,         \* those that verify_callback returned, and their events
    refused        \* those that it refused, and when

vars == <<registered, now, sends, wire, heard, refused>>

-----------------------------------------------------------------------------
\* _substitute
Substitute(slot, values, form, lower) ==
    IF slot \in DOMAIN values THEN Encoded(values[slot], form, lower) ELSE Verbatim(slot)

SubstitutedUrl(T, values, form, lower) ==
    [path  |-> Substitute(T.path, values, form, lower),
     query |-> [i \in DOMAIN T.query |->
                   [key  |-> T.query[i].key,
                    text |-> Substitute(T.query[i].slot, values, form, lower)]]]

\* Mutant of ComputeSignature: the signature covers the address alone.
SignatureOfPath(secret, timestamp, url) ==
    [secret |-> secret, timestamp |-> timestamp, url |-> [url EXCEPT !.query = <<>>]]

ComputeSignature(secret, timestamp, url) ==
    [secret |-> secret, timestamp |-> timestamp, url |-> url]

-----------------------------------------------------------------------------
\* FloLogic.  A word is written as one number, or as a list with a token for each
\* bit: a name, FloLogic's own or the longer one, or the number of the bit.  A bit
\* without a name in the client may have one here.
LongName ==
    [LOW_TEMP_ALERT |-> "LOW_TEMPERATURE_ALERT",
     LOW_TEMP_SHUTOFF |-> "LOW_TEMPERATURE_SHUTOFF",
     LOW_TEMP_SENSOR_SHUTOFF |-> "LOW_TEMPERATURE_SENSOR_SHUTOFF",
     AC_LOST |-> "AC_POWER_LOST"]
NamesOfBit(bit) ==
    {Name(bit), Number({bit})} \cup
    (IF bit \in DOMAIN LongName THEN {Name(LongName[bit])} ELSE {})

\* The lists of tokens that a word may be written as.
Writings(word) ==
    {{Number(word)}} \cup
    {{f[bit] : bit \in word} :
        f \in {g \in [word -> UNION {NamesOfBit(b) : b \in word}] :
                  \A b \in word : g[b] \in NamesOfBit(b)}}

Written(e, previous, current) ==
    [name \in Variables |->
        CASE name = "previous_mode"               -> Names(previous)
          [] name \in {"current_mode", "new_mode"} -> Names(current)
          [] name \in {"reason", "message"}        -> e.reason
          [] name = "vid"                          -> e.vid
          [] OTHER                                 -> e.occurred_at]

\* FloLogic reports e, in one of the spellings .NET has.
Send(e, previous, current, form, lower, secret, skew) ==
    LET values == Written(e, previous, current)
        url == SubstitutedUrl(registered, values, form, lower)
    IN  /\ sends < MaxSends /\ sends' = sends + 1
        /\ wire' = wire \cup
              {[event |-> e, values |-> values, query |-> url.query, hops |-> 0,
                timestamp |-> now + skew,
                signature |-> ComputeSignature(secret, now + skew, url)]}
        /\ UNCHANGED <<registered, now, heard, refused>>

-----------------------------------------------------------------------------
\* On the way.
Passes(d, query) ==
    /\ d.hops < MaxHops
    /\ wire' = (wire \ {d}) \cup {[d EXCEPT !.query = query, !.hops = d.hops + 1]}
    /\ UNCHANGED <<registered, now, sends, heard, refused>>

\* A relay decodes the query and encodes it again in its own way.
Reencode(d, form, lower) ==
    Passes(d, [i \in DOMAIN d.query |->
                  [d.query[i] EXCEPT !.text = Encoded(@.value, form, lower)]])

\* A relay writes the parameters in another order, or adds one of its own.
Reorder(d) == Passes(d, [i \in DOMAIN d.query |-> d.query[Len(d.query) + 1 - i]])
Tag(d, key) == Passes(d, Append(d.query, [key |-> key, text |-> Verbatim(Fixed)]))

\* A value is lost.
Damage(d, i) == Passes(d, [d.query EXCEPT ![i].text = Encoded(Blank, FALSE, FALSE)])

-----------------------------------------------------------------------------
\* The receiver.
LastOf(I) == CHOOSE i \in I : \A j \in I : j <= i

\* parse_qsl into a dictionary, the last value of each key, as parse_callback
\* reads a query; and by key.lower(), as a URL is rebuilt.
Params(query) ==
    [key \in {query[i].key : i \in DOMAIN query} |->
        query[LastOf({i \in DOMAIN query : query[i].key = key})].text.value]

Values(query) ==
    [name \in {Fold(query[i].key) : i \in DOMAIN query} |->
        query[LastOf({i \in DOMAIN query : Fold(query[i].key) = name})].text.value]

\* callback_url_from_request
CallbackUrl(T, query) == [path |-> Verbatim(T.path), query |-> query]

\* Mutant of Candidates: form encoding is not tried.
CandidatesWithoutForms(T, query) ==
    {CallbackUrl(T, query)} \cup
    {SubstitutedUrl(T, Values(query), FALSE, lower) : lower \in BOOLEAN}

\* callback_url_candidates
Candidates(T, query) ==
    {CallbackUrl(T, query)} \cup
    {SubstitutedUrl(T, Values(query), form, lower) : form, lower \in BOOLEAN}

\* _check_timestamp
InWindow(timestamp) ==
    now - timestamp <= Tolerance /\ timestamp - now <= Tolerance

\* verify_signature of what arrived
Verified(d) ==
    /\ InWindow(d.timestamp)
    /\ \E url \in Candidates(registered, d.query) :
          ComputeSignature(Secret, d.timestamp, url) = d.signature

\* _MODE_NAMES, beside the members of ValveMode
Aliases ==
    [LOW_TEMPERATURE_ALERT |-> "LOW_TEMP_ALERT",
     LOW_TEMPERATURE_SHUTOFF |-> "LOW_TEMP_SHUTOFF",
     LOW_TEMPERATURE_SENSOR_SHUTOFF |-> "LOW_TEMP_SENSOR_SHUTOFF",
     AC_POWER_LOST |-> "AC_LOST"]

BitsOfName(token) ==
    IF token[1] = "number" THEN token[2]
    ELSE IF token[2] \in KnownFlags THEN {token[2]}
    ELSE IF token[2] \in DOMAIN Aliases THEN {Aliases[token[2]]}
    ELSE {}

\* Mutant of FromNames: names without a bit are dropped.
FromNamesDropping(tokens) ==
    [word |-> UNION {BitsOfName(t) : t \in tokens}, unknown |-> {}]

\* ValveMode.from_names
FromNames(tokens) ==
    [word |-> UNION {BitsOfName(t) : t \in tokens},
     unknown |-> {t \in tokens : t[1] = "name" /\ BitsOfName(t) = {}}]

\* names.split(","), of a value that is present; no text of the model has a comma.
Tokens(value) == IF value[1] = "names" THEN value[2] ELSE {Name(value[2])}

Absent == [word |-> {NoFlag}, unknown |-> {}]     \* None, for a mode

\* CallbackEvent.from_params: the value of a name, with blanks and holes left out.
\* A dictionary keeps its keys in the order they were first inserted, and of two
\* spellings of a name the later one stays.
ReadsAsAbsent(value) == value = Blank \/ value[1] = "hole"

Clean(query, name) ==
    LET params == Params(query)
        inserted == {i \in DOMAIN query :
                        \A j \in DOMAIN query : query[j].key = query[i].key => i <= j}
        kept == {i \in inserted : /\ Fold(query[i].key) = name
                                  /\ ~ReadsAsAbsent(params[query[i].key])}
    IN  IF kept = {} THEN Blank ELSE params[query[LastOf(kept)].key]

ModeOf(query, name) ==
    LET value == Clean(query, name)
    IN  IF value = Blank THEN Absent ELSE FromNames(Tokens(value))

FromParams(query) ==
    LET current == IF ModeOf(query, "current_mode") # Absent
                   THEN ModeOf(query, "current_mode") ELSE ModeOf(query, "new_mode")
        previous == ModeOf(query, "previous_mode")
        reason == IF Clean(query, "reason") # Blank
                  THEN Clean(query, "reason") ELSE Clean(query, "message")
    IN  [reason_raw |-> reason,
         reason |-> IF reason \in Recognized THEN reason ELSE Blank,
         previous_mode |-> previous.word,
         current_mode |-> current.word,
         unknown_mode_names |-> current.unknown \cup previous.unknown]

\* verify_callback and parse_callback
Receive(d) ==
    /\ wire' = wire \ {d}
    /\ \/ /\ Verified(d)
          /\ heard' = heard \cup {[delivery |-> d, event |-> FromParams(d.query)]}
          /\ UNCHANGED refused
       \/ /\ ~Verified(d)
          /\ refused' = refused \cup {[delivery |-> d, at |-> now]}
          /\ UNCHANGED heard
    /\ UNCHANGED <<registered, now, sends>>

-----------------------------------------------------------------------------
Init ==
    /\ registered \in Templates
    /\ now = 0 /\ sends = 0
    /\ wire = {} /\ heard = {} /\ refused = {}

Tick ==
    /\ now < MaxTime /\ now' = now + 1
    /\ UNCHANGED <<registered, sends, wire, heard, refused>>

Next ==
    \/ \E e \in Events, form, lower \in BOOLEAN, secret \in Secrets, skew \in Skews :
          \E previous \in Writings(e.previous), current \in Writings(e.current) :
              Send(e, previous, current, form, lower, secret, skew)
    \/ \E d \in wire :
          \/ \E form, lower \in BOOLEAN : Reencode(d, form, lower)
          \/ \E key \in RelayKeys : Tag(d, key)
          \/ Reorder(d) \/ Receive(d)
          \/ \E i \in DOMAIN d.query : Damage(d, i)
    \/ Tick

Spec == Init /\ [][Next]_vars

-----------------------------------------------------------------------------
\* What arrived has, for every variable the template asks for, the value that
\* FloLogic wrote: as the last parameter of that name, in whatever case of its key.
Carries(d) ==
    \A slot \in Asked(registered) \cap Variables :
        slot \in DOMAIN Values(d.query) /\ Values(d.query)[slot] = d.values[slot]

\* A callback is accepted only with the values that FloLogic signed with the
\* secret of the receiver: rebuilding the URL in one of five ways (webhook.py:202)
\* lets no callback pass whose last parameter of a name that the template asks for
\* has another value.  Of parameters beside these it says nothing.
HeardIsWhatWasSent ==
    \A h \in heard : h.delivery.signature.secret = Secret /\ Carries(h.delivery)

\* The URL that was signed can be told from what arrived: the query arrived as it
\* was sent and FloLogic filled nothing in the path; or what it filled there the
\* query has too, and no placeholder that it left has a parameter of its name.
Rebuildable(d) ==
    \/ registered.path \notin Variables /\ d.query = d.signature.url.query
    \/ /\ registered.path \in Variables => registered.path \in Asked(registered)
       /\ (Asked(registered) \cup {registered.path}) \cap DOMAIN Values(d.query) \subseteq Variables

\* A callback is refused only for a reason: another secret, a time outside the
\* window, a value that changed on the way, or a URL that cannot be rebuilt from
\* the template and the query.  The order, additions and spelling of a relay are
\* no reason (webhook.py:183, "a fallback for a relay that re-encodes the query").
GenuineIsHeard ==
    \A r \in refused :
        \/ r.delivery.signature.secret # Secret
        \/ r.at - r.delivery.timestamp > Tolerance \/ r.delivery.timestamp - r.at > Tolerance
        \/ ~Carries(r.delivery) \/ ~Rebuildable(r.delivery)

\* A word that is read of the names in a callback has no bit that FloLogic did not
\* report, and each bit it lacks is there as a name that was kept (enums.py:111,
\* "Names this table does not know are returned alongside rather than dropped").
ReadFromNames(read, event, word) ==
    /\ read \subseteq word
    /\ \A bit \in word \ read : NamesOfBit(bit) \cap event.unknown_mode_names # {}

\* The parameters that an event is read from
EventKeys == {"reason", "message", "previous_mode", "current_mode", "new_mode"}

\* A query whose parameters for an event are those the template has FloLogic fill:
\* one key for each name, and no other that is not blank or a hole.  A relay that
\* adds a second spelling or an alias of one leaves a query that is not legible,
\* and so does a template with a constant of such a name.
Legible(query) ==
    \A i \in DOMAIN query : Fold(query[i].key) \in EventKeys =>
        /\ \A j \in DOMAIN query :
              Fold(query[j].key) = Fold(query[i].key) => query[j].key = query[i].key
        /\ \/ Fold(query[i].key) \in Asked(registered) \cap Variables
           \/ ReadsAsAbsent(query[i].text.value)

\* A mode of an event: absent if it was not written, or written blank for a word
\* without bits; else read from the tokens that were written.
ModeTells(read, event, written, word) ==
    IF written
    THEN (word = {} /\ read = Absent.word) \/ ReadFromNames(read, event, word)
    ELSE read = Absent.word

\* The event that verify_callback returns of a legible query tells what happened,
\* whichever of two aliases the template asks for, in whatever case: the reason as
\* FloLogic gave it, and every bit of the modes, read or kept by name.
EventIsWhatHappened ==
    \A h \in {g \in heard : Legible(g.delivery.query)} :
        LET asked == Asked(registered) \cap Variables
            sent == h.delivery.event
        IN  /\ asked \cap {"reason", "message"} # {} => h.event.reason_raw = sent.reason
            /\ h.event.reason \in {Blank, sent.reason}
            /\ ModeTells(h.event.current_mode, h.event,
                         asked \cap {"current_mode", "new_mode"} # {}, sent.current)
            /\ ModeTells(h.event.previous_mode, h.event,
                         "previous_mode" \in asked, sent.previous)
=============================================================================
