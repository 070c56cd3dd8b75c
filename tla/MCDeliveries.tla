----------------------------- MODULE MCDeliveries -----------------------------
(* A small instance of Deliveries for TLC. *)
EXTENDS Deliveries

\* CALLBACK_VARIABLES and the aliases, as far as the model knows them.
Filled == {"vid", "reason", "message", "previous_mode", "current_mode", "new_mode",
           "occurred_at"}

Capital(name) == [name |-> name, cased |-> TRUE]
Url(path) == [path |-> path, query |-> <<>>]

\* Everything asked for by its own name; the aliases, with the vid in the path
\* too or only there; a placeholder FloLogic does not know, among the parameters
\* or in the path; and a constant parameter before one whose key has a capital.
Registered ==
    { BuildCallbackUrl(Url(Fixed), <<"vid", "reason", "previous_mode", "current_mode">>),
      BuildCallbackUrl(Url("vid"), <<"vid", "message", "new_mode">>),
      BuildCallbackUrl(Url("vid"), <<"current_mode", "occurred_at">>),
      BuildCallbackUrl(Url("vid"), <<"vid", "zone">>),
      BuildCallbackUrl(Url("zone"), <<"occurred_at", "current_mode", "new_mode">>),
      BuildCallbackUrl(Url(Fixed), <<"zone", "reason">>),
      BuildCallbackUrl([path |-> Fixed,
                        query |-> <<[key |-> Key("kind"), slot |-> Fixed],
                                    [key |-> Capital("reason"), slot |-> "reason"]>>],
                       <<"occurred_at", "message">>) }

\* No key of an event, an alias of one, and another spelling of one.
Added == {Key("relay"), Key("message"), Capital("reason")}

Report(reason, previous, current) ==
    [vid |-> Text("v1"), occurred_at |-> Text("3/1/2025 3:04 PM"), reason |-> Text(reason),
     previous |-> previous, current |-> current]

Happenings ==
    { Report("LowTemperature", {"HOME"}, {"LOW_TEMP_SHUTOFF"}),
      Report("Overheated", {}, {"AWAY", UnknownBit}),
      [Report("AcPowerLost", {UnknownBit}, {}) EXCEPT !.reason = Blank] }

\* A list of names has commas.
WithEscapes ==
    {Text("3/1/2025 3:04 PM"), Hole("zone")} \cup
    {Names(names) : names \in UNION {{w \in Writings(e.previous) \cup Writings(e.current) :
                                         Cardinality(w) > 1} : e \in Happenings}}

WithSpaces == {Text("3/1/2025 3:04 PM")}
Reasons == {Text("LowTemperature"), Text("AcPowerLost")}
Skew == {-1, 2}
=============================================================================
