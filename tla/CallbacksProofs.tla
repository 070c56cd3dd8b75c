---------------------------- MODULE CallbacksProofs ----------------------------
(***************************************************************************)
(* Theorems about Callbacks, for any consumers, URLs and number of calls:  *)
(* a definition is only lost to a list that was made from an outdated one, *)
(* and a URL is registered twice only by a list that has it twice itself.  *)
(***************************************************************************)
EXTENDS Callbacks, SelectionsProofs

\* Types that CallbackTypeOK leaves to its readers.
Typed ==
    /\ CallbackTypeOK
    /\ call \in [Consumers -> Updates \cup Replacements \cup {NoCall}]
    /\ updated \in [Consumers -> Seq(Definitions)]
    /\ \A c \in Consumers : stage[c] = "getting" => call[c] \in Updates
    /\ \A w \in late :
          w = [rows |-> w.rows, what |-> w.what, stale |-> w.stale] /\ w.stale \in BOOLEAN

\* No URL has two rows, but for some.
Apart(rows, but) ==
    \A i, j \in DOMAIN rows : rows[i].url = rows[j].url /\ rows[i].url \in Urls \ but => i = j

\* What a call writes that read the list from.
Made(from, what) ==
    IF what \in Updates THEN Update(Parsed(from), what)
    ELSE IF what.op = "set" THEN what.rows ELSE <<>>

\* A write of rows: unless it is stale, it was made from the list from; stale or
\* not, an update has no URL twice but those that lists were set with.
Written(from, but, rows, what, stale) ==
    /\ what \in Updates => Apart(rows, but)
    /\ ~(stale /\ what \in Updates) => rows = Made(from, what)

IInv ==
    /\ Typed
    /\ Apart(list, doubled)
    /\ \A c \in Consumers : stage[c] = "putting" => Written(list, doubled, updated[c], call[c], c \in outdated)
    /\ \A w \in late : Written(list, doubled, w.rows, w.what, w.stale)
    /\ LossNeedsAnOutdatedWrite

-----------------------------------------------------------------------------
\* What the calls are.
LEMMA Calls ==
    /\ \A u \in Updates : \/ u.op = "add" /\ u.new \in Definitions
                          \/ u.op = "remove" /\ u.match \in SUBSET Definitions
    /\ \A r \in Replacements : \/ r.op = "delete"
                               \/ r.op = "set" /\ r.rows \in Seq(Definitions)
    /\ \A u \in Updates \cup Replacements : u # NoCall
    /\ \A r \in Replacements : r \notin Updates
  <1>1. \A u \in Updates : \/ u.op = "add" /\ u.new \in Definitions
                           \/ u.op = "remove" /\ u.match \in SUBSET Definitions
    BY DEF Updates
  <1>2. \A r \in Replacements : \/ r.op = "delete"
                                \/ r.op = "set" /\ r.rows \in Seq(Definitions)
    BY ListsAssumption DEF Replacements
  <1>3. NoCall.op = "none"
    BY DEF NoCall
  <1>4. QED
    BY <1>1, <1>2, <1>3

LEMMA DefinitionsAreRows ==
    \A d \in Definitions : d.url # NoUrl /\ d \in Rows
  BY CallbackAssumption DEF Definitions, Rows

LEMMA ParsedRange ==
    ASSUME NEW rows \in Seq(Rows)
    PROVE  /\ Parsed(rows) \in Seq(Definitions)
           /\ Range(Parsed(rows)) = Range(rows) \cap Definitions
  <1> DEFINE t == Kept(rows, Definitions)
  <1>1. t \in Seq(Definitions) /\ HoldsThose(t, rows, Definitions)
    BY KeptRange
  <1> HIDE DEF t
  <1>2. Range(t) = Range(rows) \cap Definitions
    BY <1>1 DEF Range, HoldsThose
  <1>3. QED
    BY <1>1, <1>2 DEF t, Parsed

LEMMA KeptStaysApart ==
    ASSUME NEW R, NEW rows \in Seq(R), NEW S, NEW but, Apart(rows, but)
    PROVE  Apart(Kept(rows, S), but)
  <1> SUFFICES ASSUME NEW i \in DOMAIN Kept(rows, S), NEW j \in DOMAIN Kept(rows, S), i # j,
                      Kept(rows, S)[i].url = Kept(rows, S)[j].url,
                      Kept(rows, S)[i].url \in Urls \ but
               PROVE  FALSE
    BY DEF Apart
  <1>1. PICK m, n \in DOMAIN rows :
               m # n /\ Kept(rows, S)[i] = rows[m] /\ Kept(rows, S)[j] = rows[n]
    BY KeptApart
  <1>2. QED
    BY <1>1 DEF Apart

\* Apart is what Twice says of a list.
LEMMA ApartIsTwice ==
    ASSUME NEW rows, NEW but
    PROVE  Apart(rows, but) <=> Twice(rows) \subseteq but
  BY DEF Apart, Twice

\* A list of definitions parses to what it holds.
LEMMA DefinitionsParse ==
    ASSUME NEW rows \in Seq(Definitions)
    PROVE  rows \in Seq(Rows) /\ Range(Parsed(rows)) = Range(rows)
  <1>1. rows \in Seq(Rows) /\ Range(rows) \subseteq Definitions
    <2>1. \A d \in Definitions : d \in Rows
      BY DefinitionsAreRows
    <2> HIDE DEF Definitions, Rows
    <2>2. QED
      BY <2>1 DEF Range
  <1>2. QED
    BY <1>1, ParsedRange

\* Update does to the list what Effect does to the set of its definitions, and
\* registers no URL twice.
LEMMA UpdateHasItsEffect ==
    ASSUME NEW rows \in Seq(Definitions), NEW what \in Updates, NEW but
    PROVE  /\ Update(rows, what) \in Seq(Definitions)
           /\ Range(Update(rows, what)) = Effect(Range(rows), what)
           /\ Apart(rows, but) => Apart(Update(rows, what), but)
  <1>1. Range(rows) \subseteq Definitions
    BY DEF Range
  <1>2. CASE what.op = "add"
    <2> DEFINE S == {d \in Definitions : d.url # what.new.url}
               t == Kept(rows, S)
    <2>1. what.new \in Definitions
      BY <1>2, Calls
    <2>2. t \in Seq(Definitions) /\ HoldsThose(t, rows, S)
      <3> HIDE DEF S
      <3>1. QED
        BY KeptRange
    <2>4. Apart(rows, but) => Apart(t, but)
      BY KeptStaysApart
    <2>5. /\ Update(rows, what) = Append(t, what.new)
          /\ Effect(Range(rows), what) = {d \in Range(rows) : d.url # what.new.url} \cup {what.new}
      BY <1>2, Zenon DEF Update, Effect
    <2> DEFINE u == Append(t, what.new)
    <2>6. /\ DOMAIN u = DOMAIN t \cup {Len(t) + 1} /\ Len(t) + 1 \notin DOMAIN t
          /\ u[Len(t) + 1] = what.new /\ \A i \in DOMAIN t : u[i] = t[i]
          /\ u \in Seq(Definitions)
      <3> HIDE DEF t
      <3>1. QED
        BY <2>1, <2>2
    <2> HIDE DEF t, u
    <2>7. Range(u) = Range(t) \cup {what.new}
      BY <2>6 DEF Range
    <2>8. Range(t) = {d \in Range(rows) : d.url # what.new.url}
      BY <1>1, <2>2 DEF Range, HoldsThose
    <2>9. Apart(t, but) => Apart(u, but)
      BY <2>2, <2>6 DEF Apart, HoldsThose
    <2>10. QED
      BY <2>4, <2>5, <2>6, <2>7, <2>8, <2>9 DEF t, u
  <1>3. CASE what.op = "remove"
    <2> DEFINE S == Definitions \ what.match
               t == Kept(rows, S)
    <2>1. t \in Seq(Definitions) /\ HoldsThose(t, rows, S)
      <3> HIDE DEF S
      <3>1. QED
        BY KeptRange
    <2>3. Apart(rows, but) => Apart(t, but)
      BY KeptStaysApart
    <2>4. Update(rows, what) = t /\ Effect(Range(rows), what) = Range(rows) \ what.match
      BY <1>3, Zenon DEF Update, Effect
    <2>5. Range(t) = Range(rows) \ what.match
      <3>1. \A i \in DOMAIN t : t[i] \in Definitions /\ t[i] \notin what.match
        BY <2>1 DEF HoldsThose
      <3>2. \A m \in DOMAIN rows : rows[m] \in Definitions
        BY <1>1 DEF Range
      <3>3. \A m \in DOMAIN rows : rows[m] \notin what.match => rows[m] \in S
        BY <3>2
      <3> HIDE DEF t, S
      <3>4. QED
        BY <2>1, <3>1, <3>3 DEF Range, HoldsThose
    <2>6. QED
      BY <2>1, <2>3, <2>4, <2>5
  <1>4. QED
    BY <1>2, <1>3, Calls

\* What a call makes of the list as it is.
LEMMA MadeOfTheList ==
    ASSUME IInv, NEW what \in Updates \cup Replacements
    PROVE  /\ Made(list, what) \in Seq(Definitions)
           /\ what \in Updates => Apart(Made(list, what), doubled)
           /\ Range(Made(list, what)) = Effect(Range(Parsed(list)), what)
  <1>1. list \in Seq(Rows) /\ Apart(list, doubled)
    BY DEF IInv, Typed, CallbackTypeOK
  <1>2. CASE what \in Updates
    <2>1. Parsed(list) \in Seq(Definitions)
      BY <1>1, ParsedRange
    <2>2. Apart(Parsed(list), doubled)
      BY <1>1, KeptStaysApart DEF Parsed
    <2>3. Made(list, what) = Update(Parsed(list), what)
      BY <1>2 DEF Made
    <2>4. QED
      BY <1>2, <2>1, <2>2, <2>3, UpdateHasItsEffect
  <1>3. CASE what \in Replacements
    <2>1. /\ what \notin Updates
          /\ \/ what.op = "delete"
             \/ what.op = "set" /\ what.rows \in Seq(Definitions)
      BY <1>3, Calls
    <2>2. CASE what.op = "delete"
      <3>1. Made(list, what) = <<>> /\ Effect(Range(Parsed(list)), what) = {}
        BY <2>1, <2>2, Zenon DEF Made, Effect
      <3>2. QED
        BY <2>1, <3>1 DEF Range
    <2>3. CASE what.op = "set" /\ what.rows \in Seq(Definitions)
      <3>1. Made(list, what) = what.rows /\ Effect(Range(Parsed(list)), what) = Range(what.rows)
        BY <2>1, <2>3, Zenon DEF Made, Effect
      <3>2. QED
        BY <2>1, <2>3, <3>1
    <2>4. QED
      BY <2>1, <2>2, <2>3
  <1>4. QED
    BY <1>2, <1>3

-----------------------------------------------------------------------------
LEMMA InitIInv == Init => IInv
  <1> SUFFICES ASSUME Init PROVE IInv
    OBVIOUS
  <1>1. list \in Seq(Rows) /\ Apart(list, doubled) /\ doubled \subseteq Urls
    <2>1. \E n \in 0..2 : list \in [1..n -> Rows]
      BY DEF Init, SeqOf
    <2>2. list \in Seq(Rows)
      BY <2>1
    <2>3. doubled = Twice(list) /\ Twice(list) \subseteq Urls
      BY DEF Init, Twice
    <2>4. QED
      BY <2>2, <2>3, ApartIsTwice
  <1>2. meant = Range(Parsed(list)) /\ meant \subseteq Definitions
    BY <1>1, ParsedRange DEF Init
  <1>3. <<>> \in Seq(Definitions)
    OBVIOUS
  <1>4. Typed
    <2>1. /\ stage = [c \in Consumers |-> "idle"] /\ call = [c \in Consumers |-> NoCall]
          /\ updated = [c \in Consumers |-> <<>>]
          /\ late = {} /\ calls = 0 /\ outdated = {} /\ overwritten = FALSE
      BY DEF Init
    <2>2. calls \in 0..MaxCalls
      BY <2>1, CallbackAssumption
    <2>3. QED
      BY <1>1, <1>2, <1>3, <2>1, <2>2 DEF Typed, CallbackTypeOK
  <1>5. QED
    BY <1>1, <1>2, <1>4 DEF Init, IInv, LossNeedsAnOutdatedWrite

\* What an applied write leaves, unless it was stale.
LEMMA AppliedWrite ==
    ASSUME IInv, NEW rows \in Seq(Definitions), NEW what \in Updates \cup Replacements,
           NEW stale \in BOOLEAN, Written(list, doubled, rows, what, stale),
           Applies(rows, what, stale)
    PROVE  /\ list' \in Seq(Rows) /\ Apart(list', doubled')
           /\ doubled' \subseteq Urls /\ doubled \subseteq doubled'
           /\ meant' \subseteq Definitions /\ overwritten' \in BOOLEAN
           /\ LossNeedsAnOutdatedWrite'
  <1>1. list' = rows /\ meant' = Effect(meant, what) /\ overwritten' = (overwritten \/ stale)
    BY DEF Applies
  <1>2. rows \in Seq(Rows) /\ Range(Parsed(rows)) = Range(rows)
    BY DefinitionsParse
  <1>3. /\ ~stale => rows = Made(list, what)
        /\ Apart(list', doubled') /\ doubled' \subseteq Urls /\ doubled \subseteq doubled'
    <2>1. /\ what \in Updates => Apart(rows, doubled)
          /\ ~stale \/ what \notin Updates => rows = Made(list, what)
      BY DEF Written
    <2>2. /\ doubled' = doubled \cup (IF what.op = "set" THEN Twice(rows) ELSE {})
          /\ Twice(rows) \subseteq Urls /\ doubled \subseteq Urls
      BY DEF Applies, Twice, IInv, Typed, CallbackTypeOK
    <2>3. Twice(rows) \subseteq doubled'
      <3>1. CASE what \in Updates
        BY <2>1, <2>2, <3>1, ApartIsTwice
      <3>2. CASE what \notin Updates /\ what.op = "delete"
        BY <2>1, <3>2 DEF Made, Twice
      <3>3. CASE what.op = "set"
        BY <2>2, <3>3
      <3>4. QED
        BY <3>1, <3>2, <3>3, Calls
    <2>4. QED
      BY <1>1, <2>1, <2>2, <2>3, ApartIsTwice
  <1>4. Effect(meant, what) \subseteq Definitions
    <2>1. meant \subseteq Definitions
      BY DEF IInv, Typed, CallbackTypeOK
    <2>2. CASE what.op = "add" /\ what.new \in Definitions
      BY <2>1, <2>2, Zenon DEF Effect
    <2>3. CASE what.op = "remove"
      BY <2>1, <2>3, Zenon DEF Effect
    <2>4. CASE what.op = "set" /\ what.rows \in Seq(Definitions)
      <3>1. Range(what.rows) \subseteq Definitions
        BY <2>4 DEF Range
      <3>2. QED
        BY <2>1, <2>4, <3>1, Zenon DEF Effect
    <2>5. CASE what.op = "delete"
      BY <2>1, <2>5, Zenon DEF Effect
    <2>6. QED
      BY <2>2, <2>3, <2>4, <2>5, Calls
  <1>5. LossNeedsAnOutdatedWrite'
    <2> SUFFICES ASSUME ~overwritten' PROVE Range(Parsed(list')) = meant'
      BY DEF LossNeedsAnOutdatedWrite, Parsed
    <2>1. ~overwritten /\ ~stale
      BY <1>1
    <2>2. Range(Parsed(list)) = meant
      BY <2>1 DEF IInv, LossNeedsAnOutdatedWrite
    <2>3. rows = Made(list, what) /\ Range(Made(list, what)) = Effect(Range(Parsed(list)), what)
      BY <1>3, <2>1, MadeOfTheList
    <2>4. QED
      BY <1>1, <1>2, <2>2, <2>3
  <1>6. QED
    BY <1>1, <1>2, <1>3, <1>4, <1>5 DEF IInv, Typed, CallbackTypeOK

LEMMA BeginStep ==
    ASSUME IInv, NEW c \in Consumers,
           \/ \E what \in Updates : BeginUpdate(c, what)
           \/ \E what \in Replacements : BeginReplace(c, what)
    PROVE  IInv'
  <1>1. PICK what \in Updates \cup Replacements, s \in {"getting", "putting"},
             rows \in Seq(Definitions) :
              /\ calls < MaxCalls /\ calls' = calls + 1
              /\ stage' = [stage EXCEPT ![c] = s]
              /\ call' = [call EXCEPT ![c] = what]
              /\ updated' = [updated EXCEPT ![c] = rows]
              /\ UNCHANGED <<list, late, outdated, overwritten, meant, doubled>>
              /\ s = "getting" => rows = <<>> /\ what \in Updates
              /\ s = "putting" => what \notin Updates /\ rows = Made(list, what)
    <2>1. ASSUME NEW what \in Updates, BeginUpdate(c, what)
          PROVE  /\ calls < MaxCalls /\ calls' = calls + 1
                 /\ stage' = [stage EXCEPT ![c] = "getting"]
                 /\ call' = [call EXCEPT ![c] = what]
                 /\ updated' = [updated EXCEPT ![c] = <<>>]
                 /\ UNCHANGED <<list, late, outdated, overwritten, meant, doubled>>
      <3>1. stage[c] = "idle" /\ updated[c] = <<>>
        BY <2>1 DEF BeginUpdate, IInv, Typed, CallbackTypeOK
      <3>2. updated' = [updated EXCEPT ![c] = <<>>]
        BY <2>1, <3>1 DEF BeginUpdate, IInv, Typed
      <3>3. QED
        BY <2>1, <3>2 DEF BeginUpdate
    <2>2. ASSUME NEW what \in Replacements, BeginReplace(c, what)
          PROVE  /\ calls < MaxCalls /\ calls' = calls + 1
                 /\ stage' = [stage EXCEPT ![c] = "putting"]
                 /\ call' = [call EXCEPT ![c] = what]
                 /\ updated' = [updated EXCEPT ![c] = Made(list, what)]
                 /\ UNCHANGED <<list, late, outdated, overwritten, meant, doubled>>
                 /\ what \notin Updates
      BY <2>2, Calls DEF BeginReplace, Made
    <2>3. <<>> \in Seq(Definitions)
      OBVIOUS
    <2>4. \A what \in Replacements : Made(list, what) \in Seq(Definitions)
      BY MadeOfTheList
    <2>5. QED
      BY <2>1, <2>2, <2>3, <2>4
  <1>2. rows \in Seq(Definitions) /\ (s = "putting" => Written(list, doubled, rows, what, c \in outdated))
    <2>1. CASE s = "getting"
      BY <1>1, <2>1
    <2>2. CASE s = "putting"
      <3>1. what \notin Updates /\ rows = Made(list, what)
        BY <1>1, <2>2
      <3>2. rows \in Seq(Definitions)
        BY <3>1, MadeOfTheList
      <3>3. QED
        BY <3>1, <3>2 DEF Written
    <2>3. QED
      BY <2>1, <2>2
  <1>3. Typed'
    <2>1. calls' \in 0..MaxCalls
      BY <1>1, CallbackAssumption DEF IInv, Typed, CallbackTypeOK
    <2>2. /\ stage' \in [Consumers -> {"idle", "getting", "putting"}]
          /\ call' \in [Consumers -> Updates \cup Replacements \cup {NoCall}]
          /\ updated' \in [Consumers -> Seq(Definitions)]
      BY <1>1, <1>2 DEF IInv, Typed, CallbackTypeOK
    <2>3. ASSUME NEW d \in Consumers
          PROVE  /\ call'[d] \in Updates \cup Replacements \cup {NoCall}
                 /\ call'[d] = NoCall <=> stage'[d] = "idle"
                 /\ updated'[d] \in Seq(Definitions)
                 /\ updated'[d] # <<>> => stage'[d] = "putting"
                 /\ stage'[d] = "getting" => call'[d] \in Updates
      <3>1. what # NoCall
        BY Calls
      <3>2. QED
        BY <1>1, <1>2, <3>1 DEF IInv, Typed, CallbackTypeOK
    <2>4. QED
      BY <1>1, <2>1, <2>2, <2>3 DEF IInv, Typed, CallbackTypeOK
  <1>4. ASSUME NEW d \in Consumers, stage'[d] = "putting"
        PROVE  Written(list', doubled', updated'[d], call'[d], d \in outdated')
    BY <1>1, <1>2, <1>4 DEF IInv, Typed, CallbackTypeOK
  <1>5. QED
    BY <1>1, <1>3, <1>4 DEF IInv, LossNeedsAnOutdatedWrite, Parsed

\* The call of c ends: nothing is left of it.
LEMMA EndsStep ==
    ASSUME IInv, NEW c \in Consumers, Ends(c)
    PROVE  /\ stage' \in [Consumers -> {"idle", "getting", "putting"}]
           /\ call' \in [Consumers -> Updates \cup Replacements \cup {NoCall}]
           /\ updated' \in [Consumers -> Seq(Definitions)]
           /\ \A d \in Consumers :
                 /\ call'[d] \in Updates \cup Replacements \cup {NoCall}
                 /\ call'[d] = NoCall <=> stage'[d] = "idle"
                 /\ updated'[d] \in Seq(Definitions)
                 /\ updated'[d] # <<>> => stage'[d] = "putting"
                 /\ stage'[d] = "getting" => call'[d] \in Updates
                 /\ stage'[d] = "putting" =>
                       /\ d # c /\ stage[d] = "putting"
                       /\ updated'[d] = updated[d] /\ call'[d] = call[d]
  <1>1. <<>> \in Seq(Definitions)
    OBVIOUS
  <1>2. QED
    BY <1>1 DEF Ends, IInv, Typed, CallbackTypeOK

LEMMA GetStep ==
    ASSUME IInv, NEW c \in Consumers, Get(c)
    PROVE  IInv'
  <1> DEFINE read == Parsed(list)
             new == Update(read, call[c])
  <1>1. /\ stage[c] = "getting" /\ call[c] \in Updates /\ call[c] # NoCall
        /\ UNCHANGED <<list, late, calls, outdated, overwritten, doubled>>
    BY DEF Get, IInv, Typed, CallbackTypeOK
  <1>2. /\ new = Made(list, call[c]) /\ new \in Seq(Definitions)
        /\ Apart(new, doubled)
        /\ Range(new) = Effect(Range(read), call[c])
    BY <1>1, MadeOfTheList DEF Made
  <1> HIDE DEF read, new
  <1>3. CASE /\ stage' = [stage EXCEPT ![c] = "putting"]
             /\ updated' = [updated EXCEPT ![c] = new]
             /\ UNCHANGED <<call, meant>>
    <2>1. Written(list, doubled, new, call[c], c \in outdated)
      BY <1>2 DEF Written
    <2>2. ASSUME NEW d \in Consumers, stage'[d] = "putting"
          PROVE  Written(list', doubled', updated'[d], call'[d], d \in outdated')
      BY <1>1, <1>3, <2>1, <2>2 DEF IInv, Typed, CallbackTypeOK
    <2>3. Typed'
      BY <1>1, <1>2, <1>3 DEF IInv, Typed, CallbackTypeOK
    <2>4. QED
      BY <1>1, <1>3, <2>2, <2>3 DEF IInv, LossNeedsAnOutdatedWrite, Parsed
  <1>4. CASE new = read /\ Ends(c) /\ meant' = Effect(meant, call[c])
    <2>1. ~overwritten => Range(Parsed(list)) = meant /\ meant' = meant
      BY <1>2, <1>4 DEF IInv, LossNeedsAnOutdatedWrite, read
    <2>2. meant' \subseteq Definitions
      <3>1. meant \subseteq Definitions
        BY DEF IInv, Typed, CallbackTypeOK
      <3>2. CASE call[c].op = "add" /\ call[c].new \in Definitions
        BY <1>4, <3>1, <3>2, Zenon DEF Effect
      <3>3. CASE call[c].op = "remove"
        BY <1>4, <3>1, <3>3, Zenon DEF Effect
      <3>4. QED
        BY <1>1, <3>2, <3>3, Calls
    <2>3. Typed'
      BY <1>1, <1>4, <2>2, EndsStep DEF IInv, Typed, CallbackTypeOK
    <2>4. ASSUME NEW d \in Consumers, stage'[d] = "putting"
          PROVE  Written(list', doubled', updated'[d], call'[d], d \in outdated')
      BY <1>1, <1>4, <2>4, EndsStep DEF IInv
    <2>5. QED
      BY <1>1, <2>1, <2>3, <2>4 DEF IInv, LossNeedsAnOutdatedWrite, Parsed
  <1>5. QED
    BY <1>3, <1>4 DEF Get, read, new

\* A write is applied: what is out was made from a list that is outdated now.
LEMMA ListChanges ==
    ASSUME IInv, NEW rows \in Seq(Definitions), NEW what \in Updates \cup Replacements,
           NEW stale \in BOOLEAN, Written(list, doubled, rows, what, stale), Applies(rows, what, stale),
           Typed', NEW kept \in SUBSET late,
           late' = {[w EXCEPT !.stale = w.what \in Updates] : w \in kept},
           \A d \in Consumers : stage'[d] = "putting" =>
              /\ stage[d] = "putting" /\ updated'[d] = updated[d] /\ call'[d] = call[d]
              /\ call[d] \in Updates => d \in outdated'
    PROVE  IInv'
  <1>1. Apart(list', doubled') /\ LossNeedsAnOutdatedWrite' /\ doubled \subseteq doubled'
    BY AppliedWrite
  <1>2. ASSUME NEW d \in Consumers, stage'[d] = "putting"
        PROVE  Written(list', doubled', updated'[d], call'[d], d \in outdated')
    <2>1. Written(list, doubled, updated[d], call[d], d \in outdated) /\ call[d] \in Updates \cup Replacements
      BY <1>2 DEF IInv, Typed, CallbackTypeOK
    <2>2. Written(list', doubled', updated[d], call[d], d \in outdated')
      <3>1. call[d] \in Updates => Apart(updated[d], doubled')
        BY <1>1, <2>1, ApartIsTwice DEF Written
      <3>2. QED
        BY <1>2, <2>1, <3>1 DEF Written, Made
    <2>3. QED
      BY <1>2, <2>2
  <1>3. ASSUME NEW w \in late' PROVE Written(list', doubled', w.rows, w.what, w.stale)
    <2>1. PICK x \in kept : w = [x EXCEPT !.stale = x.what \in Updates]
      OBVIOUS
    <2>2. x = [rows |-> x.rows, what |-> x.what, stale |-> x.stale]
      BY DEF IInv, Typed
    <2>3. w.rows = x.rows /\ w.what = x.what /\ w.stale = (x.what \in Updates)
      BY <2>1, <2>2
    <2>4. Written(list, doubled, x.rows, x.what, x.stale) /\ x.what \in Updates \cup Replacements
      BY DEF IInv, Typed, CallbackTypeOK
    <2>5. x.what \in Updates => Apart(x.rows, doubled')
      BY <1>1, <2>4, ApartIsTwice DEF Written
    <2>6. QED
      BY <2>3, <2>4, <2>5 DEF Written, Made
  <1>4. QED
    BY <1>1, <1>2, <1>3 DEF IInv

\* The types of what was given up.
LEMMA LateTyped ==
    ASSUME IInv, NEW kept \in SUBSET late,
           NEW w \in {[x EXCEPT !.stale = x.what \in Updates] : x \in kept}
    PROVE  /\ w.rows \in Seq(Definitions) /\ w.what \in Updates \cup Replacements
           /\ w = [rows |-> w.rows, what |-> w.what, stale |-> w.stale] /\ w.stale \in BOOLEAN
  <1>1. PICK x \in kept : w = [x EXCEPT !.stale = x.what \in Updates]
    OBVIOUS
  <1>2. /\ x = [rows |-> x.rows, what |-> x.what, stale |-> x.stale]
        /\ x.rows \in Seq(Definitions) /\ x.what \in Updates \cup Replacements
    BY DEF IInv, Typed, CallbackTypeOK
  <1>3. QED
    BY <1>1, <1>2

LEMMA PutStep ==
    ASSUME IInv, NEW c \in Consumers, Put(c)
    PROVE  IInv'
  <1>1. /\ stage[c] = "putting" /\ call[c] \in Updates \cup Replacements
        /\ updated[c] \in Seq(Definitions)
        /\ Written(list, doubled, updated[c], call[c], c \in outdated)
    BY DEF Put, IInv, Typed, CallbackTypeOK
  <1>2. /\ Ends(c) /\ calls' = calls
        /\ outdated' = {d \in Consumers \ {c} : stage[d] = "putting" /\ call[d] \in Updates}
        /\ late' = {[w EXCEPT !.stale = w.what \in Updates] : w \in late}
    BY DEF Put
  <1>3. PICK stale \in BOOLEAN : /\ Written(list, doubled, updated[c], call[c], stale)
                                 /\ Applies(updated[c], call[c], stale)
    <2>1. Applies(updated[c], call[c], c \in outdated)
      BY DEF Put
    <2>2. CASE c \in outdated
      BY <1>1, <2>1, <2>2 DEF Applies, Written
    <2>3. CASE c \notin outdated
      BY <1>1, <2>1, <2>3 DEF Applies, Written
    <2>4. QED
      BY <2>2, <2>3
  <1>4. list' \in Seq(Rows) /\ meant' \subseteq Definitions /\ overwritten' \in BOOLEAN
        /\ doubled' \subseteq Urls
    BY <1>1, <1>3, AppliedWrite
  <1>5. Typed'
    <2>1. outdated' \subseteq Consumers /\ calls' \in 0..MaxCalls
      BY <1>2 DEF IInv, Typed, CallbackTypeOK
    <2>2. ASSUME NEW w \in late'
          PROVE  /\ w.rows \in Seq(Definitions) /\ w.what \in Updates \cup Replacements
                 /\ w = [rows |-> w.rows, what |-> w.what, stale |-> w.stale]
                 /\ w.stale \in BOOLEAN
      BY <1>2, LateTyped
    <2>3. QED
      BY <1>2, <1>4, <2>1, <2>2, EndsStep DEF Typed, CallbackTypeOK
  <1>6. QED
    <2>1. \A d \in Consumers : stage'[d] = "putting" =>
             /\ stage[d] = "putting" /\ updated'[d] = updated[d] /\ call'[d] = call[d]
             /\ call[d] \in Updates => d \in outdated'
      BY <1>2, EndsStep
    <2>2. QED
      BY <1>1, <1>2, <1>3, <1>5, <2>1, ListChanges

LEMMA LateStep ==
    ASSUME IInv, NEW w \in late, Late(w)
    PROVE  IInv'
  <1>1. /\ w.rows \in Seq(Definitions) /\ w.what \in Updates \cup Replacements
        /\ w.stale \in BOOLEAN /\ Written(list, doubled, w.rows, w.what, w.stale)
    BY DEF IInv, Typed, CallbackTypeOK
  <1>2. /\ Applies(w.rows, w.what, w.stale) /\ UNCHANGED <<stage, call, updated, calls>>
        /\ outdated' = {d \in Consumers : stage[d] = "putting" /\ call[d] \in Updates}
        /\ late' = {[x EXCEPT !.stale = x.what \in Updates] : x \in late \ {w}}
    BY DEF Late
  <1>3. list' \in Seq(Rows) /\ meant' \subseteq Definitions /\ overwritten' \in BOOLEAN
        /\ doubled' \subseteq Urls
    BY <1>1, <1>2, AppliedWrite
  <1>4. Typed'
    <2>1. ASSUME NEW x \in late'
          PROVE  /\ x.rows \in Seq(Definitions) /\ x.what \in Updates \cup Replacements
                 /\ x = [rows |-> x.rows, what |-> x.what, stale |-> x.stale]
                 /\ x.stale \in BOOLEAN
      BY <1>2, LateTyped
    <2>2. QED
      BY <1>2, <1>3, <2>1 DEF IInv, Typed, CallbackTypeOK
  <1>5. QED
    BY <1>1, <1>2, <1>4, ListChanges

LEMMA GiveUpStep ==
    ASSUME IInv, NEW c \in Consumers, GiveUp(c)
    PROVE  IInv'
  <1> DEFINE w == [rows |-> updated[c], what |-> call[c], stale |-> c \in outdated]
  <1>1. /\ Ends(c) /\ outdated' = outdated \ {c}
        /\ UNCHANGED <<list, calls, overwritten, meant, doubled>>
        /\ \/ late' = late
           \/ stage[c] = "putting" /\ late' = late \cup {w}
    BY DEF GiveUp
  <1>2. ASSUME stage[c] = "putting"
        PROVE  /\ w.rows \in Seq(Definitions) /\ w.what \in Updates \cup Replacements
               /\ w.stale \in BOOLEAN /\ Written(list, doubled, w.rows, w.what, w.stale)
    BY <1>2 DEF IInv, Typed, CallbackTypeOK
  <1>3. w = [rows |-> w.rows, what |-> w.what, stale |-> w.stale]
    OBVIOUS
  <1> HIDE DEF w
  <1>4. Typed'
    BY <1>1, <1>2, <1>3, EndsStep DEF IInv, Typed, CallbackTypeOK
  <1>5. ASSUME NEW x \in late' PROVE Written(list', doubled', x.rows, x.what, x.stale)
    BY <1>1, <1>2 DEF IInv
  <1>6. ASSUME NEW d \in Consumers, stage'[d] = "putting"
        PROVE  Written(list', doubled', updated'[d], call'[d], d \in outdated')
    BY <1>1, <1>6, EndsStep DEF IInv
  <1>7. QED
    BY <1>1, <1>4, <1>5, <1>6 DEF IInv, LossNeedsAnOutdatedWrite, Parsed

LEMMA IInvStep == IInv /\ [Next]_vars => IInv'
  <1> SUFFICES ASSUME IInv, [Next]_vars PROVE IInv'
    OBVIOUS
  <1>1. ASSUME NEW c \in Consumers,
               \/ \E what \in Updates : BeginUpdate(c, what)
               \/ \E what \in Replacements : BeginReplace(c, what)
        PROVE  IInv'
    BY <1>1, BeginStep
  <1>2. ASSUME NEW c \in Consumers, Get(c) PROVE IInv'
    BY <1>2, GetStep
  <1>3. ASSUME NEW c \in Consumers, Put(c) PROVE IInv'
    BY <1>3, PutStep
  <1>4. ASSUME NEW c \in Consumers, GiveUp(c) PROVE IInv'
    BY <1>4, GiveUpStep
  <1>5. ASSUME NEW w \in late, Late(w) PROVE IInv'
    BY <1>5, LateStep
  <1>6. CASE UNCHANGED vars
    BY <1>6 DEF vars, IInv, Typed, CallbackTypeOK, LossNeedsAnOutdatedWrite, Parsed
  <1>7. QED
    BY <1>1, <1>2, <1>3, <1>4, <1>5, <1>6 DEF Next

LEMMA Inductive == Spec => []IInv
  BY InitIInv, IInvStep, PTL DEF Spec

-----------------------------------------------------------------------------
\* CallbackTypeOK: every variable keeps its type, and a consumer has a list to
\* write only while its write is out.
THEOREM CallbackTypeCorrect == Spec => []CallbackTypeOK
  <1>1. IInv => CallbackTypeOK
    BY DEF IInv, Typed
  <1>2. QED
    BY <1>1, Inductive, PTL

\* LossNeedsAnOutdatedWrite: whatever calls are made, given up, applied late or
\* made again by however many consumers, the company's list holds what the
\* applied calls leave, until a list is written that was made from an outdated one.
THEOREM OnlyOutdatedWritesLose == Spec => []LossNeedsAnOutdatedWrite
  <1>1. IInv => LossNeedsAnOutdatedWrite
    BY DEF IInv
  <1>2. QED
    BY <1>1, Inductive, PTL

\* OneRowPerUrl: a URL has two rows only if a list that was set, or the one the
\* company began with, has it twice.  No other call registers a URL again, and no
\* overlap of calls, not even one that writes a list made from an outdated one.
THEOREM UrlsStayApart == Spec => []OneRowPerUrl
  <1>1. IInv => OneRowPerUrl
    BY ApartIsTwice DEF IInv, OneRowPerUrl
  <1>2. QED
    BY <1>1, Inductive, PTL
=============================================================================
