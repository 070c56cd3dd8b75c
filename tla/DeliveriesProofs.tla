---------------------------- MODULE DeliveriesProofs ----------------------------
(***************************************************************************)
(* Theorems about Deliveries, for any templates, events, secrets, clocks   *)
(* and encodings: rebuilding the signed URL from what arrived lets no      *)
(* callback pass that does not carry the values FloLogic signed, each in   *)
(* the last parameter of its name, and refuses none that does, in time, if *)
(* the URL can be rebuilt at all; the event made of an accepted callback   *)
(* tells what happened at the valve, if no parameter was added that an     *)
(* event is read from.                                                     *)
(***************************************************************************)
EXTENDS Deliveries, SelectionsProofs

\* FloLogic's signature of d covers the template filled with the values of d,
\* which are no placeholders.
Signed(d) ==
    /\ DOMAIN d.values = Variables
    /\ \A v \in Variables : d.values[v] # Hole(v)
    /\ \E form, lower \in BOOLEAN :
          d.signature.url = SubstitutedUrl(registered, d.values, form, lower)
    /\ d.signature = ComputeSignature(d.signature.secret, d.timestamp, d.signature.url)
    /\ d.timestamp \in Int

Excused(r) ==
    \/ r.delivery.signature.secret # Secret
    \/ r.at - r.delivery.timestamp > Tolerance \/ r.delivery.timestamp - r.at > Tolerance
    \/ ~Carries(r.delivery) \/ ~Rebuildable(r.delivery)

Genuine(h) == h.delivery.signature.secret = Secret /\ Carries(h.delivery)

IInv ==
    /\ registered \in Templates
    /\ now \in Int
    /\ \A d \in wire : Signed(d)
    /\ \A h \in heard : Genuine(h)
    /\ \A r \in refused : Excused(r)

-----------------------------------------------------------------------------
LEMMA BlankIsNoHole ==
    ASSUME NEW v
    PROVE  Blank # Hole(v)
  <1>1. Len(<<"blank">>) = 1 /\ Len(<<"hole", v>>) = 2
    OBVIOUS
  <1>2. QED
    BY <1>1 DEF Blank, Hole

LEMMA NamesAreNoHole ==
    ASSUME NEW names, NEW v
    PROVE  Names(names) # Hole(v)
  <1>1. <<"names", names>>[1] # <<"hole", v>>[1]
    OBVIOUS
  <1>2. QED
    BY <1>1, BlankIsNoHole DEF Names, Hole

\* What FloLogic writes for a variable is no placeholder.
LEMMA WrittenValues ==
    ASSUME NEW e \in Events, NEW previous, NEW current, NEW v \in Variables
    PROVE  Written(e, previous, current)[v] # Hole(v)
  <1>1. /\ e.reason # Hole(v) /\ e.vid # Hole(v) /\ e.occurred_at # Hole(v)
    <2>1. \A value : value = Blank \/ value[1] = "text" => value # Hole(v)
      BY BlankIsNoHole DEF Hole
    <2>2. QED
      BY <2>1, DeliveryAssumption
  <1>2. Names(previous) # Hole(v) /\ Names(current) # Hole(v)
    BY NamesAreNoHole
  <1> HIDE DEF Names, Hole
  <1>3. QED
    BY <1>1, <1>2 DEF Written

\* The value of a parameter, where names are unique.
LEMMA ValuesOfUnique ==
    ASSUME NEW query, NEW i \in DOMAIN query, i \in Nat,
           \A j \in DOMAIN query : Fold(query[j].key) = Fold(query[i].key) => j = i
    PROVE  /\ Fold(query[i].key) \in DOMAIN Values(query)
           /\ Values(query)[Fold(query[i].key)] = query[i].text.value
  <1> DEFINE S == {j \in DOMAIN query : Fold(query[j].key) = Fold(query[i].key)}
  <1>1. /\ Fold(query[i].key) \in DOMAIN Values(query)
        /\ Values(query)[Fold(query[i].key)] = query[LastOf(S)].text.value
    BY DEF Values
  <1>2. S = {i}
    OBVIOUS
  <1>3. LastOf({i}) = i
    BY DEF LastOf
  <1>4. QED
    BY <1>1, <1>2, <1>3

\* A template asks for a variable at one place, under its own name.
LEMMA AskedAt ==
    ASSUME NEW T \in Templates, NEW slot \in Asked(T) \cap Variables
    PROVE  \E i \in DOMAIN T.query :
              /\ T.query[i].slot = slot /\ Fold(T.query[i].key) = slot
              /\ i \in Nat
              /\ \A j \in DOMAIN T.query : Fold(T.query[j].key) = slot => j = i
  <1>1. PICK i \in DOMAIN T.query : T.query[i].slot = slot
    BY DEF Asked
  <1>2. Fold(T.query[i].key) = slot
    BY <1>1, DeliveryAssumption
  <1>3. \A j \in DOMAIN T.query : Fold(T.query[j].key) = slot => j = i
    BY <1>2, DeliveryAssumption
  <1>4. i \in Nat
    BY DeliveryAssumption
  <1>5. QED
    BY <1>1, <1>2, <1>3, <1>4

\* The parameter of a filled URL at a place of the template.
LEMMA FilledAt ==
    ASSUME NEW T, NEW values, NEW form, NEW lower, NEW i \in DOMAIN T.query
    PROVE  LET filled == SubstitutedUrl(T, values, form, lower).query
           IN  /\ DOMAIN filled = DOMAIN T.query
               /\ filled[i].key = T.query[i].key
               /\ filled[i].text = Substitute(T.query[i].slot, values, form, lower)
  BY DEF SubstitutedUrl

\* What is filled in can be read off again.
LEMMA FilledValue ==
    ASSUME NEW slot, slot # Fixed, NEW values, NEW form, NEW lower
    PROVE  Substitute(slot, values, form, lower).value =
              IF slot \in DOMAIN values THEN values[slot] ELSE Hole(slot)
  BY DEF Substitute, Encoded, Spelled, Verbatim

\* A callback that verifies carries what was signed.
LEMMA VerifiedIsGenuine ==
    ASSUME registered \in Templates, NEW d, Signed(d), Verified(d)
    PROVE  d.signature.secret = Secret /\ Carries(d)
  <1>1. PICK url \in Candidates(registered, d.query) :
                ComputeSignature(Secret, d.timestamp, url) = d.signature
    BY DEF Verified
  <1>2. d.signature.secret = Secret /\ d.signature.url = url
    BY <1>1 DEF ComputeSignature
  <1>3. PICK form \in BOOLEAN, lower \in BOOLEAN :
                url = SubstitutedUrl(registered, d.values, form, lower)
    BY <1>2 DEF Signed
  <1>4. ASSUME NEW slot \in Asked(registered) \cap Variables
        PROVE  slot \in DOMAIN Values(d.query) /\ Values(d.query)[slot] = d.values[slot]
    <2>1. slot # Fixed
      BY DeliveryAssumption
    <2>2. PICK i \in DOMAIN registered.query :
             /\ registered.query[i].slot = slot /\ Fold(registered.query[i].key) = slot
             /\ i \in Nat
             /\ \A j \in DOMAIN registered.query :
                   Fold(registered.query[j].key) = slot => j = i
      BY AskedAt
    <2>3. /\ DOMAIN url.query = DOMAIN registered.query
          /\ \A j \in DOMAIN url.query : url.query[j].key = registered.query[j].key
          /\ url.query[i].text = Substitute(slot, d.values, form, lower)
      BY <1>3, <2>2, FilledAt
    <2>4. url.query[i].text.value = d.values[slot]
      BY <2>1, <2>3, FilledValue DEF Signed
    <2>5. CASE url = CallbackUrl(registered, d.query)
      <3>1. url.query = d.query
        BY <2>5 DEF CallbackUrl
      <3>2. i \in DOMAIN d.query /\ Fold(d.query[i].key) = slot
        BY <2>2, <2>3, <3>1
      <3>3. \A j \in DOMAIN d.query :
               Fold(d.query[j].key) = Fold(d.query[i].key) => j = i
        BY <2>2, <2>3, <3>1, <3>2
      <3>4. QED
        BY <2>2, <2>4, <3>1, <3>2, <3>3, ValuesOfUnique
    <2>6. CASE \E f, l \in BOOLEAN : url = SubstitutedUrl(registered, Values(d.query), f, l)
      <3>1. PICK f \in BOOLEAN, l \in BOOLEAN :
               url = SubstitutedUrl(registered, Values(d.query), f, l)
        BY <2>6
      <3>2. url.query[i].text = Substitute(slot, Values(d.query), f, l)
        BY <2>2, <3>1, FilledAt
      <3>3. d.values[slot] = IF slot \in DOMAIN Values(d.query)
                             THEN Values(d.query)[slot] ELSE Hole(slot)
        <4> DEFINE arrived == Values(d.query)
        <4> HIDE DEF arrived
        <4>1. Substitute(slot, arrived, f, l).value =
                 IF slot \in DOMAIN arrived THEN arrived[slot] ELSE Hole(slot)
          BY <2>1, FilledValue
        <4>2. QED
          BY <2>4, <3>2, <4>1 DEF arrived
      <3>4. d.values[slot] # Hole(slot)
        BY DEF Signed
      <3>5. QED
        BY <3>3, <3>4
    <2>7. QED
      BY <1>1, <2>5, <2>6 DEF Candidates
  <1>5. QED
    BY <1>2, <1>4 DEF Carries

\* A callback that carries what was signed verifies, in time and if the URL can be
\* rebuilt.
LEMMA GenuineVerifies ==
    ASSUME registered \in Templates, NEW d, Signed(d), InWindow(d.timestamp),
           d.signature.secret = Secret, Carries(d), Rebuildable(d)
    PROVE  Verified(d)
  <1>1. PICK form \in BOOLEAN, lower \in BOOLEAN :
                d.signature.url = SubstitutedUrl(registered, d.values, form, lower)
    BY DEF Signed
  <1>2. SUFFICES d.signature.url \in Candidates(registered, d.query)
    BY DEF Verified, Signed
  <1>3. CASE registered.path \notin Variables /\ d.query = d.signature.url.query
    <2>1. Substitute(registered.path, d.values, form, lower) = Verbatim(registered.path)
      BY <1>3 DEF Substitute, Signed
    <2>2. d.signature.url = CallbackUrl(registered, d.query)
      BY <1>1, <1>3, <2>1 DEF SubstitutedUrl, CallbackUrl
    <2>3. QED
      BY <2>2 DEF Candidates
  <1>4. CASE /\ registered.path \in Variables => registered.path \in Asked(registered)
             /\ (Asked(registered) \cup {registered.path}) \cap DOMAIN Values(d.query)
                   \subseteq Variables
    <2>1. ASSUME NEW slot \in Asked(registered) \cup {registered.path}
          PROVE  Substitute(slot, d.values, form, lower) =
                    Substitute(slot, Values(d.query), form, lower)
      <3>1. CASE slot \in Variables
        <4>1. slot \in Asked(registered) \cap Variables
          BY <1>4, <3>1
        <4>2. slot \in DOMAIN Values(d.query) /\ d.values[slot] = Values(d.query)[slot]
          BY <4>1 DEF Carries
        <4>3. QED
          BY <3>1, <4>2 DEF Substitute, Signed
      <3>2. CASE slot \notin Variables
        BY <1>4, <3>2 DEF Substitute, Signed
      <3>3. QED
        BY <3>1, <3>2
    <2>2. \A i \in DOMAIN registered.query : registered.query[i].slot \in Asked(registered)
      BY DEF Asked
    <2>3. d.signature.url = SubstitutedUrl(registered, Values(d.query), form, lower)
      BY <1>1, <2>1, <2>2 DEF SubstitutedUrl
    <2>4. QED
      BY <2>3 DEF Candidates
  <1>5. QED
    BY <1>3, <1>4 DEF Rebuildable

-----------------------------------------------------------------------------
LEMMA InitIInv == Init => IInv
  BY DEF Init, IInv

\* What happens on the way leaves the signature alone, and what it covers.
LEMMA PassesIInv ==
    ASSUME IInv, NEW d \in wire, NEW query, Passes(d, query)
    PROVE  IInv'
  <1> DEFINE e == [d EXCEPT !.query = query, !.hops = d.hops + 1]
  <1>1. e.signature = d.signature /\ e.values = d.values /\ e.timestamp = d.timestamp
    OBVIOUS
  <1>2. /\ registered' = registered /\ now' = now /\ heard' = heard /\ refused' = refused
        /\ wire' = (wire \ {d}) \cup {e}
    BY DEF Passes
  <1>3. Signed(d) /\ \A f \in wire : Signed(f)
    BY DEF IInv
  <1> HIDE DEF e
  <1>4. \A f \in wire' : Signed(f)'
    BY <1>1, <1>2, <1>3 DEF Signed
  <1>5. \A h \in heard' : Genuine(h)'
    BY <1>2 DEF IInv, Genuine, Carries
  <1>6. \A r \in refused' : Excused(r)'
    BY <1>2 DEF IInv, Excused, Carries, Rebuildable
  <1>7. QED
    BY <1>2, <1>4, <1>5, <1>6 DEF IInv

LEMMA SendIInv ==
    ASSUME IInv, NEW e \in Events, NEW previous, NEW current, NEW form \in BOOLEAN,
           NEW lower \in BOOLEAN, NEW secret, NEW skew \in Int,
           Send(e, previous, current, form, lower, secret, skew)
    PROVE  IInv'
  <1> DEFINE values == Written(e, previous, current)
             url == SubstitutedUrl(registered, values, form, lower)
             d == [event |-> e, values |-> values, query |-> url.query, hops |-> 0,
                   timestamp |-> now + skew,
                   signature |-> ComputeSignature(secret, now + skew, url)]
  <1>1. /\ registered' = registered /\ now' = now /\ heard' = heard /\ refused' = refused
        /\ wire' = wire \cup {d}
    BY DEF Send
  <1>2. DOMAIN values = Variables
    BY DEF Written
  <1>3. \A v \in Variables : values[v] # Hole(v)
    BY WrittenValues
  <1> HIDE DEF values
  <1>4. /\ d.values = values /\ d.timestamp = now + skew
        /\ d.signature = ComputeSignature(secret, now + skew, url)
        /\ d.signature.url = url /\ d.signature.secret = secret
    BY DEF ComputeSignature
  <1> HIDE DEF url, d
  <1>5. url = SubstitutedUrl(registered, values, form, lower)
    BY DEF url
  <1>6. ASSUME NEW f \in wire', f \notin wire PROVE Signed(f)'
    <2>1. f = d
      BY <1>1, <1>6
    <2>2. f.values = values /\ f.signature.url = url
      BY <1>4, <2>1
    <2>3. f.signature.url = SubstitutedUrl(registered', f.values, form, lower)
      BY <1>1, <1>5, <2>2
    <2>4. DOMAIN f.values = Variables /\ \A v \in Variables : f.values[v] # Hole(v)
      BY <1>2, <1>3, <2>2
    <2>5. /\ f.signature = ComputeSignature(f.signature.secret, f.timestamp, f.signature.url)
          /\ f.timestamp \in Int
      BY <1>4, <2>1 DEF IInv
    <2>6. QED
      BY <2>3, <2>4, <2>5 DEF Signed
  <1>7. \A f \in wire : Signed(f)'
    BY <1>1 DEF IInv, Signed
  <1>8. \A h \in heard' : Genuine(h)'
    BY <1>1 DEF IInv, Genuine, Carries
  <1>9. \A r \in refused' : Excused(r)'
    BY <1>1 DEF IInv, Excused, Carries, Rebuildable
  <1>10. QED
    BY <1>1, <1>6, <1>7, <1>8, <1>9 DEF IInv

LEMMA ReceiveIInv == ASSUME IInv, NEW d \in wire, Receive(d) PROVE IInv'
  <1> DEFINE h == [delivery |-> d, event |-> FromParams(d.query)]
             r == [delivery |-> d, at |-> now]
  <1>1. registered' = registered /\ wire' = wire \ {d} /\ now' = now
    BY DEF Receive
  <1>2. /\ heard' = heard \/ (Verified(d) /\ heard' = heard \cup {h})
        /\ refused' = refused \/ (~Verified(d) /\ refused' = refused \cup {r})
    BY DEF Receive
  <1>3. h.delivery = d /\ r.delivery = d /\ r.at = now
    OBVIOUS
  <1> HIDE DEF h, r
  <1>4. Verified(d) => Genuine(h)
    BY <1>3, VerifiedIsGenuine DEF IInv, Genuine
  <1>5. ~Verified(d) => Excused(r)
    <2>1. now \in Int /\ d.timestamp \in Int /\ Signed(d) /\ registered \in Templates
      BY DEF IInv, Signed
    <2>2. Tolerance \in Nat
      BY DeliveryAssumption
    <2>3. \/ InWindow(d.timestamp)
          \/ now - d.timestamp > Tolerance \/ d.timestamp - now > Tolerance
      BY <2>1, <2>2 DEF InWindow
    <2>4. QED
      BY <1>3, <2>1, <2>3, GenuineVerifies DEF Excused
  <1>6. \A k \in heard' : Genuine(k)
    BY <1>2, <1>4 DEF IInv
  <1>7. \A k \in refused' : Excused(k)
    BY <1>2, <1>5 DEF IInv
  <1>8. \A k \in heard' : Genuine(k)'
    BY <1>1, <1>6 DEF Genuine, Carries
  <1>9. \A k \in refused' : Excused(k)'
    BY <1>1, <1>7 DEF Excused, Carries, Rebuildable
  <1>10. \A f \in wire' : Signed(f)'
    BY <1>1 DEF IInv, Signed
  <1>11. QED
    BY <1>1, <1>8, <1>9, <1>10 DEF IInv

LEMMA StepIInv == IInv /\ [Next]_vars => IInv'
  <1> SUFFICES ASSUME IInv, [Next]_vars PROVE IInv'
    OBVIOUS
  <1>1. CASE UNCHANGED vars \/ Tick
    <2>1. /\ registered' = registered /\ wire' = wire /\ heard' = heard
          /\ refused' = refused /\ now' \in Int
      BY <1>1 DEF vars, Tick, IInv
    <2>2. /\ \A d \in wire' : Signed(d)'
          /\ \A h \in heard' : Genuine(h)'
      BY <2>1 DEF IInv, Signed, Genuine, Carries
    <2>3. \A r \in refused' : Excused(r)'
      BY <2>1 DEF IInv, Excused, Carries, Rebuildable
    <2>4. QED
      BY <2>1, <2>2, <2>3 DEF IInv
  <1>2. CASE \E e \in Events, form, lower \in BOOLEAN, secret \in Secrets, skew \in Skews :
                \E previous \in Writings(e.previous), current \in Writings(e.current) :
                    Send(e, previous, current, form, lower, secret, skew)
    BY <1>2, SendIInv, DeliveryAssumption
  <1>3. ASSUME NEW d \in wire,
               \/ \E form, lower \in BOOLEAN : Reencode(d, form, lower)
               \/ Reorder(d) \/ \E key \in RelayKeys : Tag(d, key)
               \/ \E i \in DOMAIN d.query : Damage(d, i)
        PROVE  IInv'
    BY <1>3, PassesIInv DEF Reencode, Reorder, Tag, Damage
  <1>4. CASE \E d \in wire : Receive(d)
    BY <1>4, ReceiveIInv
  <1>5. QED
    BY <1>1, <1>2, <1>3, <1>4 DEF Next

-----------------------------------------------------------------------------
\* verify_callback returns an event only if FloLogic signed, with the secret of
\* the receiver, the values that arrived in the last parameter of each name the
\* template asks for (webhook.py:188, webhook.py:228).
THEOREM HeardIsGenuine == Spec => []HeardIsWhatWasSent
  <1>1. IInv => HeardIsWhatWasSent
    BY DEF IInv, HeardIsWhatWasSent, Genuine
  <1>2. QED
    BY <1>1, InitIInv, StepIInv, PTL DEF Spec

\* verify_callback refuses a callback only if it is signed with another secret, out
\* of time, damaged, or its URL cannot be rebuilt (webhook.py:202).
THEOREM OnlyDamageIsRefused == Spec => []GenuineIsHeard
  <1>1. IInv => GenuineIsHeard
    BY DEF IInv, GenuineIsHeard, Excused
  <1>2. QED
    BY <1>1, InitIInv, StepIInv, PTL DEF Spec

-----------------------------------------------------------------------------
\* What an event is read from.

LEMMA LastOne ==
    ASSUME NEW n \in Nat, NEW S \in SUBSET (1..n), S # {}
    PROVE  LastOf(S) \in S
  <1> DEFINE T == {n - i : i \in S}
  <1>1. T \in SUBSET Nat
    <2>1. \A i \in 1..n : n - i \in Nat
      OBVIOUS
    <2>2. \A i \in S : n - i \in Nat
      BY <2>1
    <2>3. QED
      BY <2>2
  <1>2. \A i \in S : i \in Int /\ n - i \in T
    OBVIOUS
  <1>3. \A m \in T : \E i \in S : m = n - i
    OBVIOUS
  <1> HIDE DEF T
  <1>4. PICK m \in T : \A k \in T : m <= k
    <2>1. T # {}
      BY <1>2
    <2>2. QED
      BY <1>1, <2>1, LeastNumber
  <1>5. PICK i \in S : m = n - i
    BY <1>3
  <1>6. \A j \in S : j <= i
    BY <1>2, <1>4, <1>5
  <1>7. QED
    BY <1>6 DEF LastOf

\* The places of the parameters of a name.
Places(query, name) == {i \in DOMAIN query : Fold(query[i].key) = name}

\* The value of a name that has one key, in whatever case: as a URL is rebuilt, and
\* as an event is read.
LEMMA CleanOfOneKey ==
    ASSUME NEW n \in Nat, NEW query, DOMAIN query = 1..n,
           NEW name \in DOMAIN Values(query), NEW key,
           \A i \in Places(query, name) : query[i].key = key
    PROVE  /\ \E i \in Places(query, name) : Values(query)[name] = query[i].text.value
           /\ Clean(query, name) =
                 IF ReadsAsAbsent(Values(query)[name]) THEN Blank ELSE Values(query)[name]
  <1> DEFINE S == Places(query, name)
             inserted == {i \in DOMAIN query :
                             \A j \in DOMAIN query : query[j].key = query[i].key => i <= j}
             value == Values(query)[name]
             kept == {i \in inserted : /\ Fold(query[i].key) = name
                                       /\ ~ReadsAsAbsent(Params(query)[query[i].key])}
  <1>1. S \in SUBSET (1..n) /\ S # {}
    BY DEF Values, Places
  <1>2. value = query[LastOf(S)].text.value /\ LastOf(S) \in S
    BY <1>1, LastOne DEF Values, Places
  <1>3. Fold(key) = name
    BY <1>1 DEF Places
  <1>4. S = {i \in DOMAIN query : query[i].key = key}
    BY <1>3 DEF Places
  <1>5. key \in {query[i].key : i \in DOMAIN query}
    BY <1>1, <1>4
  <1>6. Params(query)[key] = value
    BY <1>2, <1>4, <1>5 DEF Params
  <1>7. Clean(query, name) = IF kept = {} THEN Blank ELSE Params(query)[query[LastOf(kept)].key]
    BY DEF Clean
  <1>8. \A i \in DOMAIN query : Fold(query[i].key) = name => query[i].key = key
    BY DEF Places
  <1> HIDE DEF value
  <1>9. CASE ReadsAsAbsent(value)
    <2>1. kept = {}
      BY <1>6, <1>8, <1>9
    <2> HIDE DEF kept
    <2>2. QED
      BY <1>2, <1>7, <1>9, <2>1 DEF value
  <1>10. CASE ~ReadsAsAbsent(value)
    <2>1. PICK i \in S : \A j \in S : i <= j
      <3>1. S \in SUBSET Nat
        BY <1>1
      <3> HIDE DEF S
      <3>2. QED
        BY <1>1, <3>1, LeastNumber
    <2>2. i \in inserted /\ query[i].key = key
      BY <1>4, <2>1
    <2>3. i \in kept
      BY <1>3, <1>6, <1>10, <2>2
    <2>4. kept \in SUBSET (1..n) /\ \A j \in kept : query[j].key = key
      BY <1>8
    <2> HIDE DEF kept
    <2>5. query[LastOf(kept)].key = key
      BY <2>3, <2>4, LastOne
    <2>6. Clean(query, name) = value
      BY <1>6, <1>7, <2>3, <2>5
    <2>7. QED
      BY <1>2, <1>10, <2>6 DEF value
  <1>11. QED
    BY <1>9, <1>10

\* A name that no parameter has reads as absent.
LEMMA CleanOfNone ==
    ASSUME NEW query, NEW name, name \notin DOMAIN Values(query)
    PROVE  Clean(query, name) = Blank
  <1>1. \A i \in DOMAIN query : Fold(query[i].key) # name
    BY DEF Values
  <1>2. QED
    BY <1>1 DEF Clean

LEMMA WrittenParts ==
    ASSUME NEW e, NEW previous, NEW current, NEW name \in Variables
    PROVE  /\ name = "previous_mode" => Written(e, previous, current)[name] = Names(previous)
           /\ name \in {"current_mode", "new_mode"} =>
                 Written(e, previous, current)[name] = Names(current)
           /\ name \in {"reason", "message"} => Written(e, previous, current)[name] = e.reason
  <1>1. "previous_mode" \notin {"current_mode", "new_mode", "reason", "message"}
    OBVIOUS
  <1>2. "current_mode" \notin {"reason", "message"} /\ "new_mode" \notin {"reason", "message"}
    OBVIOUS
  <1>3. QED
    BY <1>1, <1>2, Zenon DEF Written

-----------------------------------------------------------------------------
\* A token of a bit is read as that bit, or is a name that is not read at all.
LEMMA NamesRead ==
    ASSUME NEW bit \in Bits, NEW token \in NamesOfBit(bit)
    PROVE  \/ BitsOfName(token) = {bit}
           \/ BitsOfName(token) = {} /\ token[1] = "name"
  <1>1. CASE token = Number({bit})
    BY <1>1 DEF BitsOfName, Number
  <1>2. ASSUME NEW name, token = Name(name)
        PROVE  /\ token[1] = "name"
               /\ BitsOfName(token) = IF name \in KnownFlags THEN {name}
                                      ELSE IF name \in DOMAIN Aliases THEN {Aliases[name]}
                                      ELSE {}
    <2>1. token[1] = "name" /\ token[2] = name
      BY <1>2 DEF Name
    <2>2. QED
      BY <2>1 DEF BitsOfName
  <1>3. CASE token = Name(bit)
    <2>1. CASE bit \in KnownFlags
      BY <1>2, <1>3, <2>1
    <2>2. CASE bit = UnknownBit
      <3>1. UnknownBit \notin KnownFlags /\ UnknownBit \notin DOMAIN Aliases
        BY DEF UnknownBit, KnownFlags, Aliases
      <3>2. QED
        BY <1>2, <1>3, <2>2, <3>1
    <2>3. QED
      BY <2>1, <2>2 DEF Bits
  <1>4. CASE bit \in DOMAIN LongName /\ token = Name(LongName[bit])
    <2>1. bit \in {"LOW_TEMP_ALERT", "LOW_TEMP_SHUTOFF", "LOW_TEMP_SENSOR_SHUTOFF", "AC_LOST"}
      BY <1>4 DEF LongName
    <2>2. /\ LongName[bit] \notin KnownFlags /\ LongName[bit] \in DOMAIN Aliases
          /\ Aliases[LongName[bit]] = bit
      BY <2>1 DEF LongName, KnownFlags, Aliases
    <2>3. QED
      BY <1>2, <1>4, <2>2
  <1>5. QED
    BY <1>1, <1>3, <1>4 DEF NamesOfBit

\* Reading a list of tokens that a word was written as.
LEMMA WordRead ==
    ASSUME NEW word \in Words, NEW tokens \in Writings(word)
    PROVE  /\ tokens = {} => word = {}
           /\ FromNames(tokens).word \subseteq word
           /\ \A bit \in word \ FromNames(tokens).word :
                 NamesOfBit(bit) \cap FromNames(tokens).unknown # {}
           /\ FromNames(tokens) # Absent
  <1> DEFINE read == FromNames(tokens)
  <1>1. /\ read.word = UNION {BitsOfName(n) : n \in tokens}
        /\ read.unknown = {n \in tokens : n[1] = "name" /\ BitsOfName(n) = {}}
    BY DEF FromNames
  <1>2. NoFlag \notin word
    BY DEF Words, Bits, KnownFlags, NoFlag, UnknownBit
  <1>3. CASE tokens = {Number(word)}
    <2>1. BitsOfName(Number(word)) = word
      BY DEF BitsOfName, Number
    <2>2. read.word = word
      BY <1>1, <1>3, <2>1
    <2> HIDE DEF read
    <2>3. read # Absent
      BY <1>2, <2>2 DEF Absent
    <2>4. QED
      BY <1>3, <2>2, <2>3 DEF read
  <1>4. CASE tokens # {Number(word)}
    <2>1. PICK f : /\ f \in [word -> UNION {NamesOfBit(b) : b \in word}]
                   /\ \A b \in word : f[b] \in NamesOfBit(b)
                   /\ tokens = {f[bit] : bit \in word}
      BY <1>4 DEF Writings
    <2>2. \A bit \in word : bit \in Bits /\ f[bit] \in NamesOfBit(bit) /\ f[bit] \in tokens
      BY <2>1 DEF Words
    <2>3. \A bit \in word : \/ BitsOfName(f[bit]) = {bit}
                            \/ BitsOfName(f[bit]) = {} /\ f[bit][1] = "name"
      BY <2>2, NamesRead
    <2>4. \A n \in tokens : \E bit \in word : n = f[bit]
      BY <2>1
    <2> HIDE DEF read
    <2>5. read.word \subseteq word
      BY <1>1, <2>3, <2>4
    <2>6. ASSUME NEW bit \in word, bit \notin read.word
          PROVE  NamesOfBit(bit) \cap read.unknown # {}
      <3>1. BitsOfName(f[bit]) # {bit}
        BY <1>1, <2>2, <2>6
      <3>2. f[bit] \in read.unknown
        BY <1>1, <2>2, <2>3, <3>1
      <3>3. QED
        BY <2>2, <3>2
    <2>7. read # Absent
      <3>1. Absent.word = {NoFlag}
        BY DEF Absent
      <3>2. QED
        BY <1>2, <2>5, <3>1
    <2>8. tokens = {} => word = {}
      BY <2>2
    <2>9. QED
      BY <2>5, <2>6, <2>7, <2>8 DEF read
  <1>5. QED
    BY <1>3, <1>4

-----------------------------------------------------------------------------
\* The parts of CallbackEvent.from_params.
CurrentMode(query) ==
    IF ModeOf(query, "current_mode") # Absent THEN ModeOf(query, "current_mode")
    ELSE ModeOf(query, "new_mode")
ReasonOf(query) ==
    IF Clean(query, "reason") # Blank THEN Clean(query, "reason") ELSE Clean(query, "message")

LEMMA EventParts ==
    ASSUME NEW query
    PROVE  /\ FromParams(query).reason_raw = ReasonOf(query)
           /\ FromParams(query).reason =
                 (IF ReasonOf(query) \in Recognized THEN ReasonOf(query) ELSE Blank)
           /\ FromParams(query).previous_mode = ModeOf(query, "previous_mode").word
           /\ FromParams(query).current_mode = CurrentMode(query).word
           /\ FromParams(query).unknown_mode_names =
                 CurrentMode(query).unknown \cup ModeOf(query, "previous_mode").unknown
  BY DEF FromParams, CurrentMode, ReasonOf

\* A mode that was written as names.
LEMMA ModePart ==
    ASSUME NEW query, NEW k, NEW tokens, tokens # {}, Clean(query, k) = Names(tokens)
    PROVE  ModeOf(query, k) = FromNames(tokens)
  <1>1. Names(tokens) = <<"names", tokens>>
    BY DEF Names
  <1> DEFINE value == <<"names", tokens>>
  <1>2. value[1] = "names" /\ value[2] = tokens /\ Len(value) = 2
    OBVIOUS
  <1> HIDE DEF value
  <1>3. Len(Blank) = 1
    BY DEF Blank
  <1>4. value # Blank /\ Tokens(value) = tokens
    BY <1>2, <1>3 DEF Tokens
  <1>5. Clean(query, k) = value
    BY <1>1 DEF value
  <1>6. QED
    BY <1>4, <1>5 DEF ModeOf

-----------------------------------------------------------------------------
\* The variables that FloLogic filled in.
Filling == Asked(registered) \cap Variables

\* What was written for an event is under way.
Told(d) ==
    /\ d.event \in Events
    /\ \E previous \in Writings(d.event.previous), current \in Writings(d.event.current) :
          d.values = Written(d.event, previous, current)
    /\ {"query", "hops"} \subseteq DOMAIN d
    /\ \E R : d.query \in Seq(R)

\* A list whose elements are replaced.
LEMMA ListOf ==
    ASSUME NEW R, NEW query \in Seq(R), NEW S, NEW g, g = [i \in DOMAIN query |-> g[i]],
           \A i \in DOMAIN query : g[i] \in S
    PROVE  g \in Seq(S)
  OBVIOUS

LEMMA Element ==
    ASSUME NEW R, NEW query \in Seq(R)
    PROVE  /\ query = [i \in DOMAIN query |-> query[i]]
           /\ \A i \in DOMAIN query : query[i] \in R
           /\ Len(query) \in Nat /\ DOMAIN query = 1..Len(query)
  OBVIOUS

\* What is read for an event from a legible query that carries what was written.
LEMMA KeysTold ==
    ASSUME NEW d, Told(d), Carries(d), Legible(d.query), NEW k \in EventKeys
    PROVE  Clean(d.query, k) =
              IF k \in Filling /\ ~ReadsAsAbsent(d.values[k]) THEN d.values[k] ELSE Blank
  <1> DEFINE query == d.query
             n == Len(query)
  <1>1. n \in Nat /\ DOMAIN query = 1..n
    <2>1. PICK R : query \in Seq(R)
      BY DEF Told
    <2>2. QED
      BY <2>1, Element
  <1>2. CASE k \notin DOMAIN Values(query)
    <2>1. k \notin Filling
      BY <1>2 DEF Carries, Filling
    <2>2. QED
      BY <1>2, <2>1, CleanOfNone
  <1>3. CASE k \in DOMAIN Values(query)
    <2>1. PICK i \in DOMAIN query : Fold(query[i].key) = k
      BY <1>3 DEF Values
    <2>2. \A j \in Places(query, k) : query[j].key = query[i].key
      BY <2>1 DEF Legible, Places
    <2>3. /\ \E j \in Places(query, k) : Values(query)[k] = query[j].text.value
          /\ Clean(query, k) = IF ReadsAsAbsent(Values(query)[k]) THEN Blank
                               ELSE Values(query)[k]
      <3> HIDE DEF n, query
      <3>1. QED
        BY <1>1, <1>3, <2>2, CleanOfOneKey
    <2>4. CASE k \in Filling
      <3>1. Values(query)[k] = d.values[k]
        BY <2>4 DEF Carries, Filling
      <3>2. QED
        BY <2>3, <2>4, <3>1
    <2>5. CASE k \notin Filling
      <3>1. \A j \in Places(query, k) : ReadsAsAbsent(query[j].text.value)
        BY <2>5 DEF Legible, Places, Filling
      <3>2. ReadsAsAbsent(Values(query)[k])
        BY <2>3, <3>1
      <3>3. QED
        BY <2>3, <2>5, <3>2
    <2>6. QED
      BY <2>4, <2>5
  <1>4. QED
    BY <1>2, <1>3

\* What is read for a word that was written, or left out.
ReadMode(read, written, word) ==
    IF ~written THEN read = Absent
    ELSE \/ word = {} /\ read = Absent
         \/ /\ read # Absent
            /\ read.word \subseteq word
            /\ \A bit \in word \ read.word : NamesOfBit(bit) \cap read.unknown # {}

LEMMA ModeRead ==
    ASSUME NEW d, Told(d), Carries(d), Legible(d.query),
           NEW k \in EventKeys, NEW word \in Words,
           NEW tokens \in Writings(word), k \in Filling => d.values[k] = Names(tokens)
    PROVE  ReadMode(ModeOf(d.query, k), k \in Filling, word)
  <1>1. ReadsAsAbsent(Blank)
    BY DEF ReadsAsAbsent
  <1>2. CASE k \notin Filling
    <2>1. ModeOf(d.query, k) = Absent
      BY <1>2, KeysTold DEF ModeOf
    <2>2. QED
      BY <1>2, <2>1 DEF ReadMode
  <1>3. CASE k \in Filling /\ tokens = {}
    <2>1. Clean(d.query, k) = Blank
      BY <1>1, <1>3, KeysTold DEF Names
    <2>2. ModeOf(d.query, k) = Absent /\ word = {}
      BY <1>3, <2>1, WordRead DEF ModeOf
    <2>3. QED
      BY <1>3, <2>2 DEF ReadMode
  <1>4. CASE k \in Filling /\ tokens # {}
    <2>1. ~ReadsAsAbsent(Names(tokens))
      <3>1. Len(<<"names", tokens>>) = 2 /\ <<"names", tokens>>[1] = "names" /\ Len(<<"blank">>) = 1
        OBVIOUS
      <3>2. QED
        BY <1>4, <3>1 DEF Names, ReadsAsAbsent, Blank
    <2>2. Clean(d.query, k) = Names(tokens)
      BY <1>4, <2>1, KeysTold
    <2>3. ModeOf(d.query, k) = FromNames(tokens)
      BY <1>4, <2>2, ModePart
    <2>4. QED
      BY <1>4, <2>3, WordRead DEF ReadMode
  <1>5. QED
    BY <1>2, <1>3, <1>4

LEMMA EventTold ==
    ASSUME NEW d, Told(d), Carries(d), Legible(d.query)
    PROVE  LET event == FromParams(d.query)
               sent == d.event
           IN  /\ Filling \cap {"reason", "message"} # {} => event.reason_raw = sent.reason
               /\ event.reason \in {Blank, sent.reason}
               /\ ModeTells(event.current_mode, event,
                            Filling \cap {"current_mode", "new_mode"} # {}, sent.current)
               /\ ModeTells(event.previous_mode, event,
                            "previous_mode" \in Filling, sent.previous)
  <1> DEFINE p == d.query
             event == FromParams(p)
             sent == d.event
  <1>1. PICK previous \in Writings(sent.previous), current \in Writings(sent.current) :
                d.values = Written(sent, previous, current)
    BY DEF Told
  <1>2. /\ sent.previous \in Words /\ sent.current \in Words
        /\ sent.reason = Blank \/ sent.reason[1] = "text"
    BY DeliveryAssumption DEF Told
  <1>3. /\ "previous_mode" \in Filling => d.values["previous_mode"] = Names(previous)
        /\ \A k \in {"current_mode", "new_mode"} : k \in Filling => d.values[k] = Names(current)
        /\ \A k \in {"reason", "message"} : k \in Filling => d.values[k] = sent.reason
    BY <1>1, WrittenParts DEF Filling
  <1>4. \A k \in {"previous_mode", "current_mode", "new_mode", "reason", "message"} :
           k \in EventKeys
    BY DEF EventKeys
  <1>5. \A k \in {"reason", "message"} :
           Clean(p, k) = IF k \in Filling THEN sent.reason ELSE Blank
    <2>1. ReadsAsAbsent(sent.reason) => sent.reason = Blank
      BY <1>2 DEF ReadsAsAbsent
    <2>2. QED
      BY <1>3, <1>4, <2>1, KeysTold
  <1>6. ReadMode(ModeOf(p, "previous_mode"), "previous_mode" \in Filling, sent.previous)
    BY <1>2, <1>3, <1>4, ModeRead
  <1>7. ReadMode(ModeOf(p, "current_mode"), "current_mode" \in Filling, sent.current)
    BY <1>2, <1>3, <1>4, ModeRead
  <1>8. ReadMode(ModeOf(p, "new_mode"), "new_mode" \in Filling, sent.current)
    BY <1>2, <1>3, <1>4, ModeRead
  <1> HIDE DEF p
  <1>9. /\ event.reason_raw = ReasonOf(p)
        /\ event.reason = IF ReasonOf(p) \in Recognized THEN ReasonOf(p) ELSE Blank
        /\ event.previous_mode = ModeOf(p, "previous_mode").word
        /\ event.current_mode = CurrentMode(p).word
        /\ event.unknown_mode_names =
              CurrentMode(p).unknown \cup ModeOf(p, "previous_mode").unknown
    BY EventParts
  <1> HIDE DEF event, sent
  <1>10. /\ Filling \cap {"reason", "message"} # {} => event.reason_raw = sent.reason
         /\ event.reason \in {Blank, sent.reason}
    BY <1>5, <1>9 DEF ReasonOf
  <1>11. ReadMode(CurrentMode(p), Filling \cap {"current_mode", "new_mode"} # {}, sent.current)
    <2>1. CASE ModeOf(p, "current_mode") # Absent
      <3>1. "current_mode" \in Filling
        BY <1>7, <2>1 DEF ReadMode
      <3>2. QED
        BY <1>7, <2>1, <3>1 DEF ReadMode, CurrentMode
    <2>2. CASE ModeOf(p, "current_mode") = Absent
      <3>1. "current_mode" \in Filling => sent.current = {}
        BY <1>7, <2>2 DEF ReadMode
      <3>2. CurrentMode(p) = ModeOf(p, "new_mode")
        BY <2>2 DEF CurrentMode
      <3>3. QED
        BY <1>8, <3>1, <3>2 DEF ReadMode
    <2>3. QED
      BY <2>1, <2>2
  <1>12. ModeTells(event.current_mode, event,
                   Filling \cap {"current_mode", "new_mode"} # {}, sent.current)
    BY <1>9, <1>11 DEF ReadMode, ReadFromNames, ModeTells
  <1>13. ModeTells(event.previous_mode, event, "previous_mode" \in Filling, sent.previous)
    BY <1>6, <1>9 DEF ReadMode, ReadFromNames, ModeTells
  <1>14. QED
    BY <1>10, <1>12, <1>13 DEF event, sent, p

-----------------------------------------------------------------------------
\* What is heard was told, and read with from_params.
Read(h) == Told(h.delivery) /\ h.event = FromParams(h.delivery.query)

EInv ==
    /\ IInv
    /\ \A d \in wire : Told(d)
    /\ \A h \in heard : Read(h)

LEMMA PassesTold ==
    ASSUME EInv, IInv', NEW d \in wire, NEW query, Passes(d, query),
           NEW R, query \in Seq(R)
    PROVE  EInv'
  <1> DEFINE moved == [d EXCEPT !.query = query]
             e == [moved EXCEPT !.hops = d.hops + 1]
  <1>1. /\ registered' = registered /\ heard' = heard
        /\ wire' = (wire \ {d}) \cup {e}
    BY DEF Passes
  <1>2. Told(d) /\ \A f \in wire : Told(f)
    BY DEF EInv
  <1>3. moved.query = query /\ moved.event = d.event /\ moved.values = d.values
        /\ DOMAIN moved = DOMAIN d
    BY <1>2 DEF Told
  <1> HIDE DEF moved
  <1>4. e.query = query /\ e.event = d.event /\ e.values = d.values /\ DOMAIN e = DOMAIN d
    BY <1>3
  <1> HIDE DEF e
  <1>5. Told(e)
    BY <1>2, <1>4 DEF Told
  <1>6. ASSUME NEW f \in wire' PROVE Told(f)
    BY <1>1, <1>2, <1>5
  <1>7. QED
    BY <1>1, <1>6 DEF EInv, Read, Told

LEMMA ReencodeTold ==
    ASSUME EInv, IInv', NEW d \in wire, NEW form \in BOOLEAN, NEW lower \in BOOLEAN,
           Reencode(d, form, lower)
    PROVE  EInv'
  <1> DEFINE old == d.query
             item(i) == [old[i] EXCEPT !.text = Encoded(old[i].text.value, form, lower)]
             query == [i \in DOMAIN old |-> item(i)]
             S == {item(i) : i \in DOMAIN old}
  <1>1. PICK R : old \in Seq(R)
    BY DEF EInv, Told
  <1>2. Passes(d, query)
    BY DEF Reencode
  <1> HIDE DEF old, item
  <1>3. query = [i \in DOMAIN old |-> query[i]] /\ \A i \in DOMAIN old : query[i] \in S
    OBVIOUS
  <1> HIDE DEF query, S
  <1>4. query \in Seq(S)
    BY <1>1, <1>3, ListOf
  <1>5. QED
    BY <1>2, <1>4, PassesTold

LEMMA ReorderTold ==
    ASSUME EInv, IInv', NEW d \in wire, Reorder(d)
    PROVE  EInv'
  <1> DEFINE old == d.query
             n == Len(old)
             query == [i \in DOMAIN old |-> old[n + 1 - i]]
  <1>1. PICK R : old \in Seq(R)
    BY DEF EInv, Told
  <1>2. Passes(d, query)
    BY DEF Reorder
  <1> HIDE DEF old
  <1>3. n \in Nat /\ DOMAIN old = 1..n /\ \A i \in DOMAIN old : old[i] \in R
    BY <1>1, Element
  <1> HIDE DEF n
  <1>4. \A i \in DOMAIN old : n + 1 - i \in DOMAIN old
    BY <1>3
  <1>5. /\ query = [i \in DOMAIN old |-> query[i]]
        /\ \A i \in DOMAIN old : query[i] = old[n + 1 - i]
    OBVIOUS
  <1> HIDE DEF query
  <1>6. query \in Seq(R)
    BY <1>1, <1>3, <1>4, <1>5, ListOf
  <1>7. QED
    BY <1>2, <1>6, PassesTold

LEMMA TagTold ==
    ASSUME EInv, IInv', NEW d \in wire, NEW key, Tag(d, key)
    PROVE  EInv'
  <1> DEFINE old == d.query
             item == [key |-> key, text |-> Verbatim(Fixed)]
             query == Append(old, item)
  <1>1. PICK R : old \in Seq(R)
    BY DEF EInv, Told
  <1>2. Passes(d, query)
    BY DEF Tag
  <1> HIDE DEF old, item
  <1> DEFINE S == R \cup {item}
  <1>3. /\ old = [i \in DOMAIN old |-> old[i]] /\ \A i \in DOMAIN old : old[i] \in S
        /\ item \in S
    BY <1>1, Element
  <1> HIDE DEF S
  <1>4. old \in Seq(S)
    BY <1>1, <1>3, ListOf
  <1>5. query \in Seq(S)
    BY <1>3, <1>4
  <1> HIDE DEF query
  <1>6. QED
    BY <1>2, <1>5, PassesTold

LEMMA DamageTold ==
    ASSUME EInv, IInv', NEW d \in wire, NEW i \in DOMAIN d.query, Damage(d, i)
    PROVE  EInv'
  <1> DEFINE old == d.query
             item == [old[i] EXCEPT !.text = Encoded(Blank, FALSE, FALSE)]
             query == [old EXCEPT ![i] = item]
  <1>1. PICK R : old \in Seq(R)
    BY DEF EInv, Told
  <1>2. Passes(d, query)
    BY DEF Damage
  <1> HIDE DEF old, item
  <1> DEFINE S == R \cup {item}
  <1>3. \A j \in DOMAIN old : old[j] \in S
    BY <1>1, Element
  <1>4. /\ query = [j \in DOMAIN old |-> query[j]]
        /\ \A j \in DOMAIN old : query[j] = item \/ query[j] = old[j]
    BY <1>1, Element
  <1>5. \A j \in DOMAIN old : query[j] \in S
    BY <1>3, <1>4
  <1> HIDE DEF query, S
  <1>6. query \in Seq(S)
    BY <1>1, <1>4, <1>5, ListOf
  <1>7. QED
    BY <1>2, <1>6, PassesTold

-----------------------------------------------------------------------------
\* A callback that is sent.
LEMMA SendTold ==
    ASSUME EInv, IInv', NEW e \in Events, NEW previous \in Writings(e.previous),
           NEW current \in Writings(e.current), NEW form \in BOOLEAN, NEW lower \in BOOLEAN,
           NEW secret, NEW skew, Send(e, previous, current, form, lower, secret, skew)
    PROVE  EInv'
  <1> DEFINE values == Written(e, previous, current)
             url == SubstitutedUrl(registered, values, form, lower)
             template == registered.query
             item(i) == [key |-> template[i].key,
                         text |-> Substitute(template[i].slot, values, form, lower)]
             query == [i \in DOMAIN template |-> item(i)]
             S == {item(i) : i \in DOMAIN template}
             signature == ComputeSignature(secret, now + skew, url)
             d == [event |-> e, values |-> values, query |-> url.query, hops |-> 0,
                   timestamp |-> now + skew, signature |-> signature]
  <1>1. registered' = registered /\ heard' = heard /\ wire' = wire \cup {d}
    BY DEF Send
  <1>2. url.query = query
    BY DEF SubstitutedUrl
  <1>3. PICK R : template \in Seq(R)
    BY DeliveryAssumption DEF EInv, IInv
  <1> HIDE DEF values, url, signature, item, template
  <1>4. query = [i \in DOMAIN template |-> query[i]] /\ \A i \in DOMAIN template : query[i] \in S
    OBVIOUS
  <1> HIDE DEF query, S
  <1>5. query \in Seq(S)
    BY <1>3, <1>4, ListOf
  <1>6. /\ d.event = e /\ d.values = values /\ d.query = query
        /\ {"query", "hops"} \subseteq DOMAIN d
    BY <1>2
  <1> HIDE DEF d
  <1>7. Told(d)
    BY <1>5, <1>6 DEF Told, values
  <1>8. QED
    BY <1>1, <1>7 DEF EInv, Read, Told

LEMMA ReceiveTold ==
    ASSUME EInv, IInv', NEW d \in wire, Receive(d)
    PROVE  EInv'
  <1> DEFINE h == [delivery |-> d, event |-> FromParams(d.query)]
  <1>1. /\ registered' = registered /\ wire' = wire \ {d}
        /\ heard' = heard \/ heard' = heard \cup {h}
    BY DEF Receive
  <1>2. h.delivery = d /\ h.event = FromParams(d.query)
    OBVIOUS
  <1> HIDE DEF h
  <1>3. Read(h)
    BY <1>2 DEF EInv, Read
  <1>4. ASSUME NEW k \in heard' PROVE Read(k)
    BY <1>1, <1>3 DEF EInv
  <1>5. QED
    BY <1>1, <1>4 DEF EInv, Read, Told

LEMMA StepEInv == EInv /\ [Next]_vars => EInv'
  <1> SUFFICES ASSUME EInv, [Next]_vars PROVE EInv'
    OBVIOUS
  <1>1. IInv'
    BY StepIInv DEF EInv
  <1>2. CASE UNCHANGED vars \/ Tick
    <2>1. registered' = registered /\ wire' = wire /\ heard' = heard
      BY <1>2 DEF vars, Tick
    <2>2. QED
      BY <1>1, <2>1 DEF EInv, Told, Read
  <1>3. ASSUME NEW e \in Events, NEW form \in BOOLEAN, NEW lower \in BOOLEAN, NEW secret,
               NEW skew, NEW previous \in Writings(e.previous),
               NEW current \in Writings(e.current),
               Send(e, previous, current, form, lower, secret, skew)
        PROVE  EInv'
    BY <1>1, <1>3, SendTold
  <1>4. ASSUME NEW d \in wire, NEW form \in BOOLEAN, NEW lower \in BOOLEAN,
               Reencode(d, form, lower)
        PROVE  EInv'
    BY <1>1, <1>4, ReencodeTold
  <1>5. ASSUME NEW d \in wire, Reorder(d) PROVE EInv'
    BY <1>1, <1>5, ReorderTold
  <1>6. ASSUME NEW d \in wire, NEW key \in RelayKeys, Tag(d, key) PROVE EInv'
    BY <1>1, <1>6, TagTold
  <1>7. ASSUME NEW d \in wire, NEW i \in DOMAIN d.query, Damage(d, i) PROVE EInv'
    BY <1>1, <1>7, DamageTold
  <1>8. ASSUME NEW d \in wire, Receive(d) PROVE EInv'
    BY <1>1, <1>8, ReceiveTold
  <1>9. QED
    BY <1>2, <1>3, <1>4, <1>5, <1>6, <1>7, <1>8 DEF Next

\* EventIsWhatHappened: the event of a callback that is accepted has the reason and
\* the bits that FloLogic reported, read or kept by name, if a relay added no other
\* key that an event is read from, by another spelling or by an alias
\* (webhook.py:228, models.py CallbackEvent.from_params).
THEOREM EventTellsWhatHappened == Spec => []EventIsWhatHappened
  <1>1. Init => EInv
    BY InitIInv DEF Init, EInv
  <1>2. EInv => EventIsWhatHappened
    <2> SUFFICES ASSUME EInv, NEW h \in heard, Legible(h.delivery.query)
                 PROVE  LET sent == h.delivery.event
                        IN  /\ Filling \cap {"reason", "message"} # {} =>
                                  h.event.reason_raw = sent.reason
                            /\ h.event.reason \in {Blank, sent.reason}
                            /\ ModeTells(h.event.current_mode, h.event,
                                         Filling \cap {"current_mode", "new_mode"} # {},
                                         sent.current)
                            /\ ModeTells(h.event.previous_mode, h.event,
                                         "previous_mode" \in Filling, sent.previous)
      BY DEF EventIsWhatHappened, Filling
    <2>1. Told(h.delivery) /\ Carries(h.delivery)
      BY DEF EInv, IInv, Read, Genuine
    <2>2. h.event = FromParams(h.delivery.query)
      BY DEF EInv, Read
    <2>3. QED
      BY <2>1, <2>2, EventTold
  <1>3. QED
    BY <1>1, <1>2, StepEInv, PTL DEF Spec
=============================================================================
