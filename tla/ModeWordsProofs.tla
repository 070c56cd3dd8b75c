--------------------------- MODULE ModeWordsProofs ---------------------------
(* The readings of a mode word agree for words of any number of bits. *)
EXTENDS ModeWords, WellFoundedInduction, TLAPS

-----------------------------------------------------------------------------
\* A set of positions has a least one.
LEMMA LeastPosition ==
    ASSUME NEW S \in SUBSET Nat, S # {}
    PROVE  \E i \in S : \A j \in S : i <= j
<1>1. IsWellFoundedOn(OpToRel(<, Nat), Nat)
  BY NatLessThanWellFounded, Zenon
<1>2. PICK i \in S : \A j \in S : ~ (<<j, i>> \in OpToRel(<, Nat))
  BY <1>1, WFMin, Zenon
<1>3. \A j \in S : ~ (j < i)
  BY <1>2 DEF OpToRel
<1> QED
  BY <1>3, SMT

\* First is the loop it stands for: the flag at the least position whose flag is
\* set, and NoFlag if there is none.
LEMMA FirstIsFirst ==
    ASSUME NEW order, NEW n \in Nat, DOMAIN order = 1..n, NEW m
    PROVE  \/ First(order, m) = NoFlag /\ \A i \in 1..n : order[i] \notin m
           \/ \E i \in 1..n : /\ First(order, m) = order[i] /\ order[i] \in m
                              /\ \A j \in 1..n : order[j] \in m => i <= j
<1> DEFINE S == {i \in 1..n : order[i] \in m}
<1>1. CASE S = {}
  BY <1>1 DEF First
<1>2. CASE S # {}
  <2>1. \E i \in S : \A j \in S : i <= j
    <3>1. S \in SUBSET Nat
      OBVIOUS
    <3> HIDE DEF S
    <3> QED
      BY <1>2, <3>1, LeastPosition, Zenon
  <2> DEFINE Least(i) == /\ order[i] \in m
                         /\ \A j \in DOMAIN order : order[j] \in m => i <= j
             k == CHOOSE i \in DOMAIN order : Least(i)
  <2>2. \E i \in DOMAIN order : Least(i)
    BY <2>1
  <2>3. k \in DOMAIN order /\ Least(k)
    BY <2>2, Zenon
  <2>4. First(order, m) = order[k]
    BY <2>3, Zenon DEF First
  <2> HIDE DEF k
  <2> QED
    BY <2>3, <2>4
<1> QED
  BY <1>1, <1>2

-----------------------------------------------------------------------------
\* What the tables hold.
LEMMA WaterOffTable ==
    WaterOffFlags =
       { "FLOW_TIME_EXCEEDED", "SENSOR_LEAK", "EXTERNAL_LEAK",
         "EXTERNAL_EMERGENCY_SHUTDOWN", "LOW_TEMP_SHUTOFF",
         "HUMIDITY_SENSOR_SHUTOFF", "LOW_TEMP_SENSOR_SHUTOFF", "SHUTOFF" }
<1>1. DOMAIN WaterOffOrder = 1..8
  BY DEF WaterOffOrder
<1>2. WaterOffFlags = {WaterOffOrder[i] : i \in 1..8}
  BY <1>1 DEF WaterOffFlags
<1> QED
  BY <1>2 DEF WaterOffOrder

LEMMA StatusTable ==
    /\ DOMAIN StatusPriority = 1..28
    /\ \A i \in 1..28 : StatusPriority[i] \in KnownFlags
    /\ \A f \in KnownFlags : \E i \in 1..28 : StatusPriority[i] = f
    /\ \A i \in 1..8 : StatusPriority[i] \in WaterOffFlags
    /\ \A i \in 9..28 : StatusPriority[i] \notin WaterOffFlags
    /\ \A f \in WaterOffFlags : \E i \in 1..8 : StatusPriority[i] = f
    /\ NoFlag \notin KnownFlags /\ WaterOffFlags \subseteq KnownFlags
<1>1. DOMAIN StatusPriority = 1..28
  BY DEF StatusPriority
<1>2. \A i \in 1..28 : StatusPriority[i] \in KnownFlags
  BY DEF StatusPriority, KnownFlags
<1>3. \A f \in KnownFlags : \E i \in 1..28 : StatusPriority[i] = f
  BY DEF StatusPriority, KnownFlags
<1>4. \A i \in 1..8 : StatusPriority[i] \in WaterOffFlags
  BY WaterOffTable DEF StatusPriority
<1>5. \A i \in 9..28 : StatusPriority[i] \notin WaterOffFlags
  BY WaterOffTable DEF StatusPriority
<1>6. \A f \in WaterOffFlags : \E i \in 1..8 : StatusPriority[i] = f
  BY WaterOffTable DEF StatusPriority
<1>7. NoFlag \notin KnownFlags /\ WaterOffFlags \subseteq KnownFlags
  BY WaterOffTable DEF NoFlag, KnownFlags
<1> QED
  BY <1>1, <1>2, <1>3, <1>4, <1>5, <1>6, <1>7

LEMMA ProblemTable ==
    /\ DOMAIN ProblemPriority = 1..9
    /\ \A i \in 1..9 : ProblemPriority[i] \in WarningFlags \cup CriticalFlags
    /\ \A f \in WarningFlags \cup CriticalFlags : \E i \in 1..9 : ProblemPriority[i] = f
    /\ \A i \in 1..4 : ProblemPriority[i] \in CriticalFlags
    /\ \A i \in 5..9 : ProblemPriority[i] \notin CriticalFlags
    /\ NoFlag \notin WarningFlags \cup CriticalFlags
  BY DEF ProblemPriority, WarningFlags, CriticalFlags, NoFlag

LEMMA ReasonTable ==
    /\ DOMAIN ShutoffReasonPriority = 1..7
    /\ \A i \in 1..7 : ShutoffReasonPriority[i] \in WaterOffFlags \ {"SHUTOFF"}
    /\ \A f \in WaterOffFlags \ {"SHUTOFF"} : \E i \in 1..7 : ShutoffReasonPriority[i] = f
    /\ \A f \in WaterOffFlags \ {"SHUTOFF"} : ReasonFromFlag(f) \notin {NoFlag, "MANUAL"}
    /\ NoFlag \notin WaterOffFlags
    /\ NoFlag # "MANUAL" /\ NoFlag # "UNRECOGNIZED"
<1>1. DOMAIN ShutoffReasonPriority = 1..7
  BY DEF ShutoffReasonPriority
<1>2. \A i \in 1..7 : ShutoffReasonPriority[i] \in WaterOffFlags \ {"SHUTOFF"}
  BY WaterOffTable DEF ShutoffReasonPriority
<1>3. \A f \in WaterOffFlags \ {"SHUTOFF"} : \E i \in 1..7 : ShutoffReasonPriority[i] = f
  BY WaterOffTable DEF ShutoffReasonPriority
<1>4. ASSUME NEW f \in WaterOffFlags \ {"SHUTOFF"}
      PROVE  ReasonFromFlag(f) \notin {NoFlag, "MANUAL"}
  <2>1. f \in DOMAIN ShutoffReasonFlags
    BY WaterOffTable DEF ShutoffReasonFlags
  <2>2. ShutoffReasonFlags[f] \notin {NoFlag, "MANUAL"}
    BY WaterOffTable DEF ShutoffReasonFlags, NoFlag
  <2> QED
    BY <2>1, <2>2 DEF ReasonFromFlag
<1>5. NoFlag \notin WaterOffFlags /\ NoFlag # "MANUAL" /\ NoFlag # "UNRECOGNIZED"
  BY WaterOffTable DEF NoFlag
<1> QED
  BY <1>1, <1>2, <1>3, <1>4, <1>5

LEMMA ChosenTable ==
    LET order == <<"BYPASS", "AWAY", "HOME", "DISABLED">>
    IN  /\ DOMAIN order = 1..4
        /\ \A i \in 1..4 : order[i] \in {"BYPASS", "AWAY", "HOME", "DISABLED"}
        /\ \A f \in {"BYPASS", "AWAY", "HOME", "DISABLED"} : \E i \in 1..4 : order[i] = f
  OBVIOUS

-----------------------------------------------------------------------------
\* A word has no other bits than those of Bits.
IsWord == word \in Words

LEMMA WordsOnly == ModeSpec => []IsWord
<1>1. ModeInit => IsWord
  BY DEF ModeInit, IsWord, Words
<1>2. IsWord /\ [ModeNext]_word => IsWord'
  BY DEF ModeNext, Raise, Clear, IsWord, Words
<1> QED
  BY <1>1, <1>2, PTL DEF ModeSpec

-----------------------------------------------------------------------------
\* A word read as a settable mode confirms that mode, and no word confirms both
\* an open and a closed valve (mode_reflects against ControlMode.from_flag).
THEOREM ConfirmationsAgree == ModeSpec => []ConfirmationMatchesReading
<1> DEFINE order == <<"BYPASS", "AWAY", "HOME", "DISABLED">>
           chosen == First(order, word)
<1>1. \/ chosen = NoFlag
      \/ chosen \in word /\ chosen \in {"BYPASS", "AWAY", "HOME", "DISABLED"}
  <2>1. 4 \in Nat /\ DOMAIN order = 1..4 /\ \A i \in 1..4 : order[i] \in {"BYPASS", "AWAY", "HOME", "DISABLED"}
    BY ChosenTable
  <2> HIDE DEF order
  <2>2. \/ chosen = NoFlag
        \/ \E i \in 1..4 : chosen = order[i] /\ order[i] \in word
    BY <2>1, FirstIsFirst, Zenon
  <2> QED
    BY <2>1, <2>2, Zenon
<1>2. /\ IsWaterOff(word) => FromFlag(word) = "SHUTOFF"
      /\ ~IsWaterOff(word) /\ chosen # NoFlag => FromFlag(word) = chosen
      /\ ~IsWaterOff(word) /\ chosen = NoFlag => FromFlag(word) = NoMode
  BY DEF FromFlag
<1> HIDE DEF chosen
<1>3. ConfirmationMatchesReading
  BY <1>1, <1>2 DEF ConfirmationMatchesReading, ModeReflects, SettableModes, NoFlag, NoMode
<1> QED
  BY <1>3, PTL

\* A closed valve's headline is a reason it is closed, and only a word without a
\* named bit has none (Valve.status against is_water_off).
THEOREM HeadlinesTellClosed == ModeSpec => []ClosedMakesTheHeadline
<1>1. IsWord => ClosedMakesTheHeadline
  <2> SUFFICES ASSUME IsWord PROVE ClosedMakesTheHeadline
    OBVIOUS
  <2>1. \/ Status(word) = NoFlag /\ \A i \in 1..28 : StatusPriority[i] \notin word
        \/ \E i \in 1..28 : /\ Status(word) = StatusPriority[i] /\ StatusPriority[i] \in word
                             /\ \A j \in 1..28 : StatusPriority[j] \in word => i <= j
    <3>1. 28 \in Nat /\ DOMAIN StatusPriority = 1..28
      BY StatusTable
    <3> QED
      BY <3>1, FirstIsFirst, Zenon DEF Status
  <2>2. IsWaterOff(word) <=> Status(word) \in WaterOffFlags
    BY <2>1, StatusTable DEF IsWaterOff
  <2>3. Status(word) = NoFlag <=> word \subseteq {UnknownBit}
    <3>1. UnknownBit \notin KnownFlags
      BY DEF UnknownBit, KnownFlags
    <3> QED
      BY <2>1, <3>1, StatusTable DEF IsWord, Words, Bits
  <2> QED
    BY <2>2, <2>3 DEF ClosedMakesTheHeadline
<1> QED
  BY <1>1, WordsOnly, PTL

\* Every closed valve has a reason and no open one has, and the reason is a person
\* only if no other bit could be it (Valve.shutoff_reason).
THEOREM ManualIsNeverAGuess == ModeSpec => []ManualMeansAPerson
<1> DEFINE automatic == AutomaticShutoffFlags(word)
           why == First(ShutoffReasonPriority, automatic)
<1>1. automatic # {} => why \in WaterOffFlags \ {"SHUTOFF"}
  <2>1. 7 \in Nat /\ DOMAIN ShutoffReasonPriority = 1..7
    BY ReasonTable
  <2>2. \/ why = NoFlag /\ \A i \in 1..7 : ShutoffReasonPriority[i] \notin automatic
        \/ \E i \in 1..7 : why = ShutoffReasonPriority[i] /\ ShutoffReasonPriority[i] \in automatic
    BY <2>1, FirstIsFirst, Zenon
  <2>3. \A f \in automatic : f \in WaterOffFlags \ {"SHUTOFF"}
    BY DEF AutomaticShutoffFlags
  <2> HIDE DEF why, automatic
  <2> QED
    BY <2>2, <2>3, ReasonTable
<1>2. automatic # {} => AutomaticReason(automatic) \notin {NoFlag, "MANUAL"}
  <2>1. automatic # {} => AutomaticReason(automatic) = ReasonFromFlag(why)
    BY <1>1, ReasonTable DEF AutomaticReason
  <2> HIDE DEF why, automatic
  <2> QED
    BY <1>1, <2>1, ReasonTable
<1>3. /\ IsWaterOff(word) <=> automatic # {} \/ "SHUTOFF" \in word
      /\ automatic = {} => word \cap WaterOffFlags \subseteq {"SHUTOFF"}
  BY WaterOffTable DEF IsWaterOff, AutomaticShutoffFlags
<1>4. /\ automatic # {} => ShutoffReason(word) = AutomaticReason(automatic)
      /\ automatic = {} /\ "SHUTOFF" \notin word => ShutoffReason(word) = NoFlag
      /\ automatic = {} /\ "SHUTOFF" \in word =>
            ShutoffReason(word) = IF UnknownBit \in word THEN "UNRECOGNIZED" ELSE "MANUAL"
  BY DEF ShutoffReason
<1>5. "SHUTOFF" \in WaterOffFlags
  BY WaterOffTable
<1> HIDE DEF automatic
<1>6. ManualMeansAPerson
  BY <1>2, <1>3, <1>4, <1>5, ReasonTable DEF ManualMeansAPerson
<1> QED
  BY <1>6, PTL

\* Every fault and warning is reported as a problem, and no warning hides a fault
\* (Valve.problem against WARNING_FLAGS and CRITICAL_FLAGS).
THEOREM ProblemsAreReported == ModeSpec => []WorstProblemFirst
<1>1. \/ Problem(word) = NoFlag /\ \A i \in 1..9 : ProblemPriority[i] \notin word
      \/ \E i \in 1..9 : /\ Problem(word) = ProblemPriority[i] /\ ProblemPriority[i] \in word
                          /\ \A j \in 1..9 : ProblemPriority[j] \in word => i <= j
  <2>1. 9 \in Nat /\ DOMAIN ProblemPriority = 1..9
    BY ProblemTable
  <2> QED
    BY <2>1, FirstIsFirst, Zenon DEF Problem
<1>2. \A f \in CriticalFlags : \E i \in 1..4 : ProblemPriority[i] = f
  BY DEF ProblemPriority, CriticalFlags
<1>3. WorstProblemFirst
  BY <1>1, <1>2, ProblemTable DEF WorstProblemFirst
<1> QED
  BY <1>3, PTL
=============================================================================
