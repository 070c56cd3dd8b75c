------------------------------- MODULE ModeWords -------------------------------
(***************************************************************************)
(* The Mode word of one valve as FloLogic may report it: bits come and go  *)
(* one at a time, in any combination, so every word with at most MaxBits   *)
(* bits is reached.  The invariants say how the readings that ValveModes   *)
(* takes of one word fit together.                                         *)
(***************************************************************************)
EXTENDS ValveModes, FiniteSets

CONSTANT MaxBits    \* bound of the model: bits set at the same time

ASSUME BitsAssumption == MaxBits \in Nat

VARIABLE word

ModeInit == word = {}

Raise(bit) == bit \notin word /\ Cardinality(word) < MaxBits /\ word' = word \cup {bit}

Clear(bit) == bit \in word /\ word' = word \ {bit}

ModeNext == \E bit \in Bits : Raise(bit) \/ Clear(bit)

ModeSpec == ModeInit /\ [][ModeNext]_word
-----------------------------------------------------------------------------
\* What confirms a command agrees with what the same word is read as, as far as the
\* water goes: a valve read to be in a settable mode confirms that mode, and no word
\* confirms both that the water is off and that it is on.  Of two open modes a word
\* may confirm one and read as the other: HOME with BYPASS does.
ConfirmationMatchesReading ==
    \A mode \in SettableModes :
        /\ FromFlag(word) = mode => ModeReflects(word, mode)
        /\ ModeReflects(word, mode) => (mode = "SHUTOFF" <=> FromFlag(word) = "SHUTOFF")

\* A closed valve never reads as anything else, whatever other bits are set:
\* its headline is a reason it is closed (enums.py:248, "most- to
\* least-newsworthy").
ClosedMakesTheHeadline ==
    /\ IsWaterOff(word) <=> Status(word) \in WaterOffFlags
    /\ Status(word) = NoFlag <=> word \subseteq {UnknownBit}

\* "MANUAL means a person or an integration closed it": no bit of the word, with
\* a name or without, could be a cause; and every closed valve, and no open one,
\* has a reason.
ManualMeansAPerson ==
    /\ ShutoffReason(word) # NoFlag <=> IsWaterOff(word)
    /\ ShutoffReason(word) = "MANUAL" => word \cap (WaterOffFlags \cup {UnknownBit}) = {"SHUTOFF"}

\* "Conditions that need attention without closing the valve, worst first": a
\* fault or warning never goes unnoticed, and a warning never hides a fault.
WorstProblemFirst ==
    /\ Problem(word) # NoFlag <=> word \cap (WarningFlags \cup CriticalFlags) # {}
    /\ word \cap CriticalFlags # {} => Problem(word) \in CriticalFlags
=============================================================================
