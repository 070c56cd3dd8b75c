------------------------------ MODULE ValveModes ------------------------------
(***************************************************************************)
(* How a valve's Mode word is read: the flag tables of enums.py and the    *)
(* questions models.py and client.py ask of a word.  A word is the set of  *)
(* its bits, each named as in ValveMode; every bit without a name there    *)
(* (boundary=KEEP lets them through) is the one element UnknownBit.        *)
(***************************************************************************)
EXTENDS Naturals, Sequences

UnknownBit == "unknown bit"
NoFlag == "none"
NoMode == "no mode"

ShutoffReasonPriority ==
    << "SENSOR_LEAK", "EXTERNAL_LEAK", "FLOW_TIME_EXCEEDED",
       "EXTERNAL_EMERGENCY_SHUTDOWN", "LOW_TEMP_SHUTOFF",
       "LOW_TEMP_SENSOR_SHUTOFF", "HUMIDITY_SENSOR_SHUTOFF" >>

\* The reason a flag stands for, as ShutoffReason names it.
ShutoffReasonFlags ==
    [ SENSOR_LEAK                 |-> "SENSOR_LEAK",
      EXTERNAL_LEAK               |-> "EXTERNAL_LEAK",
      FLOW_TIME_EXCEEDED          |-> "FLOW_TIME_EXCEEDED",
      EXTERNAL_EMERGENCY_SHUTDOWN |-> "EMERGENCY_SHUTDOWN",
      LOW_TEMP_SHUTOFF            |-> "LOW_TEMPERATURE",
      LOW_TEMP_SENSOR_SHUTOFF     |-> "LOW_TEMPERATURE_SENSOR",
      HUMIDITY_SENSOR_SHUTOFF     |-> "HUMIDITY_SENSOR" ]

\* WATER_OFF_FLAGS, in order and as a set
WaterOffOrder ==
    << "FLOW_TIME_EXCEEDED", "SENSOR_LEAK", "EXTERNAL_LEAK",
       "EXTERNAL_EMERGENCY_SHUTDOWN", "LOW_TEMP_SHUTOFF",
       "HUMIDITY_SENSOR_SHUTOFF", "LOW_TEMP_SENSOR_SHUTOFF", "SHUTOFF" >>

WaterOffFlags == {WaterOffOrder[i] : i \in DOMAIN WaterOffOrder}

WarningFlags ==
    {"LOW_TEMP_ALERT", "CHANGE_BATTERY", "AC_LOST", "COMMUNICATION_ERROR", "UPDATING"}

CriticalFlags == {"ERROR", "SYSTEM_DOWN", "VALVE_FAILURE", "UNKNOWN_FAULT"}

\* Mutant of StatusPriority: an override outranks the reasons for a closed valve.
OverrideFirst ==
    << "EXTERNAL_OVERRIDE", "OVERRIDE",
       "FLOW_TIME_EXCEEDED", "SENSOR_LEAK", "EXTERNAL_LEAK",
       "EXTERNAL_EMERGENCY_SHUTDOWN", "LOW_TEMP_SHUTOFF",
       "HUMIDITY_SENSOR_SHUTOFF", "LOW_TEMP_SENSOR_SHUTOFF", "SHUTOFF",
       "DELAY_AWAY", "AUTO_AWAY", "EXTERNAL_AWAY", "AWAY",
       "EXTERNAL_BYPASS", "BYPASS", "EXTERNAL_HOME", "HOME", "DISABLED",
       "LOW_TEMP_ALERT", "AC_LOST", "CHANGE_BATTERY", "UPDATING",
       "COMMUNICATION_ERROR", "VALVE_FAILURE", "SYSTEM_DOWN", "ERROR",
       "UNKNOWN_FAULT" >>

StatusPriority ==
    << "FLOW_TIME_EXCEEDED", "SENSOR_LEAK", "EXTERNAL_LEAK",
       "EXTERNAL_EMERGENCY_SHUTDOWN", "LOW_TEMP_SHUTOFF",
       "HUMIDITY_SENSOR_SHUTOFF", "LOW_TEMP_SENSOR_SHUTOFF", "SHUTOFF",
       "EXTERNAL_OVERRIDE", "OVERRIDE",
       "DELAY_AWAY", "AUTO_AWAY", "EXTERNAL_AWAY", "AWAY",
       "EXTERNAL_BYPASS", "BYPASS", "EXTERNAL_HOME", "HOME", "DISABLED",
       "LOW_TEMP_ALERT", "AC_LOST", "CHANGE_BATTERY", "UPDATING",
       "COMMUNICATION_ERROR", "VALVE_FAILURE", "SYSTEM_DOWN", "ERROR",
       "UNKNOWN_FAULT" >>

\* Mutant of ProblemPriority: a countdown to burst pipes comes first.
ColdFirst ==
    << "LOW_TEMP_ALERT", "VALVE_FAILURE", "ERROR", "SYSTEM_DOWN", "UNKNOWN_FAULT",
       "COMMUNICATION_ERROR", "AC_LOST", "CHANGE_BATTERY", "UPDATING" >>

ProblemPriority ==
    << "VALVE_FAILURE", "ERROR", "SYSTEM_DOWN", "UNKNOWN_FAULT",
       "COMMUNICATION_ERROR", "LOW_TEMP_ALERT", "AC_LOST", "CHANGE_BATTERY",
       "UPDATING" >>

\* The named bits of ValveMode.
KnownFlags ==
    { "HOME", "AWAY", "BYPASS", "SHUTOFF", "DISABLED", "FLOW_TIME_EXCEEDED",
      "EXTERNAL_LEAK", "AUTO_AWAY", "EXTERNAL_BYPASS", "DELAY_AWAY",
      "EXTERNAL_AWAY", "OVERRIDE", "AC_LOST", "CHANGE_BATTERY", "ERROR",
      "SENSOR_LEAK", "SYSTEM_DOWN", "VALVE_FAILURE", "COMMUNICATION_ERROR",
      "EXTERNAL_HOME", "EXTERNAL_EMERGENCY_SHUTDOWN", "UPDATING",
      "EXTERNAL_OVERRIDE", "LOW_TEMP_ALERT", "LOW_TEMP_SHUTOFF",
      "HUMIDITY_SENSOR_SHUTOFF", "LOW_TEMP_SENSOR_SHUTOFF", "UNKNOWN_FAULT" }

Bits == KnownFlags \cup {UnknownBit}
Words == SUBSET Bits

\* SETTABLE_MODES, each named by the flag it sets; DISABLED is only readable.
SettableModes == {"HOME", "AWAY", "BYPASS", "SHUTOFF"}

-----------------------------------------------------------------------------
\* "for flag in order: if mode & flag: return flag".
First(order, m) ==
    IF \E i \in DOMAIN order : order[i] \in m
    THEN order[CHOOSE i \in DOMAIN order :
                  /\ order[i] \in m
                  /\ \A j \in DOMAIN order : order[j] \in m => i <= j]
    ELSE NoFlag

\* Valve.is_water_off and Valve.automatic_shutoff_flags
IsWaterOff(m) == m \cap WaterOffFlags # {}
AutomaticShutoffFlags(m) == (m \cap WaterOffFlags) \ {"SHUTOFF"}

\* Mutant of FromFlag: the mode a person chose comes before the closed valve.
ChosenModeFirst(m) ==
    LET chosen == First(<<"BYPASS", "AWAY", "HOME", "DISABLED">>, m)
    IN  IF chosen # NoFlag THEN chosen ELSE IF IsWaterOff(m) THEN "SHUTOFF" ELSE NoMode

\* ControlMode.from_flag, the mode the valve is in or NoMode if unclear
FromFlag(m) ==
    LET chosen == First(<<"BYPASS", "AWAY", "HOME", "DISABLED">>, m)
    IN  IF IsWaterOff(m) THEN "SHUTOFF" ELSE IF chosen # NoFlag THEN chosen ELSE NoMode

\* Mutant of ModeReflects: the flag alone confirms.
FlagConfirms(m, mode) == mode \in m

\* mode_reflects: does the word show that the valve took up a settable mode
ModeReflects(m, mode) ==
    IF mode = "SHUTOFF" THEN IsWaterOff(m)
    ELSE /\ ~IsWaterOff(m)
         /\ mode \in m \/ (mode = "AWAY" /\ "DELAY_AWAY" \in m)

\* Valve.status: one headline name
Status(m) == First(StatusPriority, m)

\* Valve.problem: the worst condition that is not closing the valve
Problem(m) == First(ProblemPriority, m)

\* ShutoffReason.from_flag
ReasonFromFlag(flag) ==
    IF flag \in DOMAIN ShutoffReasonFlags THEN ShutoffReasonFlags[flag] ELSE NoFlag

\* The reason of a valve that closed itself: of the first flag in the order of
\* priority, or else of the first flag there is.
AutomaticReason(automatic) ==
    LET worst == First(ShutoffReasonPriority, automatic)
    IN  ReasonFromFlag(IF worst # NoFlag THEN worst ELSE First(WaterOffOrder, automatic))

\* Mutant of ShutoffReason: bits without a name are no reason.
ManualIfUnexplained(m) ==
    IF AutomaticShutoffFlags(m) # {} THEN AutomaticReason(AutomaticShutoffFlags(m))
    ELSE IF "SHUTOFF" \in m THEN "MANUAL" ELSE NoFlag

\* Valve.shutoff_reason
ShutoffReason(m) ==
    IF AutomaticShutoffFlags(m) # {} THEN AutomaticReason(AutomaticShutoffFlags(m))
    ELSE IF "SHUTOFF" \in m
    THEN IF UnknownBit \in m THEN "UNRECOGNIZED" ELSE "MANUAL"
    ELSE NoFlag
=============================================================================
