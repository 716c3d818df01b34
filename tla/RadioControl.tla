---------------------------- MODULE RadioControl ----------------------------
(***************************************************************************)
(* The radio parameters of SystemData and the commands on them that the    *)
(* main thread of the server runs one after the other: SET with its        *)
(* validation, GET, and ALARM.  No other thread touches this state.        *)
(*                                                                         *)
(* Megahertz and dBm are counted in ten-thousandths, temperature in        *)
(* degrees.                                                                *)
(***************************************************************************)
EXTENDS Text, FiniteSets

CONSTANTS
    TempDraws,      \* results of the uniform_real_distributions of
    PowerDraws,     \*   updateSimulation
    InputDraws

ASSUME RadioAssumption ==
    /\ TempDraws \subseteq -50..120
    /\ PowerDraws \subseteq (-5 * Unit)..(15 * Unit)
    /\ InputDraws \subseteq (-35 * Unit)..(5 * Unit)

Parameters == {"nominal_output_power", "frequency", "automatic_modulation",
               "modulation"}

VARIABLES
    nominal_output_power,
    frequency,
    automatic_modulation,
    modulation,
    temp,
    real_output_power,
    input_power,
    asked,              \* the last command: its action and parameter, and the
                        \*   value when it was accepted
    reply,              \* what it was answered
    messages,           \* what the alarm callback printed for it
    confirmed           \* history: the settings a client knows of, from the
                        \*   start and from the SETs that were answered SUCCESS

settings   == <<nominal_output_power, frequency, automatic_modulation, modulation>>
simulation == <<temp, real_output_power, input_power>>
answer     == <<asked, reply, messages>>
radioVars  == <<settings, simulation, answer, confirmed>>

\* System::updateSimulation
updateSimulation ==
    /\ temp' \in TempDraws
    /\ real_output_power' \in PowerDraws
    /\ input_power' \in InputDraws

Asked(action, parameter) ==
    [action |-> action, parameter |-> parameter, value |-> <<>>]

\* A reply is a word, or a number.
Word(w)   == [word |-> w, number |-> 0]
Number(n) == [word |-> "number", number |-> n]

\* The modulation is drawn by SystemData's constructor, the readings by the
\* constructors of the System objects of the server.
RadioInit ==
    /\ nominal_output_power = 0
    /\ frequency = 25 * Unit
    /\ automatic_modulation = TRUE
    /\ modulation \in BOOLEAN
    /\ temp \in TempDraws
    /\ real_output_power \in PowerDraws
    /\ input_power \in InputDraws
    /\ asked = Asked("none", "none")
    /\ reply = Word("none")
    /\ messages = {}
    /\ confirmed = [nominal_output_power |-> 0, frequency |-> 25 * Unit,
                    automatic_modulation |-> TRUE, modulation |-> modulation]

-----------------------------------------------------------------------------
(* SET                                                                      *)

\* Mutant: the upper bound is not tested.
ValidPower_NoUpperBound(text) == isValidNumber(text) /\ stod[text] >= 0

ValidPower(text) == isValidNumber(text) /\ stod[text] \in 0..(10 * Unit)

\* Mutant: && for || in the test of the range.
ValidFrequency_EitherBound(text) ==
    /\ isValidNumber(text)
    /\ stod[text] >= 25 * Unit \/ stod[text] <= 26 * Unit
    /\ (stod[text] \div 10) % 100 = 0

\* static_cast<int>(freq * 1000) % 100: kilohertz, cut off.
ValidFrequency(text) ==
    /\ isValidNumber(text)
    /\ stod[text] \in (25 * Unit)..(26 * Unit)
    /\ (stod[text] \div 10) % 100 = 0

\* Mutant: the mode is not looked at.
ValidModulation_AnyMode(text) == isValidBoolean(text)

ValidModulation(text) == ~automatic_modulation /\ isValidBoolean(text)

Failed(action) ==
    /\ asked' = Asked(action, "none")
    /\ reply' = Word("ERROR")
    /\ messages' = {}
    /\ UNCHANGED <<settings, simulation, confirmed>>

Succeeded(parameter, text, value) ==
    /\ asked' = [action |-> "SET", parameter |-> parameter, value |-> text]
    /\ reply' = Word("SUCCESS")
    /\ messages' = {}
    /\ confirmed' = [confirmed EXCEPT ![parameter] = value]
    /\ updateSimulation

setNominalPower(text) ==
    /\ ValidPower(text)
    /\ nominal_output_power' = stod[text]
    /\ Succeeded("nominal_output_power", text, stod[text])
    /\ UNCHANGED <<frequency, automatic_modulation, modulation>>

setFrequency(text) ==
    /\ ValidFrequency(text)
    /\ frequency' = stod[text]
    /\ Succeeded("frequency", text, stod[text])
    /\ UNCHANGED <<nominal_output_power, automatic_modulation, modulation>>

setAutomaticModulation(text) ==
    /\ isValidBoolean(text)
    /\ automatic_modulation' = Truth(text)
    /\ Succeeded("automatic_modulation", text, Truth(text))
    /\ UNCHANGED <<nominal_output_power, frequency, modulation>>

setModulation(text) ==
    /\ ValidModulation(text)
    /\ modulation' = Truth(text)
    /\ Succeeded("modulation", text, Truth(text))
    /\ UNCHANGED <<nominal_output_power, frequency, automatic_modulation>>

Accepts(parameter, text) ==
    \/ parameter = "nominal_output_power" /\ ValidPower(text)
    \/ parameter = "frequency" /\ ValidFrequency(text)
    \/ parameter = "automatic_modulation" /\ isValidBoolean(text)
    \/ parameter = "modulation" /\ ValidModulation(text)

executeSET(parameter, text) ==
    \/ parameter = "nominal_output_power" /\ setNominalPower(text)
    \/ parameter = "frequency" /\ setFrequency(text)
    \/ parameter = "automatic_modulation" /\ setAutomaticModulation(text)
    \/ parameter = "modulation" /\ setModulation(text)
    \/ ~Accepts(parameter, text) /\ Failed("SET")

-----------------------------------------------------------------------------
(* GET                                                                      *)

OnOff(flag) == Word(IF flag THEN "on" ELSE "off")

Shown(parameter) ==
    CASE parameter = "nominal_output_power" -> Number(nominal_output_power)
      [] parameter = "frequency" -> Number(frequency)
      [] parameter = "automatic_modulation" -> OnOff(automatic_modulation)
      [] parameter = "modulation" ->
            IF automatic_modulation THEN Word("auto") ELSE OnOff(modulation)
      [] parameter = "temp" -> Number(temp)
      [] parameter = "real_output_power" -> Number(real_output_power)
      [] parameter = "input_power" -> Number(input_power)

Readable == Parameters \cup {"temp", "real_output_power", "input_power"}

executeGET(parameter) ==
    \/ /\ parameter \in Readable
       /\ asked' = Asked("GET", parameter)
       /\ reply' = Shown(parameter)
       /\ messages' = {}
       /\ UNCHANGED <<settings, simulation, confirmed>>
    \/ /\ parameter \notin Readable
       /\ Failed("GET")

-----------------------------------------------------------------------------
(* ALARM: the messages that checkAllAlarms hands to the callback.           *)

Message(level, about) == [level |-> level, about |-> about]

\* Mutant: < 110 for <= 110.
checkTemperatureAlarms_Gap(t) ==
    {Message(level, "temperature") : level \in
        (IF t > 80 /\ t <= 100 THEN {"Warning"}
         ELSE IF t > 100 /\ t < 110 THEN {"Error"}
         ELSE IF t > 110 THEN {"Critical"} ELSE {})
        \cup
        (IF t < -20 /\ t >= -30 THEN {"Warning"}
         ELSE IF t < -30 /\ t >= -40 THEN {"Error"}
         ELSE IF t < -40 THEN {"Critical"} ELSE {})}

checkTemperatureAlarms(t) ==
    {Message(level, "temperature") : level \in
        (IF t > 80 /\ t <= 100 THEN {"Warning"}
         ELSE IF t > 100 /\ t <= 110 THEN {"Error"}
         ELSE IF t > 110 THEN {"Critical"} ELSE {})
        \cup
        (IF t < -20 /\ t >= -30 THEN {"Warning"}
         ELSE IF t < -30 /\ t >= -40 THEN {"Error"}
         ELSE IF t < -40 THEN {"Critical"} ELSE {})}

Distance(a, b) == IF a >= b THEN a - b ELSE b - a

checkOutputPowerAlarms(real, nominal) ==
    (IF Distance(real, nominal) > 2 * Unit
     THEN {Message("Warning", "output deviation")} ELSE {})
    \cup
    (IF real < -2 * Unit \/ real > 12 * Unit
     THEN {Message("Error", "output range")} ELSE {})

checkInputPowerAlarms(input) ==
    (IF input < -30 * Unit THEN {Message("Warning", "input")} ELSE {})
    \cup (IF input > 0 THEN {Message("Error", "input")} ELSE {})

executeALARM ==
    /\ updateSimulation
    /\ messages' = checkTemperatureAlarms(temp')
                   \cup checkOutputPowerAlarms(real_output_power',
                                               nominal_output_power)
                   \cup checkInputPowerAlarms(input_power')
    /\ asked' = Asked("ALARM", "none")
    /\ reply' = Word("SUCCESS")
    /\ UNCHANGED <<settings, confirmed>>

\* STATUS reads what GET reads.
executeSTATUS ==
    /\ asked' = Asked("STATUS", "none")
    /\ reply' = Word("SUCCESS")
    /\ messages' = {}
    /\ UNCHANGED <<settings, simulation, confirmed>>

-----------------------------------------------------------------------------
(* Properties *)

\* The types, and the ranges that SystemData documents for the parameters.
RadioTypeOK ==
    /\ nominal_output_power \in 0..(10 * Unit)
    /\ frequency \in (25 * Unit)..(26 * Unit)
    /\ automatic_modulation \in BOOLEAN
    /\ modulation \in BOOLEAN
    /\ temp \in -50..120
    /\ real_output_power \in (-5 * Unit)..(15 * Unit)
    /\ input_power \in (-35 * Unit)..(5 * Unit)

\* Output power outside the safe range never comes without the deviation
\* warning: the two tests of checkOutputPowerAlarms are independent, and agree
\* because SET keeps the nominal power within 0 to 10 dBm.
RangeErrorImpliesDeviation ==
    Message("Error", "output range") \in messages =>
        Message("Warning", "output deviation") \in messages

\* The chains of comparisons of checkTemperatureAlarms leave no gap and do not
\* overlap: the one message has the level of the number of limits passed.
LevelOf(n) == CASE n = 1 -> "Warning" [] n = 2 -> "Error" [] OTHER -> "Critical"

TemperatureLevelExact ==
    asked.action = "ALARM" =>
        LET passed == {b \in {80, 100, 110} : temp > b}
                      \cup {b \in {-20, -30, -40} : temp < b}
        IN  {m \in messages : m.about = "temperature"} =
                IF passed = {} THEN {}
                ELSE {Message(LevelOf(Cardinality(passed)), "temperature")}

\* "When automatic modulation is enabled, manual modulation control is
\* blocked": no command changes the manual state in automatic mode, so that it
\* is what it was when the mode is switched back.
ManualStateKept == [][automatic_modulation => modulation' = modulation]_modulation

\* The frequency is a multiple of the tuning step of 0.1 MHz.
FrequencyOnStep == frequency % (Unit \div 10) = 0

=============================================================================
