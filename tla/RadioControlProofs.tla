------------------------- MODULE RadioControlProofs -------------------------
(***************************************************************************)
(* Theorems about CommandLine and RadioControl, for all lines and draws in *)
(* the domain of module Text.                                              *)
(***************************************************************************)
EXTENDS CommandLine, FiniteSetTheorems, TLAPS

\* The commands that set a radio parameter.
Setting(text) ==
    \/ setNominalPower(text) \/ setFrequency(text)
    \/ setAutomaticModulation(text) \/ setModulation(text)

\* The commands that leave the configuration alone.
Radio ==
    \/ \E text \in Values : Setting(text)
    \/ \E parameter : executeGET(parameter)
    \/ executeALARM
    \/ executeSTATUS
    \/ \E action \in {"SET", "GET", "none"} : Failed(action)

\* The commands of MONITOR.
Monitor ==
    \/ \E param, value : handleConfigSet(param, value)
    \/ \E state : handleService(state)
    \/ \E param : handleConfigGet(param)
    \/ \E action : Answered("MONITOR", action, Word("MONITOR")) /\ UNCHANGED config
    \/ Failed("MONITOR") /\ UNCHANGED config

\* The initial state is that of the radio and that of the configuration.
LEMMA InitRadio == Init => RadioInit
  BY DEF Init

\* A command is remembered by its action and its parameter.
LEMMA AskedFields ==
    ASSUME NEW action, NEW parameter
    PROVE  /\ Asked(action, parameter).action = action
           /\ Asked(action, parameter).parameter = parameter
  BY Zenon DEF Asked

\* What a line can come to, once it is taken apart.
LEMMA StepCases ==
    ASSUME [Next]_vars
    PROVE  \/ Radio /\ UNCHANGED config
           \/ Monitor
           \/ UNCHANGED vars
  <1>1. CASE UNCHANGED vars
    BY <1>1
  <1>2. ASSUME NEW line \in Lines, WordAt(line, 1) = "MONITOR", executeMONITOR(line)
        PROVE  Monitor
    BY <1>2, Zenon DEF executeMONITOR, Monitor
  <1>3. ASSUME NEW line \in Lines, RadioCommand(line)
        PROVE  Radio
    <2>1. StripBlank(line.rest) \in Values
      BY LineAssumption
    <2> QED
      BY <1>3, <2>1, Zenon DEF RadioCommand, executeSET, Setting, Radio
  <1> QED
    BY <1>1, <1>2, <1>3, Zenon DEF Next, processCommand

\* A command of MONITOR leaves the radio alone.
LEMMA MonitorLeavesRadio ==
    ASSUME Monitor
    PROVE  /\ UNCHANGED <<settings, simulation, confirmed>>
           /\ messages' = {}
           /\ asked'.action \in {"CONFIG_SET", "SERVICE", "CONFIG_GET", "MONITOR"}
  <1> DEFINE Left == /\ UNCHANGED <<settings, simulation, confirmed>>
                     /\ messages' = {}
  <1>1. ASSUME NEW action, NEW parameter, NEW answered,
               Answered(action, parameter, answered)
        PROVE  Left /\ asked'.action = action
    BY <1>1, AskedFields DEF Answered
  <1>2. ASSUME NEW action, Failed(action)
        PROVE  Left /\ asked'.action = action
    BY <1>2, AskedFields DEF Failed
  <1> HIDE DEF Left
  <1>3. ASSUME NEW param, NEW value, handleConfigSet(param, value)
        PROVE  Left /\ asked'.action = "CONFIG_SET"
    BY <1>1, <1>2, <1>3, Zenon DEF handleConfigSet
  <1>4. ASSUME NEW state, handleService(state)
        PROVE  Left /\ asked'.action = "SERVICE"
    BY <1>1, <1>2, <1>4, Zenon DEF handleService
  <1>5. ASSUME NEW param, handleConfigGet(param)
        PROVE  Left /\ asked'.action = "CONFIG_GET"
    BY <1>1, <1>2, <1>5, Zenon DEF handleConfigGet
  <1>6. Left /\ asked'.action \in {"CONFIG_SET", "SERVICE", "CONFIG_GET", "MONITOR"}
    BY <1>1, <1>2, <1>3, <1>4, <1>5, Zenon DEF Monitor
  <1> QED
    BY <1>6 DEF Left

\* The part of a step that every successful command shares keeps the readings
\* within the ranges of the distributions.
LEMMA DrawsInRange ==
    ASSUME updateSimulation
    PROVE  /\ temp' \in -50..120
           /\ real_output_power' \in (-5 * Unit)..(15 * Unit)
           /\ input_power' \in (-35 * Unit)..(5 * Unit)
  BY RadioAssumption DEF updateSimulation

\* A number that setNominalPower or setFrequency lets through is within the
\* range of its parameter.
LEMMA AcceptedInRange ==
    ASSUME NEW text
    PROVE  /\ ValidPower(text) => stod[text] \in 0..(10 * Unit)
           /\ ValidFrequency(text) => stod[text] \in (25 * Unit)..(26 * Unit)
  BY DEF ValidPower, ValidFrequency

\* The parameters and readings keep the ranges that SystemData documents.
LEMMA RadioTypeCorrect == Spec => []RadioTypeOK
  <1>1. ASSUME Init PROVE RadioTypeOK
    <2>1. automatic_modulation \in BOOLEAN /\ modulation \in BOOLEAN
      BY <1>1, Zenon DEF Init, RadioInit
    <2>2. /\ nominal_output_power \in 0..(10 * Unit)
          /\ frequency \in (25 * Unit)..(26 * Unit)
      BY <1>1, InitRadio DEF RadioInit, Unit
    <2>3. /\ temp \in -50..120
          /\ real_output_power \in (-5 * Unit)..(15 * Unit)
          /\ input_power \in (-35 * Unit)..(5 * Unit)
      BY <1>1, RadioAssumption DEF Init, RadioInit
    <2> QED
      BY <2>1, <2>2, <2>3 DEF RadioTypeOK
  <1>2. RadioTypeOK /\ [Next]_vars => RadioTypeOK'
    <2> SUFFICES ASSUME RadioTypeOK, [Next]_vars PROVE RadioTypeOK'
      OBVIOUS
    <2>1. ASSUME NEW text, setNominalPower(text) PROVE RadioTypeOK'
      BY <2>1, DrawsInRange, AcceptedInRange
         DEF setNominalPower, Succeeded, RadioTypeOK
    <2>2. ASSUME NEW text, setFrequency(text) PROVE RadioTypeOK'
      BY <2>2, DrawsInRange, AcceptedInRange
         DEF setFrequency, Succeeded, RadioTypeOK
    <2>3. ASSUME NEW text, setAutomaticModulation(text) PROVE RadioTypeOK'
      BY <2>3, DrawsInRange
         DEF setAutomaticModulation, Succeeded, Truth, RadioTypeOK
    <2>4. ASSUME NEW text, setModulation(text) PROVE RadioTypeOK'
      BY <2>4, DrawsInRange DEF setModulation, Succeeded, Truth, RadioTypeOK
    <2>5. CASE UNCHANGED <<settings, simulation>>
      BY <2>5 DEF settings, simulation, RadioTypeOK
    <2>6. CASE executeALARM
      BY <2>6, DrawsInRange DEF executeALARM, settings, RadioTypeOK
    <2> QED
      BY <2>1, <2>2, <2>3, <2>4, <2>5, <2>6, StepCases, MonitorLeavesRadio
         DEF Radio, Setting, executeGET, executeSTATUS, Failed, vars, radioVars
  <1> QED
    BY <1>1, <1>2, PTL DEF Spec

\* What MONITOR sets keeps its type, and the interval stays positive.
LEMMA ConfigTypeCorrect ==
    Spec => [](flags \in [Flags -> BOOLEAN] /\ polling_interval \in Nat \ {0})
  <1> DEFINE Typed == flags \in [Flags -> BOOLEAN] /\ polling_interval \in Nat \ {0}
  <1>1. Init => Typed
    BY DEF Init
  <1>2. Typed /\ [Next]_vars => Typed'
    <2> SUFFICES ASSUME Typed, [Next]_vars PROVE Typed'
      OBVIOUS
    <2>1. ASSUME NEW param, NEW value, SetFlag(param, value) PROVE Typed'
      BY <2>1 DEF SetFlag
    <2>2. ASSUME NEW param, NEW value, SetInterval(param, value) PROVE Typed'
      BY <2>2 DEF SetInterval, ValidInterval
    <2>3. CASE UNCHANGED config
      BY <2>3 DEF config
    <2> QED
      BY <2>1, <2>2, <2>3, StepCases
         DEF Monitor, handleConfigSet, handleService, handleConfigGet, vars
  <1> QED
    BY <1>1, <1>2, PTL DEF Spec

\* Parameters, readings and configuration keep their types and ranges.
THEOREM TypeCorrect == Spec => []TypeOK
  BY RadioTypeCorrect, ConfigTypeCorrect, PTL DEF TypeOK

\* While the nominal power is within 0 to 10 dBm, a power beyond the safe
\* range is more than 2 dB away from it.
LEMMA RangeImpliesDeviation ==
    ASSUME NEW nominal \in 0..(10 * Unit), NEW real \in Int,
           real < -2 * Unit \/ real > 12 * Unit
    PROVE  Distance(real, nominal) > 2 * Unit
  BY DEF Distance, Unit

\* Powers within their ranges are numbers.
LEMMA PowersAreNumbers ==
    /\ \A real \in (-5 * Unit)..(15 * Unit) : real \in Int
    /\ \A nominal \in 0..(10 * Unit) : nominal \in Int
  BY DEF Unit

\* Only the output power check prints about the output power.
LEMMA OutputMessages ==
    ASSUME NEW t, NEW input, NEW level,
           NEW about \in {"output range", "output deviation"}
    PROVE  Message(level, about) \notin
              checkTemperatureAlarms(t) \cup checkInputPowerAlarms(input)
  BY DEF Message, checkTemperatureAlarms, checkInputPowerAlarms

\* What the two messages of checkOutputPowerAlarms say about the powers.
LEMMA OutputPowerMessages ==
    ASSUME NEW real \in Int, NEW nominal \in Int
    PROVE  /\ Message("Error", "output range")
                \in checkOutputPowerAlarms(real, nominal)
              => real < -2 * Unit \/ real > 12 * Unit
           /\ Distance(real, nominal) > 2 * Unit
              => Message("Warning", "output deviation")
                    \in checkOutputPowerAlarms(real, nominal)
  BY DEF Message, checkOutputPowerAlarms

\* Output power outside the safe range never comes without the deviation
\* warning: an invariant because SET keeps the nominal power in its range.
THEOREM RangeErrorCorrect == Spec => []RangeErrorImpliesDeviation
  <1>1. Init => RangeErrorImpliesDeviation
    BY DEF Init, RadioInit, RangeErrorImpliesDeviation
  <1>2. RadioTypeOK /\ RadioTypeOK' /\ RangeErrorImpliesDeviation /\ [Next]_vars
        => RangeErrorImpliesDeviation'
    <2> SUFFICES ASSUME RadioTypeOK, RadioTypeOK', RangeErrorImpliesDeviation,
                        [Next]_vars
                 PROVE  RangeErrorImpliesDeviation'
      OBVIOUS
    <2>1. CASE messages' = {} \/ messages' = messages
      BY <2>1 DEF RangeErrorImpliesDeviation
    <2>2. CASE executeALARM
      <3> DEFINE real    == real_output_power'
                 nominal == nominal_output_power
      <3>1. real \in Int /\ nominal \in 0..(10 * Unit) /\ nominal \in Int
        <4>1. /\ real \in (-5 * Unit)..(15 * Unit)
              /\ nominal \in 0..(10 * Unit)
          BY DEF RadioTypeOK
        <4> QED
          BY <4>1, PowersAreNumbers
      <3>2. messages' = checkTemperatureAlarms(temp')
                        \cup checkOutputPowerAlarms(real, nominal)
                        \cup checkInputPowerAlarms(input_power')
        BY <2>2 DEF executeALARM
      <3>3. SUFFICES ASSUME Message("Error", "output range") \in messages'
                     PROVE  Message("Warning", "output deviation") \in messages'
        BY DEF RangeErrorImpliesDeviation, Message
      <3> HIDE DEF real, nominal
      <3>4. Message("Error", "output range")
               \in checkOutputPowerAlarms(real, nominal)
        BY <3>2, <3>3, OutputMessages
      <3>5. real < -2 * Unit \/ real > 12 * Unit
        BY <3>1, <3>4, OutputPowerMessages
      <3>6. Distance(real, nominal) > 2 * Unit
        BY <3>1, <3>5, RangeImpliesDeviation
      <3> QED
        BY <3>1, <3>2, <3>6, OutputPowerMessages
    <2> QED
      BY <2>1, <2>2, StepCases, MonitorLeavesRadio
         DEF Radio, Setting, setNominalPower, setFrequency, setAutomaticModulation,
             setModulation, Succeeded, executeGET, executeSTATUS, Failed, vars,
             radioVars, answer
  <1> QED
    BY <1>1, <1>2, RadioTypeCorrect, PTL DEF Spec

\* The limits of the temperature that t is beyond.
Passed(t) == {b \in {80, 100, 110} : t > b} \cup {b \in {-20, -30, -40} : t < b}

\* Of three values, one, two or three make a set of that size.
Sizes(a, b, c) ==
    /\ Cardinality({a}) = 1
    /\ Cardinality({a, b}) = 2
    /\ Cardinality({a, b, c}) = 3

LEMMA FewElements ==
    ASSUME NEW a, NEW b, NEW c, a # b, b # c, a # c
    PROVE  Sizes(a, b, c)
  <1>1. IsFiniteSet({a}) /\ Cardinality({a}) = 1
    BY FS_Singleton
  <1>2. {a, b} = {a} \cup {b} /\ b \notin {a}
    OBVIOUS
  <1>3. IsFiniteSet({a, b}) /\ Cardinality({a, b}) = 2
    BY <1>1, <1>2, FS_AddElement
  <1>4. {a, b, c} = {a, b} \cup {c} /\ c \notin {a, b}
    OBVIOUS
  <1>5. Cardinality({a, b, c}) = 3
    BY <1>3, <1>4, FS_AddElement
  <1> QED
    BY <1>1, <1>3, <1>5 DEF Sizes

LEMMA LimitsPassed ==
    /\ Cardinality({80}) = 1 /\ Cardinality({-20}) = 1
    /\ Cardinality({80, 100}) = 2 /\ Cardinality({-20, -30}) = 2
    /\ Cardinality({80, 100, 110}) = 3 /\ Cardinality({-20, -30, -40}) = 3
  <1>1. 80 # 100 /\ 100 # 110 /\ 80 # 110
    OBVIOUS
  <1>2. -20 # -30 /\ -30 # -40 /\ -20 # -40
    OBVIOUS
  <1>3. Sizes(80, 100, 110)
    BY <1>1, FewElements
  <1>4. Sizes(-20, -30, -40)
    BY <1>2, FewElements
  <1> QED
    BY <1>3, <1>4 DEF Sizes

\* In a chain of comparisons one branch is taken, and it is that of the limits
\* that are passed.
LEMMA LevelOfTemperature ==
    ASSUME NEW t \in Int
    PROVE  checkTemperatureAlarms(t) =
              IF Passed(t) = {} THEN {}
              ELSE {Message(LevelOf(Cardinality(Passed(t))), "temperature")}
  <1>1. /\ LevelOf(1) = "Warning" /\ LevelOf(2) = "Error" /\ LevelOf(3) = "Critical"
    BY DEF LevelOf
  <1>2. ASSUME NEW limits, Passed(t) = limits, limits # {},
               NEW n, Cardinality(limits) = n, NEW level, LevelOf(n) = level,
               checkTemperatureAlarms(t) = {Message(level, "temperature")}
        PROVE  checkTemperatureAlarms(t) =
                  IF Passed(t) = {} THEN {}
                  ELSE {Message(LevelOf(Cardinality(Passed(t))), "temperature")}
    BY <1>2
  <1>3. CASE t >= -20 /\ t <= 80
    BY <1>3 DEF Passed, checkTemperatureAlarms
  <1>4. CASE t > 80 /\ t <= 100
    <2>1. Passed(t) = {80}
      BY <1>4 DEF Passed
    <2>2. checkTemperatureAlarms(t) = {Message("Warning", "temperature")}
      BY <1>4 DEF checkTemperatureAlarms
    <2> QED
      BY <1>1, <1>2, <2>1, <2>2, LimitsPassed
  <1>5. CASE t > 100 /\ t <= 110
    <2>1. Passed(t) = {80, 100}
      BY <1>5 DEF Passed
    <2>2. checkTemperatureAlarms(t) = {Message("Error", "temperature")}
      BY <1>5 DEF checkTemperatureAlarms
    <2> QED
      BY <1>1, <1>2, <2>1, <2>2, LimitsPassed
  <1>6. CASE t > 110
    <2>1. Passed(t) = {80, 100, 110}
      BY <1>6 DEF Passed
    <2>2. checkTemperatureAlarms(t) = {Message("Critical", "temperature")}
      BY <1>6 DEF checkTemperatureAlarms
    <2> QED
      BY <1>1, <1>2, <2>1, <2>2, LimitsPassed
  <1>7. CASE t < -20 /\ t >= -30
    <2>1. Passed(t) = {-20}
      BY <1>7 DEF Passed
    <2>2. checkTemperatureAlarms(t) = {Message("Warning", "temperature")}
      BY <1>7 DEF checkTemperatureAlarms
    <2> QED
      BY <1>1, <1>2, <2>1, <2>2, LimitsPassed
  <1>8. CASE t < -30 /\ t >= -40
    <2>1. Passed(t) = {-20, -30}
      BY <1>8 DEF Passed
    <2>2. checkTemperatureAlarms(t) = {Message("Error", "temperature")}
      BY <1>8 DEF checkTemperatureAlarms
    <2> QED
      BY <1>1, <1>2, <2>1, <2>2, LimitsPassed
  <1>9. CASE t < -40
    <2>1. Passed(t) = {-20, -30, -40}
      BY <1>9 DEF Passed
    <2>2. checkTemperatureAlarms(t) = {Message("Critical", "temperature")}
      BY <1>9 DEF checkTemperatureAlarms
    <2> QED
      BY <1>1, <1>2, <2>1, <2>2, LimitsPassed
  <1> QED
    BY <1>3, <1>4, <1>5, <1>6, <1>7, <1>8, <1>9

\* The temperature is the subject of the messages of the one check.
LEMMA TemperatureMessages ==
    ASSUME NEW t, NEW real, NEW nominal, NEW input
    PROVE  {m \in checkTemperatureAlarms(t)
                    \cup checkOutputPowerAlarms(real, nominal)
                    \cup checkInputPowerAlarms(input) : m.about = "temperature"}
              = checkTemperatureAlarms(t)
  <1>1. \A m \in checkTemperatureAlarms(t) : m.about = "temperature"
    BY DEF checkTemperatureAlarms, Message
  <1>2. \A m \in checkOutputPowerAlarms(real, nominal) : m.about # "temperature"
    <2>1. \A level : /\ Message(level, "output deviation").about # "temperature"
                     /\ Message(level, "output range").about # "temperature"
      BY DEF Message
    <2> QED
      BY <2>1, Zenon DEF checkOutputPowerAlarms
  <1>3. \A m \in checkInputPowerAlarms(input) : m.about # "temperature"
    BY DEF checkInputPowerAlarms, Message
  <1> QED
    BY <1>1, <1>2, <1>3

\* ALARM prints one message about a temperature beyond its limits, of the level
\* of the limits it has passed, and none about another temperature.
THEOREM TemperatureCorrect == Spec => []TemperatureLevelExact
  <1> DEFINE Exact(now, printed) ==
                {m \in printed : m.about = "temperature"} =
                    IF Passed(now) = {} THEN {}
                    ELSE {Message(LevelOf(Cardinality(Passed(now))), "temperature")}
  <1>1. TemperatureLevelExact <=> (asked.action = "ALARM" => Exact(temp, messages))
    BY DEF TemperatureLevelExact, Passed
  <1>2. Init => TemperatureLevelExact
    <2>1. Init => asked.action = "none"
      <3>1. Init => asked = Asked("none", "none")
        BY Zenon DEF Init, RadioInit
      <3> QED
        BY <3>1, AskedFields
    <2> QED
      BY <1>1, <2>1
  <1>3. RadioTypeOK' /\ TemperatureLevelExact /\ [Next]_vars => TemperatureLevelExact'
    <2> SUFFICES ASSUME RadioTypeOK', TemperatureLevelExact, [Next]_vars
                 PROVE  TemperatureLevelExact'
      OBVIOUS
    <2>1. CASE asked'.action # "ALARM"
      BY <2>1 DEF TemperatureLevelExact
    <2>2. CASE executeALARM
      <3>1. {m \in messages' : m.about = "temperature"} = checkTemperatureAlarms(temp')
        BY <2>2, TemperatureMessages DEF executeALARM
      <3>2. temp' \in Int
        BY DEF RadioTypeOK
      <3>3. Exact(temp', messages')
        BY <3>1, <3>2, LevelOfTemperature
      <3> QED
        BY <3>3 DEF TemperatureLevelExact, Passed
    <2>3. CASE UNCHANGED vars
      BY <2>3 DEF TemperatureLevelExact, vars, radioVars, answer, simulation
    <2>4. CASE Monitor
      BY <2>1, <2>4, MonitorLeavesRadio
    <2>5. CASE Radio
      <3>1. ASSUME NEW parameter, NEW text, NEW value, Succeeded(parameter, text, value)
            PROVE  asked'.action = "SET"
        BY <3>1 DEF Succeeded
      <3>2. ASSUME NEW action, NEW parameter, action # "ALARM",
                   asked' = Asked(action, parameter)
            PROVE  asked'.action # "ALARM"
        BY <3>2, AskedFields
      <3>3. ASSUME NEW text, Setting(text)
            PROVE  asked'.action = "SET"
        BY <3>1, <3>3, Zenon DEF Setting, setNominalPower, setFrequency,
                                 setAutomaticModulation, setModulation
      <3>4. ASSUME NEW action \in {"SET", "GET", "none"}, Failed(action)
            PROVE  asked'.action # "ALARM"
        <4>1. action # "ALARM"
          OBVIOUS
        <4> QED
          BY <3>2, <3>4, <4>1 DEF Failed
      <3>5. ASSUME NEW parameter, executeGET(parameter)
            PROVE  asked'.action # "ALARM"
        <4>1. "GET" # "ALARM" /\ "GET" \in {"SET", "GET", "none"}
          OBVIOUS
        <4> QED
          BY <3>2, <3>4, <3>5, <4>1, Zenon DEF executeGET
      <3>6. executeSTATUS => asked'.action # "ALARM"
        <4>1. "STATUS" # "ALARM"
          OBVIOUS
        <4> QED
          BY <3>2, <4>1, Zenon DEF executeSTATUS
      <3> QED
        BY <2>1, <2>2, <2>5, <3>3, <3>4, <3>5, <3>6 DEF Radio
    <2> QED
      BY <2>3, <2>4, <2>5, StepCases
  <1> QED
    BY <1>2, <1>3, RadioTypeCorrect, PTL DEF Spec

\* The manual modulation state is kept while the mode is automatic.
THEOREM ManualStateCorrect == Spec => ManualStateKept
  <1>1. [Next]_vars => [automatic_modulation => modulation' = modulation]_modulation
    BY StepCases, MonitorLeavesRadio
       DEF Radio, Setting, setNominalPower, setFrequency, setAutomaticModulation,
           setModulation, ValidModulation, Failed, executeGET, executeALARM,
           executeSTATUS, settings, vars, radioVars
  <1> QED
    BY <1>1, PTL DEF Spec, ManualStateKept

\* What the clients know agrees with the settings and the configuration: every
\* command that is answered SUCCESS changes what it was asked for, and no other.
ConfirmedInv ==
    /\ DOMAIN confirmed = Parameters
    /\ confirmed.nominal_output_power = nominal_output_power
    /\ confirmed.frequency = frequency
    /\ confirmed.automatic_modulation = automatic_modulation
    /\ confirmed.modulation = modulation

\* The part about MONITOR.
ConfiguredInv ==
    /\ flags \in [Flags -> BOOLEAN]
    /\ configured = [flags |-> flags, polling_interval |-> polling_interval]

\* One confirmation changes what the clients know of one parameter.
LEMMA OneConfirmed ==
    ASSUME NEW parameter \in Parameters, NEW text, NEW value,
           Succeeded(parameter, text, value), DOMAIN confirmed = Parameters
    PROVE  /\ DOMAIN confirmed' = Parameters
           /\ confirmed'[parameter] = value
           /\ \A other \in Parameters \ {parameter} :
                 confirmed'[other] = confirmed[other]
  BY DEF Succeeded

\* The agreement on the radio parameters is an invariant.
LEMMA ConfirmedCorrect == Spec => []ConfirmedInv
  <1>1. Init => ConfirmedInv
    <2>1. ASSUME RadioInit PROVE DOMAIN confirmed = Parameters
      BY <2>1 DEF RadioInit, Parameters
    <2>2. ASSUME RadioInit
          PROVE  /\ confirmed.nominal_output_power = nominal_output_power
                 /\ confirmed.frequency = frequency
      BY <2>2 DEF RadioInit
    <2>3. ASSUME RadioInit
          PROVE  /\ confirmed.automatic_modulation = automatic_modulation
                 /\ confirmed.modulation = modulation
      BY <2>3, Zenon DEF RadioInit
    <2> QED
      BY <2>1, <2>2, <2>3, InitRadio DEF ConfirmedInv
  <1>2. ConfirmedInv /\ [Next]_vars => ConfirmedInv'
    <2> SUFFICES ASSUME ConfirmedInv, [Next]_vars PROVE ConfirmedInv'
      OBVIOUS
    <2> USE DEF ConfirmedInv
    <2>1. ASSUME NEW text, setNominalPower(text) PROVE ConfirmedInv'
      BY <2>1, OneConfirmed DEF setNominalPower, Parameters
    <2>2. ASSUME NEW text, setFrequency(text) PROVE ConfirmedInv'
      BY <2>2, OneConfirmed DEF setFrequency, Parameters
    <2>3. ASSUME NEW text, setAutomaticModulation(text) PROVE ConfirmedInv'
      BY <2>3, OneConfirmed DEF setAutomaticModulation, Parameters
    <2>4. ASSUME NEW text, setModulation(text) PROVE ConfirmedInv'
      BY <2>4, OneConfirmed DEF setModulation, Parameters
    <2>5. CASE UNCHANGED <<settings, confirmed>>
      BY <2>5 DEF settings
    <2> QED
      BY <2>1, <2>2, <2>3, <2>4, <2>5, StepCases, MonitorLeavesRadio
         DEF Radio, Setting, executeGET, executeALARM, executeSTATUS, Failed, vars,
             radioVars
  <1> QED
    BY <1>1, <1>2, PTL DEF Spec

\* The agreement on the configuration is an invariant.
LEMMA ConfiguredCorrect == Spec => []ConfiguredInv
  <1>1. Init => ConfiguredInv
    BY DEF Init, ConfiguredInv
  <1>2. ConfiguredInv /\ [Next]_vars => ConfiguredInv'
    <2> SUFFICES ASSUME ConfiguredInv, [Next]_vars PROVE ConfiguredInv'
      OBVIOUS
    <2> USE DEF ConfiguredInv
    <2>1. ASSUME NEW param, NEW value, SetFlag(param, value) PROVE ConfiguredInv'
      BY <2>1 DEF SetFlag
    <2>2. ASSUME NEW param, NEW value, SetInterval(param, value)
          PROVE  ConfiguredInv'
      BY <2>2 DEF SetInterval
    <2>3. CASE UNCHANGED config
      BY <2>3 DEF config
    <2> QED
      BY <2>1, <2>2, <2>3, StepCases
         DEF Monitor, handleConfigSet, handleService, handleConfigGet, vars
  <1> QED
    BY <1>1, <1>2, PTL DEF Spec

\* GET and CONFIG GET answer what the last command that was answered SUCCESS
\* has set, a number of up to four decimals, which std::to_string shows whole.
THEOREM ReadBackCorrect == Spec => []ReadBack
  <1>1. Init => ReadBack
    BY InitRadio, AskedFields DEF RadioInit, ReadBack
  <1>2. ConfirmedInv /\ ConfiguredInv /\ ReadBack /\ [Next]_vars => ReadBack'
    <2> SUFFICES ASSUME ConfirmedInv, ConfiguredInv, ReadBack, [Next]_vars
                 PROVE  ReadBack'
      OBVIOUS
    <2>1. ASSUME NEW parameter, executeGET(parameter) PROVE ReadBack'
      <3>1. CASE parameter \in Parameters
        BY <2>1, <3>1, AskedFields DEF ConfirmedInv, ReadBack, executeGET, Readable, Shown,
               Parameters, settings
      <3>2. CASE asked'.parameter \notin Parameters
        BY <2>1, <3>2, AskedFields DEF ReadBack, executeGET, Failed
      <3> QED
        BY <2>1, <3>1, <3>2, AskedFields DEF executeGET, Failed, Parameters
    <2>2. ASSUME NEW param, handleConfigGet(param) PROVE ReadBack'
      BY <2>2, AskedFields DEF ConfiguredInv, ReadBack, handleConfigGet, Answered, Failed,
             config, Flags, Ranges
    <2>3. CASE asked'.action \notin {"GET", "CONFIG_GET"}
      BY <2>3 DEF ReadBack
    <2>4. CASE UNCHANGED vars
      BY <2>4 DEF ReadBack, vars, radioVars, answer, config
    <2>5. ASSUME NEW action, Failed(action) PROVE ReadBack'
      BY <2>5, AskedFields DEF ReadBack, Failed, Parameters, Flags
    <2>6. \A text : Setting(text) => asked'.action = "SET"
      BY DEF Setting, setNominalPower, setFrequency, setAutomaticModulation,
             setModulation, Succeeded
    <2>7. executeALARM \/ executeSTATUS => asked'.action \notin {"GET", "CONFIG_GET"}
      BY AskedFields DEF executeALARM, executeSTATUS
    <2>8. ASSUME NEW param, NEW value, handleConfigSet(param, value)
          PROVE  asked'.action = "CONFIG_SET"
      BY <2>8, AskedFields DEF handleConfigSet, Answered, Failed
    <2>9. ASSUME NEW state, handleService(state) PROVE asked'.action = "SERVICE"
      BY <2>9, AskedFields DEF handleService, Answered, Failed
    <2>10. ASSUME NEW action, Answered("MONITOR", action, Word("MONITOR"))
           PROVE  asked'.action = "MONITOR"
      BY <2>10, AskedFields DEF Answered
    <2> QED
      BY <2>1, <2>2, <2>3, <2>4, <2>5, <2>6, <2>7, <2>8, <2>9, <2>10, StepCases
         DEF Monitor, Radio
  <1> QED
    BY <1>1, <1>2, ConfirmedCorrect, ConfiguredCorrect, PTL DEF Spec

-----------------------------------------------------------------------------
(* isValidNumber and stod *)

\* A symbol is a sign, a dot or a digit.
LEMMA SymbolsDiffer ==
    /\ Dot \notin Digits
    /\ Dot \notin Signs
    /\ \A symbol \in Signs : symbol \notin Digits
  <1>1. \A digit \in Digits :
           digit \in {"0", "1", "2", "3", "4", "5", "6", "7", "8", "9"}
    BY DEF Digits, Numerals
  <1> QED
    BY <1>1, Zenon DEF Dot, Signs

\* Every text that isValidNumber lets through is a number to strtod.
LEMMA ValidIsDecimal ==
    ASSUME NEW s \in Seq(STRING), isValidNumber(s)
    PROVE  IsDecimal(s)
  <1>1. PICK digit \in 1..Len(s) : s[digit] \in Digits
    BY DEF isValidNumber
  <1>2. \A i \in 1..Len(s) : \/ i = 1 /\ s[i] \in Signs
                             \/ s[i] = Dot /\ \A j \in 1..(i - 1) : s[j] # Dot
                             \/ s[i] \in Digits
    BY DEF isValidNumber
  <1>3. PICK dot \in 1..(Len(s) + 1) :
           /\ dot <= Len(s) => s[dot] = Dot
           /\ \A i \in 1..Len(s) : s[i] = Dot => i = dot
    <2>1. CASE \A i \in 1..Len(s) : s[i] # Dot
      BY <2>1, Len(s) + 1 \in 1..(Len(s) + 1)
    <2>2. ASSUME NEW i \in 1..Len(s), s[i] = Dot
          PROVE  \A j \in 1..Len(s) : s[j] = Dot => j = i
      <3> SUFFICES ASSUME NEW j \in 1..Len(s), s[j] = Dot PROVE j = i
        OBVIOUS
      <3>1. ~(i < j)
        BY <1>2, <2>2, i < j => i \in 1..(j - 1), SymbolsDiffer
      <3>2. ~(j < i)
        BY <1>2, <2>2, j < i => j \in 1..(i - 1), SymbolsDiffer
      <3> QED
        BY <3>1, <3>2
    <2> QED
      BY <2>1, <2>2
  <1> DEFINE first == IF s[1] \in Signs THEN 2 ELSE 1
  <1>4. first \in 1..2 /\ (first = 2 => s # <<>> /\ s[1] \in Signs)
    BY <1>1
  <1>5. first <= dot
    BY <1>1, <1>3, SymbolsDiffer
  <1>6. \A i \in first..Len(s) : i # dot => s[i] \in Digits
    BY <1>2, <1>3
  <1>7. digit \in first..Len(s) /\ digit # dot
    BY <1>1, <1>3, SymbolsDiffer
  <1> HIDE DEF first
  <1> QED
    BY <1>3, <1>4, <1>5, <1>6, <1>7 DEF IsDecimal

\* stod reads such a text to its end.
LEMMA ValidIsRead ==
    ASSUME NEW s \in Values, isValidNumber(s)
    PROVE  DecimalLength[s] = Len(s)
  <1>1. s \in Seq(STRING) /\ Len(s) \in Nat
    BY ValuesAssumption
  <1>2. IsDecimal(s)
    BY <1>1, ValidIsDecimal
  <1>3. SubSeq(s, 1, Len(s)) = s
    BY <1>1
  <1> DEFINE Read == {0} \cup {n \in 1..Len(s) : IsDecimal(SubSeq(s, 1, n))}
  <1>4. Len(s) \in Read /\ \A n \in Read : n \in Nat /\ n <= Len(s)
    <2>1. Len(s) = 0 \/ Len(s) \in 1..Len(s)
      BY <1>1
    <2>2. Len(s) \in Read
      BY <1>2, <1>3, <2>1, Zenon
    <2>3. \A n \in Read : n = 0 \/ n \in 1..Len(s)
      BY Zenon
    <2> QED
      BY <1>1, <2>2, <2>3
  <1>5. DecimalLength[s] = Max(Read)
    BY DEF DecimalLength
  <1> HIDE DEF Read
  <1> QED
    BY <1>1, <1>4, <1>5 DEF Max

\* Of a number that SET has accepted stod has read every symbol, however many
\* digits it has.
THEOREM NumbersCorrect == Spec => []NumbersAreRead
  <1>1. Init => NumbersAreRead
    BY InitRadio, AskedFields DEF RadioInit, NumbersAreRead
  <1>2. NumbersAreRead /\ [Next]_vars => NumbersAreRead'
    <2> SUFFICES ASSUME NumbersAreRead, [Next]_vars PROVE NumbersAreRead'
      OBVIOUS
    <2>1. ASSUME NEW text \in Values, NEW parameter, NEW value,
                 Succeeded(parameter, text, value), isValidNumber(text)
          PROVE  NumbersAreRead'
      BY <2>1, ValidIsRead DEF Succeeded, NumbersAreRead
    <2>2. ASSUME NEW text \in Values, Setting(text)
          PROVE  \/ isValidNumber(text)
                    /\ \E parameter, value : Succeeded(parameter, text, value)
                 \/ asked'.parameter \in {"automatic_modulation", "modulation"}
      <3>1. CASE setNominalPower(text)
        BY <3>1, Zenon DEF setNominalPower, ValidPower
      <3>2. CASE setFrequency(text)
        BY <3>2, Zenon DEF setFrequency, ValidFrequency
      <3>3. CASE setAutomaticModulation(text) \/ setModulation(text)
        BY <3>3 DEF setAutomaticModulation, setModulation, Succeeded
      <3> QED
        BY <2>2, <3>1, <3>2, <3>3 DEF Setting
    <2>3. CASE asked'.parameter \notin {"nominal_output_power", "frequency"}
      BY <2>3 DEF NumbersAreRead
    <2>4. CASE asked'.action # "SET"
      BY <2>4 DEF NumbersAreRead
    <2>5. ASSUME NEW action, Failed(action) PROVE NumbersAreRead'
      BY <2>5, AskedFields DEF Failed, NumbersAreRead
    <2>6. ASSUME NEW parameter, executeGET(parameter) PROVE NumbersAreRead'
      BY <2>5, <2>6, AskedFields DEF executeGET, NumbersAreRead
    <2>7. executeALARM \/ executeSTATUS => asked'.action # "SET"
      BY AskedFields DEF executeALARM, executeSTATUS
    <2>8. CASE UNCHANGED vars
      BY <2>8 DEF NumbersAreRead, vars, radioVars, answer
    <2> QED
      BY <2>1, <2>2, <2>3, <2>4, <2>5, <2>6, <2>7, <2>8, StepCases,
         MonitorLeavesRadio
         DEF Radio
  <1> QED
    BY <1>1, <1>2, PTL DEF Spec

=============================================================================
