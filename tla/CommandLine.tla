---------------------------- MODULE CommandLine ----------------------------
(***************************************************************************)
(* The main thread of the server between two waits: processCommand splits  *)
(* the line a client has sent, and one of SET, GET, ALARM, STATUS and      *)
(* MONITOR works on it and answers.  RadioControl has the first four.  Of  *)
(* MONITOR, the configuration is here, which only this thread writes; the  *)
(* commands that meet the monitoring thread are those of module Monitoring.*)
(*                                                                         *)
(* A line is the words that >> takes from it, one for each variable, and   *)
(* the text behind them, which getline takes.                              *)
(***************************************************************************)
EXTENDS RadioControl

CONSTANTS
    Lines           \* the lines clients send

LineType == [words : Seq(STRING), rest : Seq(STRING)]

ASSUME LineAssumption ==
    /\ Lines \subseteq LineType
    /\ \A line \in Lines : StripBlank(line.rest) \in Values

Flags  == {"service_enabled", "monitor_temperature", "monitor_current",
           "monitor_power", "monitor_voltage"}
Ranges == {"temperature_range", "current_range", "power_range", "voltage_range"}

VARIABLES
    flags,             \* service_enabled, and the monitor flags of the sensors
    polling_interval,  \* in milliseconds
    configured         \* history: the configuration a client knows of

config == <<flags, polling_interval, configured>>
vars   == <<radioVars, config>>

Init ==
    /\ RadioInit
    /\ flags = [flag \in Flags |-> TRUE]
    /\ polling_interval = 1000
    /\ configured = [flags |-> [flag \in Flags |-> TRUE], polling_interval |-> 1000]

\* >> leaves the variable empty when there is no word left.
WordAt(line, n) == IF n \in DOMAIN line.words THEN line.words[n] ELSE ""

Answered(action, parameter, answered) ==
    /\ asked' = Asked(action, parameter)
    /\ reply' = answered
    /\ messages' = {}
    /\ UNCHANGED <<settings, simulation, confirmed>>

-----------------------------------------------------------------------------
(* MONITOR                                                                  *)

\* Mutant: the assignment is copied from the block of another parameter.
SetFlag_CopyPaste(param, value) ==
    /\ param \in Flags /\ value \in On \cup Off
    /\ flags' = [flags EXCEPT ![IF param = "monitor_current"
                                THEN "monitor_temperature" ELSE param] =
                                value \in On]
    /\ configured' = [configured EXCEPT !.flags[param] = value \in On]
    /\ UNCHANGED polling_interval

SetFlag(param, value) ==
    /\ param \in Flags /\ value \in On \cup Off
    /\ flags' = [flags EXCEPT ![param] = value \in On]
    /\ configured' = [configured EXCEPT !.flags[param] = value \in On]
    /\ UNCHANGED polling_interval

ValidInterval(value) == IntegerLength[value] > 0 /\ stoi[value] \in Nat \ {0}

SetInterval(param, value) ==
    /\ param = "polling_interval" /\ ValidInterval(value)
    /\ polling_interval' = stoi[value]
    /\ configured' = [configured EXCEPT !.polling_interval = stoi[value]]
    /\ UNCHANGED flags

Settable(param, value) ==
    \/ param \in Flags /\ value \in On \cup Off
    \/ param = "polling_interval" /\ ValidInterval(value)

handleConfigSet(param, value) ==
    \/ /\ SetFlag(param, value) \/ SetInterval(param, value)
       /\ Answered("CONFIG_SET", param, Word("SUCCESS"))
    \/ /\ ~Settable(param, value)
       /\ Failed("CONFIG_SET")
       /\ UNCHANGED config

handleService(state) ==
    \/ /\ SetFlag("service_enabled", <<state>>)
       /\ Answered("SERVICE", "service_enabled", Word("SUCCESS"))
    \/ /\ <<state>> \notin On \cup Off
       /\ Failed("SERVICE")
       /\ UNCHANGED config

handleConfigGet(param) ==
    /\ \/ param \in Flags
          /\ Answered("CONFIG_GET", param, Word(IF flags[param] THEN "1" ELSE "0"))
       \/ param = "polling_interval"
          /\ Answered("CONFIG_GET", param, Number(polling_interval))
       \/ param \in Ranges
          /\ Answered("CONFIG_GET", param, Word("range"))
       \/ param \notin Flags \cup Ranges \cup {"polling_interval"}
          /\ Failed("CONFIG_GET")
    /\ UNCHANGED config

\* The handlers of Monitoring, and those that only show.
OtherHandlers == {"STATUS", "SENSORS", "ALARMS", "UPDATE", "CHECK", "CLEAR"}

executeMONITOR(line) ==
    LET action == WordAt(line, 2)
        param1 == WordAt(line, 3)
        param2 == WordAt(line, 4)
    IN  \/ /\ action = "CONFIG" /\ param1 = "SET"
           /\ handleConfigSet(param2, StripBlank(line.rest))
        \/ action = "CONFIG" /\ param1 = "GET" /\ handleConfigGet(param2)
        \/ action = "SERVICE" /\ handleService(param1)
        \/ /\ action \in OtherHandlers \/ (action = "ALARM" /\ param1 = "ACK")
           /\ Answered("MONITOR", action, Word("MONITOR"))
           /\ UNCHANGED config
        \/ /\ \/ action \notin OtherHandlers \cup {"CONFIG", "SERVICE", "ALARM"}
              \/ action = "CONFIG" /\ param1 \notin {"SET", "GET"}
              \/ action = "ALARM" /\ param1 # "ACK"
           /\ Failed("MONITOR")
           /\ UNCHANGED config

-----------------------------------------------------------------------------
(* Server::processCommand                                                   *)

RadioCommand(line) ==
    LET action    == WordAt(line, 1)
        parameter == WordAt(line, 2)
        value     == StripBlank(line.rest)
        isSet     == action = "SET" /\ parameter # "" /\ value # <<>>
        isGet     == action = "GET" /\ parameter # ""
    IN  \/ isSet /\ executeSET(parameter, value)
        \/ isGet /\ executeGET(parameter)
        \/ action = "ALARM" /\ executeALARM
        \/ action = "STATUS" /\ executeSTATUS
        \/ /\ ~isSet /\ ~isGet /\ action \notin {"ALARM", "STATUS"}
           /\ Failed("none")

processCommand(line) ==
    \/ WordAt(line, 1) = "MONITOR" /\ executeMONITOR(line)
    \/ WordAt(line, 1) # "MONITOR" /\ RadioCommand(line) /\ UNCHANGED config

Next == \E line \in Lines : processCommand(line)

Spec == Init /\ [][Next]_vars

-----------------------------------------------------------------------------
(* Properties *)

\* The ranges of RadioControl; and the polling interval is positive, or the
\* monitoring thread would not sleep at all.
TypeOK ==
    /\ RadioTypeOK
    /\ flags \in [Flags -> BOOLEAN]
    /\ polling_interval \in Nat \ {0}

\* GET and CONFIG GET answer what the last SET, CONFIG SET or SERVICE that was
\* answered SUCCESS has set, through any number of other commands, of other
\* parameters, and of switches of the mode in between.
ReadBack ==
    LET parameter == asked.parameter
    IN  /\ asked.action = "GET" /\ parameter \in Parameters =>
             reply = CASE parameter \in {"nominal_output_power", "frequency"} ->
                             Number(confirmed[parameter])
                       [] parameter = "automatic_modulation" ->
                             OnOff(confirmed.automatic_modulation)
                       [] parameter = "modulation" ->
                             IF confirmed.automatic_modulation THEN Word("auto")
                             ELSE OnOff(confirmed.modulation)
        /\ asked.action = "CONFIG_GET" /\ parameter \in Flags =>
             reply = Word(IF configured.flags[parameter] THEN "1" ELSE "0")
        /\ asked.action = "CONFIG_GET" /\ parameter = "polling_interval" =>
             reply = Number(configured.polling_interval)

\* isValidNumber and stod mean the same by a number: of a value that SET has
\* accepted stod has read every symbol, and not just the beginning.
NumbersAreRead ==
    asked.action = "SET" /\ reply = Word("SUCCESS")
    /\ asked.parameter \in {"nominal_output_power", "frequency"} =>
        DecimalLength[asked.value] = Len(asked.value)

=============================================================================
