--------------------------- MODULE MCCommandLine ---------------------------
(* Instances of CommandLine for TLC: lines and draws at the limits.         *)
EXTENDS CommandLine

Line(words, rest) == [words |-> words, rest |-> rest]

Powers == {<<"0">>, <<"-", "1">>, <<"1", ".">>, <<"+", "1", "0">>, <<"1", "4">>,
           <<"-", ".", "5">>, <<"1", ".", "2", ".", "3">>, <<".">>, <<"5", "x">>}
Frequencies == {<<"2", "4", ".", "9">>, <<"2", "5", ".", "0", "0", "0", "4">>,
                <<"2", "5", ".", "1", "2">>, <<"2", "6">>, <<"2", "6", ".", "1">>}
Words   == {<<"true">>, <<"false">>, <<"1">>, <<"on">>}
Blanked == {<<Blank, "1">>, <<>>}

\* Each parameter with its own values, those of the others, and without one.
SetLines ==
    {Line(<<"SET", "nominal_output_power">>, <<Blank>> \o v) :
        v \in Powers \cup Words \cup Blanked}
    \cup {Line(<<"SET", "frequency">>, <<Blank>> \o v) :
             v \in Frequencies \cup {<<"x">>}}
    \cup {Line(<<"SET", "automatic_modulation">>, <<Blank>> \o v) :
             v \in Words \cup Blanked}
    \cup {Line(<<"SET", "modulation">>, <<Blank>> \o v) :
             v \in {<<"true">>, <<"0">>, <<"off">>}}
    \cup {Line(<<"SET", "volume">>, <<Blank, "1">>),
          Line(<<"SET", "modulation">>, <<>>), Line(<<"SET">>, <<>>)}

GetLines ==
    {Line(<<"GET", p>>, <<>>) : p \in Readable \cup {"volume"}}
    \cup {Line(<<"GET">>, <<>>), Line(<<"ALARM">>, <<>>), Line(<<"STATUS">>, <<>>),
          Line(<<"RESET">>, <<>>), Line(<<>>, <<>>)}

\* One of the flags and the service are set, all are shown.
Configurable == {"monitor_current"}
Intervals == {<<"5">>, <<"1", "0", "0", "0">>, <<"0">>, <<"-", "1">>, <<"5", "x">>,
              <<Blank, "5">>, <<"x">>, <<>>}

MonitorLines ==
    {Line(<<"MONITOR", "CONFIG", "SET", p>>, <<Blank>> \o v) :
        p \in Configurable, v \in {<<"on">>, <<"off">>, <<"2">>}}
    \cup {Line(<<"MONITOR", "CONFIG", "SET", "polling_interval">>, <<Blank>> \o v) :
             v \in Intervals}
    \cup {Line(<<"MONITOR", "CONFIG", "SET", "volume">>, <<Blank, "1">>)}
    \cup {Line(<<"MONITOR", "CONFIG", "GET", p>>, <<>>) :
             p \in Flags \cup {"polling_interval", "power_range", ""}}
    \cup {Line(<<"MONITOR", "SERVICE", state>>, <<>>) : state \in {"on", "off", "2"}}
    \cup {Line(<<"MONITOR", "STATUS">>, <<>>), Line(<<"MONITOR", "ALARM", "ACK">>, <<>>),
          Line(<<"MONITOR", "CONFIG">>, <<>>), Line(<<"MONITOR">>, <<>>)}

MCLines  == SetLines \cup GetLines \cup MonitorLines
MCValues == {StripBlank(line.rest) : line \in MCLines}

MCTempDraws  == {-41, -30, -20, 80, 100, 110, 111}
MCPowerDraws == {-20001, 120001}
MCInputDraws == {50000}

=============================================================================
