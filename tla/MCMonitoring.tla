---------------------------- MODULE MCMonitoring ----------------------------
(* Instances of Monitoring for TLC, with the thresholds of SystemData.h.    *)
EXTENDS Monitoring

AllThresholds ==
    [temperature |-> <<-30, 85, -20, 70>>, current |-> <<5, 90, 10, 80>>,
     power |-> <<50, 900, 100, 800>>]  \* tenths of an ampere and of a watt

\* One sensor, always across a threshold: every round and every CHECK adds an
\* alarm.
OneOrder      == <<"temperature">>
OneDefault    == [temperature |-> 25]
OneThreshold  == [temperature |-> AllThresholds.temperature]
OneDraw       == [temperature |-> {70}]
OneAnomaly    == [temperature |-> {-227}]

\* A checked sensor that sits on every threshold and between them, and the
\* voltage, which is sampled and published but never checked.
EveryOrder    == <<"temperature", "voltage">>
EveryDefault  == [temperature |-> 25, voltage |-> 220]
EveryDraw     == [temperature |-> {-30, -20, 25, 70}, voltage |-> {230}]
EveryAnomaly  == [temperature |-> {272}, voltage |-> {152}]

=============================================================================
