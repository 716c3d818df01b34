-------------------------- MODULE MonitoringProofs --------------------------
(* What TLAPS proves about Monitoring, for every value of its constants.    *)
EXTENDS Monitoring, FiniteSetTheorems, TLAPS

-----------------------------------------------------------------------------
(* The inductive invariant of the alarm store, in named parts.              *)

\* The mutex is held by exactly the thread that is inside a locked function.
MutexHeld ==
    \A t \in Threads : InSection(t) <=> alarms_mutex = t

\* An alarm's id is the ordinal of its push_back.
IdIsOrdinal ==
    \A k \in DOMAIN active_alarms : active_alarms[k].id = k

\* Between the two halves of addAlarm the counters are one further apart, and
\* the id in hand is the one the next push_back needs.
CountersInStep ==
    /\ \A t \in Threads : pc[t] = "push" =>
          /\ alarm_id_counter = total_alarms_triggered + 2
          /\ frame[t].id = total_alarms_triggered + 1
    /\ (\A t \in Threads : pc[t] # "push") =>
          alarm_id_counter = total_alarms_triggered + 1

Unacknowledged == {k \in DOMAIN active_alarms : ~active_alarms[k].acknowledged}

\* The survivors of remove_if are still the right ones when erase installs them.
SurvivorsCurrent ==
    pc["main"] = "erase" => copy = Restrict(active_alarms, Unacknowledged)

\* From the erase to the copy that MONITOR CLEAR counts, nothing in the vector
\* is acknowledged, and nothing in the copy afterwards.
NothingAcknowledged ==
    pc["main"] \in {"recountLock", "recount"} =>
        \A k \in DOMAIN active_alarms : ~active_alarms[k].acknowledged

StoreInv ==
    /\ TypeOK
    /\ MutexHeld
    /\ IdIsOrdinal
    /\ CountersInStep
    /\ SurvivorsCurrent
    /\ NothingAcknowledged
    /\ ClearReplyHonest

\* While the destructor waits and after it, the monitoring thread is as far as
\* the destructor believes.
StopInv ==
    /\ pc["main"] \in {"unmap", "exit"} => pc["monitoring"] = "done"
    /\ ~mapped => pc["main"] = "exit"

\* With no command that writes or checks the sensors, a sensor keeps its value
\* from the comparison that fired to the addAlarm that records it.
ReadingFits(t) ==
    /\ pc[t] \in {"argument", "lock", "stamp", "push"} =>
          Crosses(Sensor(t), frame[t].branch, reading[Sensor(t)])
    /\ pc[t] \in {"compare", "argument", "lock", "stamp", "push"} =>
          \A b \in 1..(frame[t].branch - 1) : ~Crosses(Sensor(t), b, reading[Sensor(t)])
    /\ pc[t] \in {"lock", "stamp", "push"} => frame[t].number = reading[Sensor(t)]
    /\ pc[t] \notin {"compare", "argument", "lock", "stamp", "push"} =>
          frame[t].branch = 1

OnlyMonitoringChecks ==
    pc["main"] \notin CommonLabels

JustifiedInv ==
    /\ OnlyMonitoringChecks
    /\ ReadingFits("monitoring")
    /\ AlarmJustified

-----------------------------------------------------------------------------
(* Type correctness.                                                        *)

\* The vector is finite, so size() is a number.
LEMMA SizeIsNat ==
    TypeOK => Cardinality(DOMAIN active_alarms) \in Nat
<1> SUFFICES ASSUME TypeOK PROVE Cardinality(DOMAIN active_alarms) \in Nat
    OBVIOUS
<1>1. total_alarms_triggered \in Nat /\ DOMAIN active_alarms \subseteq 1..total_alarms_triggered
    BY DEF TypeOK
<1>2. IsFiniteSet(1..total_alarms_triggered)
    BY <1>1, FS_Interval
<1>3. IsFiniteSet(DOMAIN active_alarms)
    BY <1>1, <1>2, FS_Subset
<1> QED
    BY <1>3, FS_CardinalityType

PcOK ==
    /\ pc \in [Threads -> UNION {Labels(t) : t \in Threads}]
    /\ \A t \in Threads : pc[t] \in Labels(t)

\* A thread always visits one of the sensors.
LEMMA SensorType ==
    ASSUME TypeOK, NEW t \in Threads PROVE Sensor(t) \in Sensors
<1>1. frame[t].at \in 1..Len(SensorOrder)
    BY DEF TypeOK, Frame
<1>2. 1..Len(SensorOrder) = DOMAIN SensorOrder
    BY MonitoringAssumption
<1> QED BY <1>1, <1>2 DEF Sensor, Sensors

\* The locals with which a visit begins are locals.
LEMMA FrameAtType == FrameAt(1) \in Frame
<1>1. Len(SensorOrder) \in Nat /\ Len(SensorOrder) >= 1
    BY MonitoringAssumption
<1> QED BY <1>1 DEF FrameAt, Frame

\* Going on to the next sensor keeps the types of the locals and labels.
LEMMA NextSensorType ==
    ASSUME TypeOK, NEW t \in Threads, NEW again \in Labels(t), NEW label \in Labels(t),
           NextSensor(t, again, label)
    PROVE  /\ frame' \in [Threads -> Frame]
           /\ PcOK'
<1>1. Len(SensorOrder) \in Nat /\ Len(SensorOrder) >= 1
    BY MonitoringAssumption
<1>2. frame \in [Threads -> Frame]
    BY DEF TypeOK
<1>3. frame' \in [Threads -> Frame]
  <2>1. frame[t].at \in 1..Len(SensorOrder)
      BY <1>2 DEF Frame
  <2> DEFINE next == FrameAt(IF frame[t].at = Len(SensorOrder) THEN 1 ELSE frame[t].at + 1)
  <2>2. next \in Frame
      BY <1>1, <2>1 DEF FrameAt, Frame
  <2>3. frame' = [frame EXCEPT ![t] = next]
      BY DEF NextSensor
  <2> HIDE DEF next
  <2> QED BY <1>2, <2>2, <2>3
<1>4. PcOK'
    BY DEF TypeOK, NextSensor, Goto, PcOK
<1> QED BY <1>3, <1>4

\* A jump to a label of the thread keeps the types of the labels.
LEMMA GotoType ==
    ASSUME TypeOK, NEW t \in Threads, NEW label \in Labels(t), Goto(t, label)
    PROVE  PcOK'
BY DEF TypeOK, Goto, PcOK

\* Every step keeps the types.
LEMMA TypeStep == TypeOK /\ [Next]_vars => TypeOK'
<1> SUFFICES ASSUME TypeOK, [Next]_vars PROVE TypeOK'
    OBVIOUS
<1> USE DEF sensorVars, storeVars, serverVars
<1>1. ASSUME NEW t \in Threads, DrawSensor(t) PROVE TypeOK'
  <2>1. Sensor(t) \in Sensors /\ Draws[Sensor(t)] \subseteq Int
      BY SensorType, MonitoringAssumption
  <2>2. CASE ~monitor[Sensor(t)]
    <3>1. NextSensor(t, "draw", "countRead")
        BY <1>1, <2>2 DEF DrawSensor
    <3>2. /\ frame' \in [Threads -> Frame] /\ PcOK'
        BY <3>1, NextSensorType DEF Labels, CommonLabels
    <3> QED BY <1>1, <2>2, <3>2 DEF DrawSensor, TypeOK, PcOK
  <2>3. CASE monitor[Sensor(t)]
    <3>1. Goto(t, "anomaly")
        BY <1>1, <2>3 DEF DrawSensor
    <3>2. PcOK'
        BY <3>1, GotoType DEF Labels, CommonLabels
    <3> QED BY <1>1, <2>1, <2>3, <3>2 DEF DrawSensor, TypeOK, PcOK
  <2> QED BY <2>2, <2>3
<1>2. ASSUME NEW t \in Threads, DrawAnomaly(t) PROVE TypeOK'
  <2>1. Sensor(t) \in Sensors /\ Anomalies[Sensor(t)] \subseteq Int
      BY SensorType, MonitoringAssumption
  <2>2. /\ frame' \in [Threads -> Frame] /\ PcOK'
      BY <1>2, NextSensorType DEF DrawAnomaly, Labels, CommonLabels
  <2> QED BY <1>2, <2>1, <2>2 DEF DrawAnomaly, TypeOK, PcOK
<1>3. ASSUME NEW t \in Threads, CountRead(t) PROVE TypeOK'
  <2>1. PcOK'
      BY <1>3, GotoType DEF CountRead, Labels, CommonLabels
  <2>2. frame' \in [Threads -> Frame]
      BY <1>3 DEF CountRead, TypeOK, Frame
  <2> QED BY <1>3, <2>1, <2>2 DEF CountRead, TypeOK, PcOK
<1>4. ASSUME NEW t \in Threads, CountWrite(t) PROVE TypeOK'
  <2>1. PcOK'
      BY <1>4, GotoType DEF CountWrite, AfterUpdate, Labels, CommonLabels, Threads
  <2>2. frame \in [Threads -> Frame] /\ frame[t].number \in Int
      BY DEF TypeOK, Frame
  <2>3. frame' \in [Threads -> Frame]
      BY <1>4, <2>2, FrameAtType DEF CountWrite
  <2>4. total_sensor_updates' \in Int
      BY <1>4, <2>2 DEF CountWrite
  <2> QED BY <1>4, <2>1, <2>3, <2>4 DEF CountWrite, TypeOK, PcOK
<1>5. ASSUME NEW t \in Threads, TestMonitorFlag(t) PROVE TypeOK'
  <2>1. AfterCheck(t) \in Labels(t) /\ "test" \in Labels(t) /\ "compare" \in Labels(t)
      BY DEF AfterCheck, Labels, CommonLabels, Threads
  <2>2. CASE Goto(t, "compare") /\ UNCHANGED frame
    <3>1. PcOK'
        BY <2>1, <2>2, GotoType
    <3> QED BY <1>5, <2>2, <3>1 DEF TestMonitorFlag, TypeOK, PcOK
  <2>3. CASE NextSensor(t, "test", AfterCheck(t))
    <3>1. /\ frame' \in [Threads -> Frame] /\ PcOK'
        BY <2>1, <2>3, NextSensorType
    <3> QED BY <1>5, <3>1 DEF TestMonitorFlag, TypeOK, PcOK
  <2> QED BY <1>5, <2>2, <2>3 DEF TestMonitorFlag
<1>6. ASSUME NEW t \in Threads, Compare(t) PROVE TypeOK'
  <2>1. AfterCheck(t) \in Labels(t) /\ "test" \in Labels(t) /\ "argument" \in Labels(t)
      BY DEF AfterCheck, Labels, CommonLabels, Threads
  <2>2. CASE Goto(t, "argument") /\ UNCHANGED frame
    <3>1. PcOK'
        BY <2>1, <2>2, GotoType
    <3> QED BY <1>6, <2>2, <3>1 DEF Compare, TypeOK, PcOK
  <2>3. CASE /\ frame[t].branch < 4
             /\ frame' = [frame EXCEPT ![t].branch = @ + 1]
             /\ UNCHANGED pc
    <3>1. frame \in [Threads -> Frame] /\ frame[t] \in Frame
        BY DEF TypeOK
    <3>2. [frame[t] EXCEPT !.branch = @ + 1] \in Frame
        BY <2>3, <3>1 DEF Frame
    <3>3. frame' \in [Threads -> Frame]
        BY <2>3, <3>1, <3>2
    <3> QED BY <1>6, <2>3, <3>3 DEF Compare, TypeOK
  <2>4. CASE NextSensor(t, "test", AfterCheck(t))
    <3>1. frame' \in [Threads -> Frame] /\ PcOK'
        BY <2>1, <2>4, NextSensorType
    <3> QED BY <1>6, <3>1 DEF Compare, TypeOK, PcOK
  <2> QED BY <1>6, <2>2, <2>3, <2>4 DEF Compare
<1>7. ASSUME NEW t \in Threads, LoadArgument(t) PROVE TypeOK'
  <2>1. PcOK'
      BY <1>7, GotoType DEF LoadArgument, Labels, CommonLabels
  <2>2. frame \in [Threads -> Frame] /\ reading[Sensor(t)] \in Int
      BY SensorType DEF TypeOK
  <2>3. frame' \in [Threads -> Frame]
      BY <1>7, <2>2 DEF LoadArgument, Frame
  <2> QED BY <1>7, <2>1, <2>3 DEF LoadArgument, TypeOK, PcOK
<1>8. ASSUME NEW t \in Threads, Lock(t) PROVE TypeOK'
  <2>1. LockedSection[pc[t]] \in Labels(t)
    <3>1. pc[t] \in Labels(t)
        BY DEF TypeOK
    <3> QED BY <1>8, <3>1 DEF Lock, LockedSection, Labels, CommonLabels, Threads
  <2>2. PcOK'
      BY <1>8, <2>1, GotoType DEF Lock
  <2> QED BY <1>8, <2>2 DEF Lock, TypeOK, PcOK
<1>9. ASSUME NEW t \in Threads, StampId(t) PROVE TypeOK'
  <2>1. PcOK'
      BY <1>9, GotoType DEF StampId, Labels, CommonLabels
  <2>2. frame \in [Threads -> Frame] /\ alarm_id_counter \in Nat
      BY DEF TypeOK
  <2>3. frame[t] \in Frame /\ [frame[t] EXCEPT !.id = alarm_id_counter] \in Frame
      BY <2>2 DEF Frame
  <2>4. frame' \in [Threads -> Frame] /\ alarm_id_counter' \in Nat
      BY <1>9, <2>2, <2>3 DEF StampId
  <2> QED BY <1>9, <2>1, <2>4 DEF StampId, TypeOK, PcOK
<1>10. ASSUME NEW t \in Threads, PushBack(t) PROVE TypeOK'
  <2>1. AfterCheck(t) \in Labels(t) /\ "test" \in Labels(t)
      BY DEF AfterCheck, Labels, CommonLabels, Threads
  <2>2. frame' \in [Threads -> Frame] /\ PcOK'
      BY <1>10, <2>1, NextSensorType DEF PushBack
  <2>3. NewAlarm(t) \in Alarm
      BY SensorType DEF NewAlarm, Alarm, TypeOK, Frame
  <2>4. /\ total_alarms_triggered' = total_alarms_triggered + 1
        /\ total_alarms_triggered \in Nat
      BY <1>10 DEF PushBack, TypeOK
  <2>5. /\ active_alarms' \in [DOMAIN active_alarms' -> Alarm]
        /\ DOMAIN active_alarms' \subseteq 1..total_alarms_triggered'
      BY <1>10, <2>3, <2>4 DEF PushBack, TypeOK
  <2>6. DOMAIN copy' \subseteq 1..total_alarms_triggered'
      BY <1>10, <2>4 DEF PushBack, TypeOK
  <2>7. copy' \in [DOMAIN copy' -> Alarm] /\ alarms_mutex' \in Threads \cup {NoThread}
      BY <1>10 DEF PushBack, TypeOK
  <2>8. UNCHANGED <<sensorVars, serverVars, alarm_id_counter>>
      BY <1>10 DEF PushBack
  <2>9. total_alarms_triggered' \in Nat
      BY <2>4
  <2> HIDE DEF sensorVars, serverVars
  <2>10. /\ reading' \in [Sensors -> Int]
         /\ monitor' \in [Sensors -> BOOLEAN]
         /\ service_enabled' \in BOOLEAN
         /\ total_sensor_updates' \in Int /\ updates' \in Nat
         /\ alarm_id_counter' \in Nat
         /\ published' \in [reading : [Sensors -> Int], count : Nat \cup {TornSize},
                             service_enabled : BOOLEAN]
         /\ mapped' \in BOOLEAN
         /\ monitoring_running' \in BOOLEAN
      BY <2>8 DEF TypeOK, sensorVars, serverVars
  <2> QED BY <2>2, <2>5, <2>6, <2>7, <2>9, <2>10 DEF TypeOK, PcOK
<1>11. ASSUME LoopTop PROVE TypeOK'
  <2>1. PcOK'
      BY <1>11, GotoType DEF LoopTop, Labels, CommonLabels, Threads
  <2> QED BY <1>11, <2>1 DEF LoopTop, TypeOK, PcOK
<1>12. ASSUME PublishReading PROVE TypeOK'
  <2>1. frame' \in [Threads -> Frame] /\ PcOK'
      BY <1>12, NextSensorType DEF PublishReading, Labels, CommonLabels, Threads
  <2>2. Sensor("monitoring") \in Sensors
      BY SensorType DEF Threads
  <2> QED BY <1>12, <2>1, <2>2 DEF PublishReading, TypeOK, PcOK
<1>13. ASSUME PublishCount PROVE TypeOK'
  <2>1. PcOK'
      BY <1>13, GotoType DEF PublishCount, Labels, CommonLabels, Threads
  <2> QED BY <1>13, <2>1, SizeIsNat DEF PublishCount, TypeOK, PcOK
<1>14. ASSUME PublishService PROVE TypeOK'
  <2>1. PcOK'
      BY <1>14, GotoType DEF PublishService, Labels, CommonLabels, Threads
  <2> QED BY <1>14, <2>1 DEF PublishService, TypeOK, PcOK
<1>15. ASSUME SleepOver PROVE TypeOK'
  <2>1. PcOK'
      BY <1>15, GotoType DEF SleepOver, Labels, CommonLabels, Threads
  <2> QED BY <1>15, <2>1 DEF SleepOver, TypeOK, PcOK
<1>16. ASSUME HandleService \/ HandleConfigSet PROVE TypeOK'
  <2>1. monitor' \in [Sensors -> BOOLEAN] /\ service_enabled' \in BOOLEAN
      BY <1>16 DEF HandleService, HandleConfigSet, TypeOK
  <2> QED BY <1>16, <2>1 DEF HandleService, HandleConfigSet, TypeOK
<1>17. ASSUME HandleAlarmAck PROVE TypeOK'
  <2>1. PcOK'
      BY <1>17, GotoType DEF HandleAlarmAck, Labels, CommonLabels, Threads
  <2>2. PICK id \in 1..alarm_id_counter : frame' = [frame EXCEPT !["main"].id = id]
      BY <1>17 DEF HandleAlarmAck
  <2>3. frame \in [Threads -> Frame] /\ id \in Nat /\ "main" \in Threads
      BY DEF TypeOK, Threads
  <2>4. frame["main"] \in Frame /\ [frame["main"] EXCEPT !.id = id] \in Frame
      BY <2>3 DEF Frame
  <2>5. frame' \in [Threads -> Frame]
      BY <2>2, <2>3, <2>4
  <2> QED BY <1>17, <2>1, <2>5 DEF HandleAlarmAck, TypeOK, PcOK
<1>18. ASSUME HandleOther PROVE TypeOK'
  <2>1. PICK c \in DOMAIN FirstStep : Goto("main", FirstStep[c])
      BY <1>18 DEF HandleOther
  <2>2. FirstStep[c] \in Labels("main") /\ "main" \in Threads
      BY DEF FirstStep, Labels, CommonLabels, Threads
  <2>3. PcOK'
      BY <2>1, <2>2, GotoType
  <2> QED BY <1>18, <2>3 DEF HandleOther, TypeOK, PcOK
<1>19. ASSUME AcknowledgeAlarm PROVE TypeOK'
  <2>1. PcOK'
      BY <1>19, GotoType DEF AcknowledgeAlarm, Labels, CommonLabels, Threads
  <2>2. frame' \in [Threads -> Frame]
      BY <1>19, FrameAtType DEF AcknowledgeAlarm, TypeOK
  <2>3. /\ DOMAIN active_alarms' = DOMAIN active_alarms
        /\ active_alarms' \in [DOMAIN active_alarms -> Alarm]
    <3>1. active_alarms \in [DOMAIN active_alarms -> Alarm]
        BY DEF TypeOK
    <3>2. CASE UNCHANGED active_alarms
        BY <3>1, <3>2
    <3>3. ASSUME NEW k \in DOMAIN active_alarms,
                 active_alarms' = [active_alarms EXCEPT ![k].acknowledged = TRUE]
          PROVE  /\ DOMAIN active_alarms' = DOMAIN active_alarms
                 /\ active_alarms' \in [DOMAIN active_alarms -> Alarm]
      <4>1. [active_alarms[k] EXCEPT !.acknowledged = TRUE] \in Alarm
          BY <3>1 DEF Alarm
      <4> QED BY <3>1, <3>3, <4>1
    <3> QED BY <1>19, <3>2, <3>3 DEF AcknowledgeAlarm, WithId
  <2> QED BY <1>19, <2>1, <2>2, <2>3 DEF AcknowledgeAlarm, TypeOK, PcOK
<1>20. ASSUME RemoveIf PROVE TypeOK'
  <2>1. PcOK'
      BY <1>20, GotoType DEF RemoveIf, Labels, CommonLabels, Threads
  <2>2. /\ DOMAIN copy' \subseteq DOMAIN active_alarms
        /\ copy' \in [DOMAIN copy' -> Alarm]
      BY <1>20 DEF RemoveIf, Restrict, TypeOK
  <2> QED BY <1>20, <2>1, <2>2 DEF RemoveIf, TypeOK, PcOK
<1>21. ASSUME Erase PROVE TypeOK'
  <2>1. PcOK'
      BY <1>21, GotoType DEF Erase, Labels, CommonLabels, Threads
  <2> QED BY <1>21, <2>1 DEF Erase, TypeOK, PcOK, NoAlarms
<1>22. ASSUME GetActiveAlarms PROVE TypeOK'
  <2>1. PcOK'
      BY <1>22, GotoType DEF GetActiveAlarms, Labels, CommonLabels, Threads
  <2> QED BY <1>22, <2>1 DEF GetActiveAlarms, TypeOK, PcOK
<1>23. ASSUME Reply PROVE TypeOK'
  <2>1. PcOK'
      BY <1>23, GotoType DEF Reply, Labels, CommonLabels, Threads
  <2> QED BY <1>23, <2>1 DEF Reply, TypeOK, PcOK, NoAlarms
<1>24. ASSUME StopMonitoring \/ Join \/ Unmap PROVE TypeOK'
  <2>1. PcOK'
      BY <1>24, GotoType
         DEF StopMonitoring, Join, Unmap, Labels, CommonLabels, Threads
  <2> QED BY <1>24, <2>1 DEF StopMonitoring, Join, Unmap, TypeOK, PcOK
<1>25. CASE UNCHANGED vars
    BY <1>25 DEF vars, TypeOK
<1> QED
    BY <1>1, <1>2, <1>3, <1>4, <1>5, <1>6, <1>7, <1>8, <1>9, <1>10, <1>11, <1>12,
       <1>13, <1>14, <1>15, <1>16, <1>17, <1>18, <1>19, <1>20, <1>21, <1>22,
       <1>23, <1>24, <1>25
       DEF Next, Shared, monitoringLoop, execute, finish

\* The initial state has the types.
LEMMA InitType == Init => TypeOK
<1> SUFFICES ASSUME Init PROVE TypeOK
    OBVIOUS
<1>1. frame \in [Threads -> Frame]
  <2>1. Len(SensorOrder) \in Nat /\ Len(SensorOrder) >= 1
      BY MonitoringAssumption
  <2> QED BY <2>1 DEF Init, Frame, FrameAt
<1>2. /\ pc \in [Threads -> UNION {Labels(u) : u \in Threads}]
      /\ \A t \in Threads : pc[t] \in Labels(t)
  <2>1. \A t \in Threads : pc[t] \in Labels(t)
      BY DEF Init, Labels, CommonLabels, Threads
  <2> QED BY <2>1 DEF Init
<1>3. reading \in [Sensors -> Int] /\ monitor \in [Sensors -> BOOLEAN]
    BY MonitoringAssumption DEF Init
<1>4. published \in [reading : [Sensors -> Int], count : Nat \cup {TornSize},
                      service_enabled : BOOLEAN]
    BY DEF Init
<1>5. /\ active_alarms \in [DOMAIN active_alarms -> Alarm]
      /\ DOMAIN active_alarms \subseteq 1..total_alarms_triggered
      /\ copy \in [DOMAIN copy -> Alarm]
      /\ DOMAIN copy \subseteq 1..total_alarms_triggered
    BY DEF Init, NoAlarms
<1> QED
    BY <1>1, <1>2, <1>3, <1>4, <1>5 DEF Init, TypeOK, NoThread

\* The variables of the monitoring subsystem keep their types, and the vector
\* holds no more than was ever pushed.
THEOREM TypeCorrect == Spec => []TypeOK
<1>1. Init => TypeOK
    BY InitType
<1>2. TypeOK /\ [Next]_vars => TypeOK'
    BY TypeStep
<1> QED
    BY <1>1, <1>2, PTL DEF Spec

-----------------------------------------------------------------------------
(* The alarm store.                                                         *)

\* The labels at which StoreInv says something about the thread.
StoreLabels ==
    {"stamp", "push", "ack", "removeIf", "erase", "list", "recount",
     "recountLock", "replyClear"}

Others(t) ==
    \A u \in Threads \ {t} : pc'[u] = pc[u] /\ frame'[u] = frame[u]

\* The invariant of the store holds initially.
LEMMA InitStore == Init => StoreInv
<1> SUFFICES ASSUME Init PROVE StoreInv
    OBVIOUS
<1>1. TypeOK
    BY InitType
<1>2. MutexHeld /\ IdIsOrdinal /\ CountersInStep
    BY DEF Init, MutexHeld, IdIsOrdinal, CountersInStep, InSection, Threads,
           NoThread, NoAlarms
<1>3. SurvivorsCurrent /\ NothingAcknowledged /\ ClearReplyHonest
    BY DEF Init, SurvivorsCurrent, NothingAcknowledged, ClearReplyHonest, Threads
<1> QED BY <1>1, <1>2, <1>3 DEF StoreInv

\* A step of one thread that stays outside the store keeps the invariant.
LEMMA OutsideStep ==
    ASSUME StoreInv, TypeOK', NEW t \in Threads, Others(t),
           UNCHANGED <<storeVars, copy>>,
           pc[t] \notin StoreLabels, pc'[t] \notin StoreLabels
    PROVE  StoreInv'
<1>1. \A u \in Threads : InSection(u)' <=> InSection(u)
    BY DEF Others, InSection, StoreLabels
<1>2. MutexHeld' /\ IdIsOrdinal'
    BY <1>1 DEF StoreInv, MutexHeld, IdIsOrdinal, storeVars
<1>3. CountersInStep'
    BY DEF StoreInv, CountersInStep, Others, StoreLabels, storeVars
<1>4. SurvivorsCurrent'
    BY DEF StoreInv, SurvivorsCurrent, Unacknowledged, Others, StoreLabels,
           storeVars, Threads
<1>5. NothingAcknowledged' /\ ClearReplyHonest'
    BY DEF StoreInv, NothingAcknowledged, ClearReplyHonest, Others, StoreLabels,
           storeVars, Threads
<1> QED BY <1>2, <1>3, <1>4, <1>5 DEF StoreInv

\* A jump of one thread leaves the other where it is.
LEMMA GotoOthers ==
    ASSUME TypeOK, NEW t \in Threads, NEW label, Goto(t, label),
           \A u \in Threads \ {t} : frame'[u] = frame[u]
    PROVE  Others(t) /\ pc'[t] = label
BY DEF TypeOK, Goto, Others

\* Going on to the next sensor leaves the other thread where it is.
LEMMA NextSensorOthers ==
    ASSUME TypeOK, NEW t \in Threads, NEW again, NEW label,
           NextSensor(t, again, label)
    PROVE  Others(t) /\ pc'[t] \in {again, label}
<1>1. Goto(t, label) \/ Goto(t, again)
    BY DEF NextSensor
<1>2. \A u \in Threads \ {t} : frame'[u] = frame[u]
    BY DEF NextSensor, TypeOK
<1> QED BY <1>1, <1>2, GotoOthers

\* The steps of the shared functions outside the mutex keep the invariant.
LEMMA SharedOutside ==
    ASSUME StoreInv, TypeOK', NEW t \in Threads,
           \/ DrawSensor(t) \/ DrawAnomaly(t) \/ CountRead(t) \/ CountWrite(t)
           \/ TestMonitorFlag(t) \/ Compare(t) \/ LoadArgument(t)
    PROVE  StoreInv'
<1>0. TypeOK
    BY DEF StoreInv
<1>1. CASE DrawSensor(t)
    BY <1>0, <1>1, OutsideStep, NextSensorOthers, GotoOthers
       DEF DrawSensor, StoreLabels
<1>2. CASE DrawAnomaly(t)
    BY <1>0, <1>2, OutsideStep, NextSensorOthers DEF DrawAnomaly, StoreLabels
<1>3. CASE CountRead(t)
  <2>1. \A u \in Threads \ {t} : frame'[u] = frame[u]
      BY <1>0, <1>3 DEF CountRead, TypeOK
  <2> QED BY <1>0, <1>3, <2>1, OutsideStep, GotoOthers DEF CountRead, StoreLabels
<1>4. CASE CountWrite(t)
  <2>1. \A u \in Threads \ {t} : frame'[u] = frame[u]
      BY <1>0, <1>4 DEF CountWrite, TypeOK
  <2> QED BY <1>0, <1>4, <2>1, OutsideStep, GotoOthers
          DEF CountWrite, AfterUpdate, StoreLabels
<1>5. CASE TestMonitorFlag(t)
    BY <1>0, <1>5, OutsideStep, NextSensorOthers, GotoOthers
       DEF TestMonitorFlag, AfterCheck, StoreLabels
<1>6. CASE Compare(t)
  <2>1. CASE Goto(t, "argument") /\ UNCHANGED frame
      BY <1>0, <1>6, <2>1, OutsideStep, GotoOthers DEF Compare, StoreLabels
  <2>2. CASE frame' = [frame EXCEPT ![t].branch = @ + 1] /\ UNCHANGED pc
    <3>1. Others(t)
        BY <1>0, <2>2 DEF Others, TypeOK
    <3> QED BY <1>6, <2>2, <3>1, OutsideStep DEF Compare, StoreLabels
  <2>3. CASE NextSensor(t, "test", AfterCheck(t))
      BY <1>0, <1>6, <2>3, OutsideStep, NextSensorOthers
         DEF Compare, AfterCheck, StoreLabels
  <2> QED BY <1>6, <2>1, <2>2, <2>3 DEF Compare
<1>7. CASE LoadArgument(t)
  <2>1. \A u \in Threads \ {t} : frame'[u] = frame[u]
      BY <1>0, <1>7 DEF LoadArgument, TypeOK
  <2> QED BY <1>0, <1>7, <2>1, OutsideStep, GotoOthers
          DEF LoadArgument, StoreLabels
<1> QED BY <1>1, <1>2, <1>3, <1>4, <1>5, <1>6, <1>7

\* The steps of monitoringLoop itself keep the invariant.
LEMMA LoopOutside ==
    ASSUME StoreInv, TypeOK', monitoringLoop PROVE StoreInv'
<1>0. TypeOK /\ "monitoring" \in Threads
    BY DEF StoreInv, Threads
<1>1. CASE LoopTop
    BY <1>0, <1>1, OutsideStep, GotoOthers DEF LoopTop, StoreLabels
<1>2. CASE PublishReading
    BY <1>0, <1>2, OutsideStep, NextSensorOthers DEF PublishReading, StoreLabels
<1>3. CASE PublishCount
    BY <1>0, <1>3, OutsideStep, GotoOthers DEF PublishCount, StoreLabels
<1>4. CASE PublishService
    BY <1>0, <1>4, OutsideStep, GotoOthers DEF PublishService, StoreLabels
<1>5. CASE SleepOver
    BY <1>0, <1>5, OutsideStep, GotoOthers DEF SleepOver, StoreLabels
<1> QED BY <1>1, <1>2, <1>3, <1>4, <1>5 DEF monitoringLoop

\* The steps of the main thread outside the mutex keep the invariant.
LEMMA CommandOutside ==
    ASSUME StoreInv, TypeOK', execute \/ StopMonitoring \/ Join \/ Unmap
    PROVE  StoreInv'
<1>0. TypeOK /\ "main" \in Threads
    BY DEF StoreInv, Threads
<1>1. CASE HandleService \/ HandleConfigSet
    BY <1>0, <1>1, OutsideStep
       DEF HandleService, HandleConfigSet, Receive, StoreLabels, Others
<1>2. CASE HandleAlarmAck
  <2>1. \A u \in Threads \ {"main"} : frame'[u] = frame[u]
      BY <1>0, <1>2 DEF HandleAlarmAck, TypeOK
  <2> QED BY <1>0, <1>2, <2>1, OutsideStep, GotoOthers
          DEF HandleAlarmAck, Receive, StoreLabels
<1>3. CASE HandleOther
  <2>1. PICK c \in DOMAIN FirstStep : Goto("main", FirstStep[c])
      BY <1>3 DEF HandleOther
  <2>2. FirstStep[c] \notin StoreLabels
      BY DEF FirstStep, StoreLabels
  <2>3. Others("main") /\ pc'["main"] = FirstStep[c]
      BY <1>0, <1>3, <2>1, GotoOthers DEF HandleOther
  <2> QED BY <1>0, <1>3, <2>2, <2>3, OutsideStep
          DEF HandleOther, Receive, StoreLabels
<1>4. CASE StopMonitoring \/ Join \/ Unmap
    BY <1>0, <1>4, OutsideStep, GotoOthers
       DEF StopMonitoring, Join, Unmap, StoreLabels
<1> QED BY <1>1, <1>2, <1>3, <1>4 DEF execute

\* Taking the mutex keeps the invariant: nobody else is inside.
LEMMA LockStep ==
    ASSUME StoreInv, TypeOK', NEW t \in Threads, Lock(t) PROVE StoreInv'
<1>0. TypeOK /\ NoThread \notin Threads
    BY DEF StoreInv, Threads, NoThread
<1>1. /\ Others(t) /\ pc'[t] = LockedSection[pc[t]]
      /\ pc[t] \in {"lock", "ackLock", "clearLock", "listLock", "recountLock"}
      /\ alarms_mutex = NoThread /\ alarms_mutex' = t
      /\ UNCHANGED <<active_alarms, alarm_id_counter, total_alarms_triggered, frame, copy>>
    BY <1>0, GotoOthers DEF Lock, LockedSection
<1>2. /\ pc'[t] \in {"stamp", "ack", "removeIf", "list", "recount"}
      /\ pc'[t] = "recount" => pc[t] = "recountLock"
    BY <1>1 DEF LockedSection
<1>3. MutexHeld'
  <2>1. \A u \in Threads : ~InSection(u)
      BY <1>0, <1>1 DEF StoreInv, MutexHeld
  <2>2. InSection(t)'
      BY <1>2 DEF InSection
  <2>3. \A u \in Threads \ {t} : ~InSection(u)'
      BY <1>1, <2>1 DEF InSection, Others
  <2> QED BY <1>1, <2>2, <2>3 DEF MutexHeld
<1>4. IdIsOrdinal'
    BY <1>1 DEF StoreInv, IdIsOrdinal
<1>5. CountersInStep'
    BY <1>1, <1>2 DEF StoreInv, CountersInStep, Others
<1>6. SurvivorsCurrent'
    BY <1>1, <1>2 DEF StoreInv, SurvivorsCurrent, Unacknowledged, Others, Threads
<1>7. NothingAcknowledged' /\ ClearReplyHonest'
    BY <1>1, <1>2 DEF StoreInv, NothingAcknowledged, ClearReplyHonest, Others, Threads
<1> QED BY <1>3, <1>4, <1>5, <1>6, <1>7 DEF StoreInv

\* Inside the mutex no other thread is in a locked function.
LEMMA AloneInSection ==
    ASSUME StoreInv, NEW t \in Threads, InSection(t)
    PROVE  alarms_mutex = t /\ \A u \in Threads \ {t} : ~InSection(u)
BY DEF StoreInv, MutexHeld

\* Leaving the locked function releases the mutex.
LEMMA Unlocked ==
    ASSUME StoreInv, NEW t \in Threads, InSection(t), Others(t), ~InSection(t)',
           alarms_mutex' = NoThread
    PROVE  MutexHeld'
BY AloneInSection DEF MutexHeld, Others, InSection, Threads, NoThread

\* The first half of addAlarm keeps the invariant: it hands out the next ordinal.
LEMMA StampStep ==
    ASSUME StoreInv, TypeOK', NEW t \in Threads, StampId(t) PROVE StoreInv'
<1>0. TypeOK /\ InSection(t) /\ alarm_id_counter \in Nat /\ total_alarms_triggered \in Nat
    BY DEF StoreInv, StampId, InSection, TypeOK
<1>1. /\ pc[t] = "stamp" /\ pc' = [pc EXCEPT ![t] = "push"]
      /\ frame' = [frame EXCEPT ![t].id = alarm_id_counter]
      /\ alarm_id_counter' = alarm_id_counter + 1
      /\ UNCHANGED <<alarms_mutex, active_alarms, total_alarms_triggered, copy>>
    BY DEF StampId, Goto
<1>2. Others(t) /\ pc'[t] = "push" /\ frame'[t].id = alarm_id_counter
    BY <1>0, <1>1 DEF Others, TypeOK, Frame
<1>3. \A u \in Threads \ {t} : ~InSection(u)
    BY <1>0, AloneInSection
<1>4. MutexHeld'
    BY <1>0, <1>1, <1>2 DEF StoreInv, MutexHeld, InSection, Others
<1>5. IdIsOrdinal'
    BY <1>1 DEF StoreInv, IdIsOrdinal
<1>6. CountersInStep'
  <2>1. \A u \in Threads : pc[u] # "push"
      BY <1>1, <1>3 DEF InSection
  <2>2. alarm_id_counter = total_alarms_triggered + 1
      BY <2>1 DEF StoreInv, CountersInStep
  <2>3. \A u \in Threads \ {t} : pc'[u] # "push"
      BY <1>2, <2>1 DEF Others
  <2> QED BY <1>0, <1>1, <1>2, <2>2, <2>3 DEF CountersInStep
<1>7. SurvivorsCurrent' /\ NothingAcknowledged' /\ ClearReplyHonest'
    BY <1>1, <1>2 DEF StoreInv, SurvivorsCurrent, NothingAcknowledged,
                      ClearReplyHonest, Unacknowledged, Others, Threads
<1> QED BY <1>4, <1>5, <1>6, <1>7 DEF StoreInv

\* The second half of addAlarm keeps the invariant: id and ordinal agree.
LEMMA PushStep ==
    ASSUME StoreInv, TypeOK', NEW t \in Threads, PushBack(t) PROVE StoreInv'
<1> DEFINE k == total_alarms_triggered + 1
<1>0. TypeOK /\ InSection(t) /\ total_alarms_triggered \in Nat /\ frame[t].id = k
      /\ alarm_id_counter = total_alarms_triggered + 2
    BY DEF StoreInv, PushBack, InSection, TypeOK, CountersInStep
<1>1. /\ pc[t] = "push" /\ NextSensor(t, "test", AfterCheck(t))
      /\ active_alarms' = [j \in DOMAIN active_alarms \cup {k} |->
                             IF j = k THEN NewAlarm(t) ELSE active_alarms[j]]
      /\ total_alarms_triggered' = k /\ alarms_mutex' = NoThread
      /\ UNCHANGED <<alarm_id_counter, copy>>
    BY DEF PushBack
<1>2. Others(t) /\ pc'[t] \in {"test", "publish", "listLock"}
    BY <1>0, <1>1, NextSensorOthers DEF AfterCheck
<1>3. \A u \in Threads \ {t} : ~InSection(u)
    BY <1>0, AloneInSection
<1>4. MutexHeld'
    BY <1>0, <1>1, <1>2, Unlocked DEF InSection
<1>5. NewAlarm(t).id = k /\ ~NewAlarm(t).acknowledged
    BY <1>0 DEF NewAlarm
<1>6. IdIsOrdinal'
    BY <1>1, <1>5 DEF StoreInv, IdIsOrdinal
<1>7. CountersInStep'
  <2>1. \A u \in Threads : pc'[u] # "push"
      BY <1>2, <1>3 DEF Others, InSection
  <2> QED BY <1>0, <1>1, <2>1 DEF CountersInStep
<1>8. SurvivorsCurrent'
    BY <1>1, <1>2, <1>3 DEF SurvivorsCurrent, InSection, Others, Threads
<1>9. NothingAcknowledged' /\ ClearReplyHonest'
    BY <1>1, <1>2, <1>5 DEF StoreInv, NothingAcknowledged, ClearReplyHonest,
                            Others, Threads
<1> QED BY <1>4, <1>6, <1>7, <1>8, <1>9 DEF StoreInv

\* acknowledgeAlarm keeps the invariant.
LEMMA AcknowledgeStep ==
    ASSUME StoreInv, TypeOK', AcknowledgeAlarm PROVE StoreInv'
<1>0. TypeOK /\ "main" \in Threads /\ InSection("main")
    BY DEF StoreInv, AcknowledgeAlarm, InSection, Threads
<1>1. /\ pc["main"] = "ack" /\ pc' = [pc EXCEPT !["main"] = "idle"]
      /\ frame' = [frame EXCEPT !["main"] = FrameAt(1)]
      /\ alarms_mutex' = NoThread
      /\ UNCHANGED <<alarm_id_counter, total_alarms_triggered, copy>>
      /\ DOMAIN active_alarms' = DOMAIN active_alarms
      /\ \A j \in DOMAIN active_alarms : active_alarms'[j].id = active_alarms[j].id
  <2>1. active_alarms \in [DOMAIN active_alarms -> Alarm]
      BY <1>0 DEF TypeOK
  <2> QED BY <2>1 DEF AcknowledgeAlarm, Goto, Alarm
<1>2. Others("main") /\ pc'["main"] = "idle"
    BY <1>0, <1>1 DEF TypeOK, Others
<1>3. MutexHeld'
    BY <1>0, <1>1, <1>2, Unlocked DEF InSection
<1>4. IdIsOrdinal'
    BY <1>1 DEF StoreInv, IdIsOrdinal
<1>5. CountersInStep'
    BY <1>1, <1>2 DEF StoreInv, CountersInStep, Others
<1>6. SurvivorsCurrent' /\ NothingAcknowledged' /\ ClearReplyHonest'
    BY <1>2 DEF SurvivorsCurrent, NothingAcknowledged, ClearReplyHonest
<1> QED BY <1>3, <1>4, <1>5, <1>6 DEF StoreInv

\* remove_if keeps the invariant: the survivors are those of this vector.
LEMMA RemoveIfStep ==
    ASSUME StoreInv, TypeOK', RemoveIf PROVE StoreInv'
<1>0. TypeOK /\ "main" \in Threads
    BY DEF StoreInv, Threads
<1>1. Others("main") /\ pc'["main"] = "erase" /\ pc["main"] = "removeIf"
      /\ UNCHANGED <<storeVars, frame>>
    BY <1>0, GotoOthers DEF RemoveIf
<1>2. MutexHeld' /\ IdIsOrdinal'
    BY <1>1 DEF StoreInv, MutexHeld, IdIsOrdinal, InSection, Others, storeVars
<1>3. CountersInStep'
    BY <1>1 DEF StoreInv, CountersInStep, Others, storeVars
<1>4. SurvivorsCurrent' /\ NothingAcknowledged' /\ ClearReplyHonest'
    BY <1>1 DEF RemoveIf, SurvivorsCurrent, Unacknowledged, NothingAcknowledged,
                ClearReplyHonest, storeVars
<1> QED BY <1>2, <1>3, <1>4 DEF StoreInv

\* erase keeps the invariant: the vector has not changed since remove_if.
LEMMA EraseStep ==
    ASSUME StoreInv, TypeOK', Erase PROVE StoreInv'
<1>0. TypeOK /\ "main" \in Threads /\ InSection("main")
    BY DEF StoreInv, Erase, InSection, Threads
<1>1. /\ Others("main") /\ pc'["main"] = "recountLock" /\ pc["main"] = "erase"
      /\ active_alarms' = copy /\ alarms_mutex' = NoThread
      /\ UNCHANGED <<alarm_id_counter, total_alarms_triggered, frame>>
    BY <1>0, GotoOthers DEF Erase
<1>2. copy = Restrict(active_alarms, Unacknowledged)
    BY <1>1 DEF StoreInv, SurvivorsCurrent
<1>3. MutexHeld'
    BY <1>0, <1>1, Unlocked DEF InSection
<1>4. IdIsOrdinal'
    BY <1>1, <1>2 DEF StoreInv, IdIsOrdinal, Restrict, Unacknowledged
<1>5. CountersInStep'
    BY <1>1 DEF StoreInv, CountersInStep, Others
<1>6. SurvivorsCurrent' /\ NothingAcknowledged' /\ ClearReplyHonest'
    BY <1>1, <1>2 DEF SurvivorsCurrent, NothingAcknowledged, ClearReplyHonest,
                      Restrict, Unacknowledged
<1> QED BY <1>3, <1>4, <1>5, <1>6 DEF StoreInv

\* getActiveAlarms and the replies keep the invariant.
LEMMA CopyStep ==
    ASSUME StoreInv, TypeOK', GetActiveAlarms \/ Reply PROVE StoreInv'
<1>0. TypeOK /\ "main" \in Threads
    BY DEF StoreInv, Threads
<1>1. CASE GetActiveAlarms
  <2>1. /\ Others("main") /\ pc["main"] \in {"list", "recount"}
        /\ pc'["main"] = IF pc["main"] = "list" THEN "reply" ELSE "replyClear"
        /\ copy' = active_alarms /\ alarms_mutex' = NoThread
        /\ UNCHANGED <<active_alarms, alarm_id_counter, total_alarms_triggered, frame>>
      BY <1>0, <1>1, GotoOthers DEF GetActiveAlarms
  <2>2. MutexHeld'
      BY <1>0, <2>1, Unlocked DEF InSection
  <2>3. IdIsOrdinal' /\ CountersInStep'
      BY <2>1 DEF StoreInv, IdIsOrdinal, CountersInStep, Others
  <2>4. SurvivorsCurrent' /\ NothingAcknowledged' /\ ClearReplyHonest'
      BY <2>1 DEF StoreInv, SurvivorsCurrent, NothingAcknowledged, ClearReplyHonest
  <2> QED BY <2>2, <2>3, <2>4 DEF StoreInv
<1>2. CASE Reply
  <2>1. /\ Others("main") /\ pc["main"] \in {"reply", "replyClear"}
        /\ pc'["main"] = "idle"
        /\ UNCHANGED <<storeVars, frame>>
      BY <1>0, <1>2, GotoOthers DEF Reply
  <2>2. MutexHeld' /\ IdIsOrdinal' /\ CountersInStep'
      BY <2>1 DEF StoreInv, MutexHeld, IdIsOrdinal, CountersInStep, InSection,
                  Others, storeVars
  <2>3. SurvivorsCurrent' /\ NothingAcknowledged' /\ ClearReplyHonest'
      BY <2>1 DEF SurvivorsCurrent, NothingAcknowledged, ClearReplyHonest
  <2> QED BY <2>2, <2>3 DEF StoreInv
<1> QED BY <1>1, <1>2

\* Every step keeps the invariant of the store.
LEMMA StoreStep == StoreInv /\ [Next]_vars => StoreInv'
<1> SUFFICES ASSUME StoreInv, [Next]_vars PROVE StoreInv'
    OBVIOUS
<1>1. TypeOK /\ TypeOK'
    BY TypeStep DEF StoreInv
<1>2. ASSUME NEW t \in Threads, Shared(t) PROVE StoreInv'
    BY <1>1, <1>2, SharedOutside, LockStep, StampStep, PushStep DEF Shared
<1>3. CASE monitoringLoop
    BY <1>1, <1>3, LoopOutside
<1>4. CASE execute \/ StopMonitoring \/ Join \/ Unmap
    BY <1>1, <1>4, CommandOutside
<1>5. CASE finish
    BY <1>1, <1>5, AcknowledgeStep, RemoveIfStep, EraseStep, CopyStep DEF finish
<1>6. CASE UNCHANGED vars
  <2>1. UNCHANGED <<alarms_mutex, active_alarms, alarm_id_counter,
                    total_alarms_triggered, pc, frame, copy>>
      BY <1>6 DEF vars, storeVars
  <2> QED BY <1>1, <2>1
          DEF StoreInv, MutexHeld, IdIsOrdinal, CountersInStep, SurvivorsCurrent,
              NothingAcknowledged, ClearReplyHonest, Unacknowledged, InSection
<1> QED BY <1>2, <1>3, <1>4, <1>5, <1>6 DEF Next

\* The strengthened invariant of the store.
THEOREM StoreCorrect == Spec => []StoreInv
<1> QED
    BY InitStore, StoreStep, PTL DEF Spec

\* The ids of the stored alarms grow along the vector, so MONITOR ALARM ACK
\* names one alarm, whichever threads added alarms in whichever order.
THEOREM IdsOrdered == Spec => []AlarmIdsOrdered
<1>1. StoreInv => AlarmIdsOrdered
    BY DEF StoreInv, IdIsOrdinal, AlarmIdsOrdered
<1> QED BY <1>1, StoreCorrect, PTL

\* Whenever the mutex is free, the ids handed out are the alarms counted.
THEOREM CountersCorrect == Spec => []CountersAgree
<1>1. StoreInv => CountersAgree
  <2> SUFFICES ASSUME StoreInv, alarms_mutex = NoThread
               PROVE  alarm_id_counter = total_alarms_triggered + 1
      BY DEF CountersAgree
  <2>1. \A t \in Threads : pc[t] # "push"
      BY DEF StoreInv, MutexHeld, InSection, Threads, NoThread
  <2> QED BY <2>1 DEF StoreInv, CountersInStep
<1> QED BY <1>1, StoreCorrect, PTL

\* The remainder MONITOR CLEAR reports holds no acknowledged alarm.
THEOREM ClearHonest == Spec => []ClearReplyHonest
<1>1. StoreInv => ClearReplyHonest
    BY DEF StoreInv
<1> QED BY <1>1, StoreCorrect, PTL

KeepsUnacknowledged ==
    \A k \in DOMAIN active_alarms :
        IF k \in DOMAIN active_alarms'
        THEN active_alarms'[k] \in
               {active_alarms[k], [active_alarms[k] EXCEPT !.acknowledged = TRUE]}
        ELSE active_alarms[k].acknowledged

\* Every step keeps the alarms that nobody acknowledged.
LEMMA KeepsStep ==
    ASSUME StoreInv, [Next]_vars PROVE [KeepsUnacknowledged]_active_alarms
<1>1. ASSUME NEW t \in Threads, PushBack(t) PROVE KeepsUnacknowledged
  <2>1. \A k \in DOMAIN active_alarms : k # total_alarms_triggered + 1
      BY DEF StoreInv, TypeOK
  <2> QED BY <1>1, <2>1 DEF PushBack, KeepsUnacknowledged
<1>2. CASE AcknowledgeAlarm
  <2>1. active_alarms \in [DOMAIN active_alarms -> Alarm]
      BY DEF StoreInv, TypeOK
  <2> QED BY <1>2, <2>1 DEF AcknowledgeAlarm, KeepsUnacknowledged, WithId
<1>3. CASE Erase
  <2>1. active_alarms' = Restrict(active_alarms, Unacknowledged)
      BY <1>3 DEF Erase, StoreInv, SurvivorsCurrent
  <2> QED BY <2>1 DEF Restrict, Unacknowledged, KeepsUnacknowledged
<1>4. \/ \E t \in Threads : PushBack(t)
      \/ AcknowledgeAlarm \/ Erase \/ UNCHANGED active_alarms
    BY DEF Next, Shared, monitoringLoop, execute, finish, vars, storeVars,
           DrawSensor, DrawAnomaly, CountRead, CountWrite, TestMonitorFlag, Compare,
           LoadArgument, Lock, StampId, LoopTop, PublishReading, PublishCount,
           PublishService, SleepOver, HandleService, HandleConfigSet,
           HandleAlarmAck, HandleOther, RemoveIf, GetActiveAlarms, Reply,
           StopMonitoring, Join, Unmap
<1> QED BY <1>1, <1>2, <1>3, <1>4

\* No interleaving of the two threads loses an alarm that was not
\* acknowledged, or rewrites one.
THEOREM AlarmsKept == Spec => AlarmsLeaveAcknowledged
<1>1. StoreInv /\ [Next]_vars => [KeepsUnacknowledged]_active_alarms
    BY KeepsStep
<1>2. Spec => [][KeepsUnacknowledged]_active_alarms
    BY <1>1, StoreCorrect, PTL DEF Spec
<1> QED BY <1>2 DEF AlarmsLeaveAcknowledged, KeepsUnacknowledged

-----------------------------------------------------------------------------
(* The destructor of Server.                                                *)

\* The functions of SystemData neither end a thread nor touch the mapping.
LEMMA SharedStays ==
    ASSUME TypeOK, NEW t \in Threads, Shared(t)
    PROVE  /\ pc[t] \in CommonLabels \cup DOMAIN LockedSection
           /\ \A u \in Threads \ {t} : pc'[u] = pc[u]
           /\ pc'[t] \in CommonLabels \cup {"publish", "idle"} \cup
                         DOMAIN LockedSection \cup
                         {"ack", "removeIf", "list", "recount"}
           /\ UNCHANGED mapped
<1> USE DEF CommonLabels, LockedSection, serverVars
<1>1. CASE DrawSensor(t)
    BY <1>1, NextSensorOthers DEF DrawSensor, Goto, TypeOK, Others
<1>2. CASE DrawAnomaly(t)
    BY <1>2, NextSensorOthers DEF DrawAnomaly, Others
<1>3. CASE CountRead(t) \/ LoadArgument(t) \/ StampId(t)
    BY <1>3 DEF CountRead, LoadArgument, StampId, Goto, TypeOK
<1>4. CASE CountWrite(t)
    BY <1>4 DEF CountWrite, AfterUpdate, Goto, TypeOK
<1>5. CASE TestMonitorFlag(t)
    BY <1>5, NextSensorOthers DEF TestMonitorFlag, AfterCheck, Goto, TypeOK, Others
<1>6. CASE Compare(t)
  <2>1. CASE UNCHANGED pc
      BY <1>6, <2>1 DEF Compare
  <2>2. CASE Goto(t, "argument")
      BY <1>6, <2>2 DEF Compare, Goto, TypeOK
  <2>3. CASE NextSensor(t, "test", AfterCheck(t))
      BY <1>6, <2>3, NextSensorOthers DEF Compare, AfterCheck, Others
  <2> QED BY <1>6, <2>1, <2>2, <2>3 DEF Compare
<1>7. CASE Lock(t)
    BY <1>7 DEF Lock, Goto, TypeOK
<1>8. CASE PushBack(t)
    BY <1>8, NextSensorOthers DEF PushBack, AfterCheck, Others
<1> QED BY <1>1, <1>2, <1>3, <1>4, <1>5, <1>6, <1>7, <1>8 DEF Shared

\* Every step keeps the monitoring thread ended once it was joined.
LEMMA StopStep ==
    ASSUME TypeOK, StopInv, [Next]_vars PROVE StopInv'
<1> USE DEF StopInv, serverVars
<1>0. \A t \in Threads : t \in {"monitoring", "main"}
    BY DEF Threads
<1>1. ASSUME NEW t \in Threads, Shared(t) PROVE StopInv'
    BY <1>0, <1>1, SharedStays DEF CommonLabels, LockedSection, Threads
<1>2. CASE monitoringLoop
  <2>1. /\ pc["monitoring"] # "done" /\ pc'["main"] = pc["main"] /\ UNCHANGED mapped
      BY <1>2, NextSensorOthers
         DEF monitoringLoop, LoopTop, PublishReading, PublishCount,
             PublishService, SleepOver, Goto, TypeOK, Threads, Others
  <2> QED BY <2>1
<1>3. CASE execute
  <2>1. /\ pc["main"] = "idle" /\ pc'["main"] \notin {"unmap", "exit"}
        /\ UNCHANGED mapped
      BY <1>3 DEF execute, HandleService, HandleConfigSet, HandleAlarmAck,
                  HandleOther, Receive, FirstStep, Goto, TypeOK, Threads
  <2> QED BY <2>1
<1>4. CASE finish
  <2>1. /\ pc["main"] \notin {"unmap", "exit"} /\ pc'["main"] \notin {"unmap", "exit"}
        /\ UNCHANGED mapped
      BY <1>4 DEF finish, AcknowledgeAlarm, RemoveIf, Erase, GetActiveAlarms,
                  Reply, Goto, TypeOK, Threads
  <2> QED BY <2>1
<1>5. CASE StopMonitoring \/ Join \/ Unmap
    BY <1>5 DEF StopMonitoring, Join, Unmap, Goto, TypeOK, Threads
<1>6. CASE UNCHANGED vars
    BY <1>6 DEF vars
<1> QED BY <1>1, <1>2, <1>3, <1>4, <1>5, <1>6 DEF Next

\* The shared memory is unmapped only after the thread that writes it ended.
THEOREM UnmapSafe == Spec => []NoWriteAfterUnmap
<1>1. Init => StopInv
    BY DEF Init, StopInv, Threads
<1>2. TypeOK /\ StopInv /\ [Next]_vars => StopInv'
    BY StopStep
<1>3. StopInv => NoWriteAfterUnmap
    BY DEF StopInv, NoWriteAfterUnmap
<1> QED BY <1>1, <1>2, <1>3, TypeCorrect, PTL DEF Spec

-----------------------------------------------------------------------------
(* Alarms and sensor values, when the monitoring thread alone runs          *)
(* updateMonitoringSensors and checkMonitoringThresholds.                   *)

QuietCommands == "UPDATE" \notin Commands /\ "CHECK" \notin Commands

\* The steps of the main thread then stay out of the two functions.
LEMMA MainStaysOut ==
    ASSUME TypeOK, QuietCommands, OnlyMonitoringChecks, [Next]_vars
    PROVE  OnlyMonitoringChecks'
<1> USE DEF OnlyMonitoringChecks, CommonLabels
<1>1. ASSUME Shared("main") PROVE OnlyMonitoringChecks'
  <2>1. Lock("main")
      BY <1>1 DEF Shared, DrawSensor, DrawAnomaly, CountRead, CountWrite,
                  TestMonitorFlag, Compare, LoadArgument, StampId, PushBack
  <2> QED BY <2>1 DEF Lock, LockedSection, Goto, TypeOK, Threads
<1>2. ASSUME Shared("monitoring") PROVE OnlyMonitoringChecks'
  <2>1. pc'["main"] = pc["main"]
      BY <1>2, SharedStays DEF Threads
  <2> QED BY <2>1
<1>3. CASE monitoringLoop
  <2>1. pc'["main"] = pc["main"]
      BY <1>3, NextSensorOthers
         DEF monitoringLoop, LoopTop, PublishReading, PublishCount,
             PublishService, SleepOver, Goto, TypeOK, Threads, Others
  <2> QED BY <2>1
<1>4. CASE HandleOther
  <2>1. PICK c \in DOMAIN FirstStep : c \in Commands /\ Goto("main", FirstStep[c])
      BY <1>4 DEF HandleOther, Receive
  <2>2. c \in {"CLEAR", "ALARMS"}
      BY <2>1 DEF QuietCommands, FirstStep
  <2> QED BY <2>1, <2>2 DEF FirstStep, Goto, TypeOK, Threads
<1>5. CASE HandleService \/ HandleConfigSet \/ HandleAlarmAck
    BY <1>5 DEF HandleService, HandleConfigSet, HandleAlarmAck, Goto, TypeOK, Threads
<1>6. CASE finish \/ StopMonitoring \/ Join \/ Unmap
    BY <1>6 DEF finish, AcknowledgeAlarm, RemoveIf, Erase, GetActiveAlarms, Reply,
                StopMonitoring, Join, Unmap, Goto, TypeOK, Threads
<1>7. CASE UNCHANGED vars
    BY <1>7 DEF vars
<1> QED BY <1>1, <1>2, <1>3, <1>4, <1>5, <1>6, <1>7 DEF Next, execute, Threads

\* Nothing but the monitoring thread's own steps disturbs what it has read.
LEMMA FitsOutside ==
    ASSUME TypeOK, ReadingFits("monitoring"), UNCHANGED reading,
           pc'["monitoring"] = pc["monitoring"],
           frame'["monitoring"] = frame["monitoring"]
    PROVE  ReadingFits("monitoring")'
BY DEF ReadingFits, Sensor

\* A step that leaves the visit of a sensor, or begins it, has nothing to keep.
LEMMA FitsFresh ==
    ASSUME pc'["monitoring"] \notin {"compare", "argument", "lock", "stamp", "push"},
           frame'["monitoring"].branch = 1
    PROVE  ReadingFits("monitoring")'
BY DEF ReadingFits

\* After a visit the monitoring thread has no comparison in hand.
LEMMA NextSensorFresh ==
    ASSUME TypeOK, NEW again, NEW label,
           again \notin {"compare", "argument", "lock", "stamp", "push"},
           label \notin {"compare", "argument", "lock", "stamp", "push"},
           NextSensor("monitoring", again, label)
    PROVE  ReadingFits("monitoring")'
<1>1. frame'["monitoring"].branch = 1
    BY DEF NextSensor, FrameAt, TypeOK, Threads
<1>2. pc'["monitoring"] \in {again, label}
    BY NextSensorOthers DEF Threads
<1> QED BY <1>1, <1>2, FitsFresh

\* The steps of the monitoring thread keep what it has found out about its sensor.
LEMMA FitsShared ==
    ASSUME TypeOK, ReadingFits("monitoring"), Shared("monitoring")
    PROVE  ReadingFits("monitoring")'
<1> DEFINE t == "monitoring"
<1> USE DEF sensorVars
<1>0. t \in Threads /\ frame[t] \in Frame
    BY DEF TypeOK, Threads
<1>1. CASE DrawSensor(t)
  <2>1. CASE NextSensor(t, "draw", "countRead")
      BY <2>1, NextSensorFresh
  <2>2. CASE Goto(t, "anomaly") /\ UNCHANGED frame
      BY <1>0, <1>1, <2>2, FitsFresh DEF DrawSensor, ReadingFits, Goto, TypeOK
  <2> QED BY <1>1, <2>1, <2>2 DEF DrawSensor
<1>2. CASE DrawAnomaly(t)
    BY <1>2, NextSensorFresh DEF DrawAnomaly
<1>3. CASE CountRead(t)
    BY <1>0, <1>3, FitsFresh DEF CountRead, ReadingFits, Goto, TypeOK, Frame
<1>4. CASE CountWrite(t)
    BY <1>0, <1>4, FitsFresh DEF CountWrite, AfterUpdate, FrameAt, Goto, TypeOK
<1>5. CASE TestMonitorFlag(t)
  <2>1. CASE NextSensor(t, "test", AfterCheck(t))
      BY <2>1, NextSensorFresh DEF AfterCheck
  <2>2. CASE Goto(t, "compare") /\ UNCHANGED frame
      BY <1>0, <1>5, <2>2 DEF TestMonitorFlag, ReadingFits, Goto, TypeOK
  <2> QED BY <1>5, <2>1, <2>2 DEF TestMonitorFlag
<1>6. CASE Compare(t)
  <2>1. CASE NextSensor(t, "test", AfterCheck(t))
      BY <2>1, NextSensorFresh DEF AfterCheck
  <2>2. CASE /\ Crosses(Sensor(t), frame[t].branch, reading[Sensor(t)])
             /\ Goto(t, "argument") /\ UNCHANGED frame
      BY <1>0, <1>6, <2>2 DEF Compare, ReadingFits, Goto, TypeOK, Sensor
  <2>3. CASE /\ ~Crosses(Sensor(t), frame[t].branch, reading[Sensor(t)])
             /\ frame' = [frame EXCEPT ![t].branch = @ + 1] /\ UNCHANGED pc
    <3>1. /\ frame'[t].branch = frame[t].branch + 1 /\ frame[t].branch \in Nat
          /\ frame'[t].at = frame[t].at
      <4>1. frame \in [Threads -> Frame]
          BY DEF TypeOK
      <4>2. frame'[t] = [frame[t] EXCEPT !.branch = @ + 1]
          BY <1>0, <2>3, <4>1
      <4> QED BY <1>0, <4>2 DEF Frame
    <3>2. pc[t] = "compare" /\ pc'[t] = "compare" /\ UNCHANGED reading
        BY <1>6, <2>3 DEF Compare
    <3>3. \A b \in 1..(frame'[t].branch - 1) : ~Crosses(Sensor(t), b, reading[Sensor(t)])
        BY <2>3, <3>1, <3>2 DEF ReadingFits
    <3> QED BY <3>1, <3>2, <3>3 DEF ReadingFits, Sensor
  <2> QED BY <1>6, <2>1, <2>2, <2>3 DEF Compare
<1>7. CASE LoadArgument(t)
  <2>1. /\ frame'[t].branch = frame[t].branch /\ frame'[t].at = frame[t].at
        /\ frame'[t].number = reading[Sensor(t)]
        /\ pc[t] = "argument" /\ pc'[t] = "lock" /\ UNCHANGED reading
      BY <1>0, <1>7 DEF LoadArgument, Goto, TypeOK, Frame
  <2> QED BY <2>1 DEF ReadingFits, Sensor
<1>8. CASE Lock(t)
  <2>1. /\ UNCHANGED <<reading, frame>>
        /\ pc[t] \in DOMAIN LockedSection /\ pc'[t] = LockedSection[pc[t]]
      BY <1>0, <1>8 DEF Lock, Goto, TypeOK
  <2>2. pc[t] \in {"lock", "ackLock", "clearLock", "listLock", "recountLock"}
      BY <2>1 DEF LockedSection
  <2>3. /\ pc[t] = "lock" => pc'[t] = "stamp"
        /\ pc[t] # "lock" => pc'[t] \in {"ack", "removeIf", "list", "recount"}
      BY <2>1, <2>2 DEF LockedSection
  <2> QED BY <2>1, <2>2, <2>3 DEF ReadingFits, Sensor
<1>9. CASE StampId(t)
  <2>1. /\ frame'[t].branch = frame[t].branch /\ frame'[t].at = frame[t].at
        /\ frame'[t].number = frame[t].number
        /\ pc[t] = "stamp" /\ pc'[t] = "push" /\ UNCHANGED reading
      BY <1>0, <1>9 DEF StampId, Goto, TypeOK, Frame
  <2> QED BY <2>1 DEF ReadingFits, Sensor
<1>10. CASE PushBack(t)
    BY <1>10, NextSensorFresh DEF PushBack, AfterCheck
<1> QED BY <1>1, <1>2, <1>3, <1>4, <1>5, <1>6, <1>7, <1>8, <1>9, <1>10 DEF Shared

\* With quiet commands every step keeps the recorded values justified.
LEMMA JustifiedStep ==
    ASSUME StoreInv, QuietCommands, JustifiedInv, [Next]_vars PROVE JustifiedInv'
<1>0. TypeOK /\ "monitoring" \in Threads /\ "main" \in Threads
    BY DEF StoreInv, Threads
<1>1. OnlyMonitoringChecks'
    BY <1>0, MainStaysOut DEF JustifiedInv
<1>2. ReadingFits("monitoring")'
  <2>1. CASE Shared("monitoring")
      BY <1>0, <2>1, FitsShared DEF JustifiedInv
  <2>2. CASE Lock("main")
      BY <1>0, <2>2, FitsOutside DEF Lock, Goto, TypeOK, JustifiedInv, sensorVars, Threads
  <2>3. ~DrawSensor("main") /\ ~DrawAnomaly("main") /\ ~CountRead("main")
        /\ ~CountWrite("main") /\ ~TestMonitorFlag("main") /\ ~Compare("main")
        /\ ~LoadArgument("main") /\ ~StampId("main") /\ ~PushBack("main")
      BY DEF JustifiedInv, OnlyMonitoringChecks, CommonLabels, DrawSensor,
             DrawAnomaly, CountRead, CountWrite, TestMonitorFlag, Compare,
             LoadArgument, StampId, PushBack
  <2>4. CASE monitoringLoop
    <3>1. CASE PublishReading
        BY <1>0, <3>1, NextSensorFresh DEF PublishReading
    <3>2. CASE LoopTop \/ PublishCount \/ PublishService \/ SleepOver
        BY <1>0, <3>2, FitsFresh
           DEF LoopTop, PublishCount, PublishService, SleepOver, Goto, TypeOK,
               JustifiedInv, ReadingFits
    <3> QED BY <2>4, <3>1, <3>2 DEF monitoringLoop
  <2>5. CASE execute \/ finish \/ StopMonitoring \/ Join \/ Unmap
    <3>1. /\ UNCHANGED reading /\ pc'["monitoring"] = pc["monitoring"]
          /\ frame'["monitoring"] = frame["monitoring"]
        BY <1>0, <2>5
           DEF execute, finish, HandleService, HandleConfigSet, HandleAlarmAck,
               HandleOther, AcknowledgeAlarm, RemoveIf, Erase, GetActiveAlarms,
               Reply, StopMonitoring, Join, Unmap, Goto, TypeOK, sensorVars
    <3> QED BY <1>0, <3>1, FitsOutside DEF JustifiedInv
  <2>6. CASE UNCHANGED vars
      BY <1>0, <2>6, FitsOutside DEF vars, sensorVars, JustifiedInv
  <2> QED BY <2>1, <2>2, <2>3, <2>4, <2>5, <2>6 DEF Next, Shared, Threads
<1>3. AlarmJustified'
  <2>1. CASE PushBack("monitoring")
    <3> DEFINE a == NewAlarm("monitoring")
    <3>1. /\ Crosses(a.sensor, a.branch, a.value)
          /\ \A b \in 1..(a.branch - 1) : ~Crosses(a.sensor, b, a.value)
        BY <2>1 DEF PushBack, NewAlarm, JustifiedInv, ReadingFits
    <3>2. active_alarms' = [j \in DOMAIN active_alarms \cup {total_alarms_triggered + 1} |->
                              IF j = total_alarms_triggered + 1 THEN a ELSE active_alarms[j]]
        BY <2>1 DEF PushBack
    <3> HIDE DEF a
    <3> QED BY <3>1, <3>2 DEF AlarmJustified, JustifiedInv
  <2>2. CASE \A t \in Threads : ~PushBack(t)
    <3>1. \/ AcknowledgeAlarm \/ Erase \/ UNCHANGED active_alarms
        BY <2>2
           DEF Next, Shared, monitoringLoop, execute, finish, vars, storeVars,
               DrawSensor, DrawAnomaly, CountRead, CountWrite, TestMonitorFlag,
               Compare, LoadArgument, Lock, StampId, LoopTop, PublishReading,
               PublishCount, PublishService, SleepOver, HandleService,
               HandleConfigSet, HandleAlarmAck, HandleOther, RemoveIf,
               GetActiveAlarms, Reply, StopMonitoring, Join, Unmap
    <3>2. CASE AcknowledgeAlarm
      <4>1. active_alarms \in [DOMAIN active_alarms -> Alarm]
          BY <1>0 DEF TypeOK
      <4>2. /\ DOMAIN active_alarms' = DOMAIN active_alarms
            /\ \A k \in DOMAIN active_alarms :
                 /\ active_alarms'[k].sensor = active_alarms[k].sensor
                 /\ active_alarms'[k].branch = active_alarms[k].branch
                 /\ active_alarms'[k].value = active_alarms[k].value
          BY <3>2, <4>1 DEF AcknowledgeAlarm, Alarm
      <4> QED BY <4>2 DEF AlarmJustified, JustifiedInv
    <3>3. CASE Erase
      <4>1. active_alarms' = Restrict(active_alarms, Unacknowledged)
          BY <3>3 DEF Erase, StoreInv, SurvivorsCurrent
      <4> QED BY <4>1 DEF Restrict, Unacknowledged, AlarmJustified, JustifiedInv
    <3>4. CASE UNCHANGED active_alarms
        BY <3>4 DEF AlarmJustified, JustifiedInv
    <3> QED BY <3>1, <3>2, <3>3, <3>4
  <2>3. ~PushBack("main")
      BY DEF JustifiedInv, OnlyMonitoringChecks, CommonLabels, PushBack
  <2> QED BY <2>1, <2>2, <2>3 DEF Threads
<1> QED BY <1>1, <1>2, <1>3 DEF JustifiedInv

\* As long as no client sends MONITOR UPDATE or MONITOR CHECK, the value of
\* every alarm crosses the threshold it names and none of a higher priority.
THEOREM AlarmsJustified ==
    ASSUME QuietCommands PROVE Spec => []AlarmJustified
<1>1. Init => JustifiedInv
    BY DEF Init, JustifiedInv, OnlyMonitoringChecks, CommonLabels, ReadingFits,
           AlarmJustified, NoAlarms, FrameAt, Threads
<1>2. QuietCommands /\ StoreInv /\ JustifiedInv /\ [Next]_vars => JustifiedInv'
    BY JustifiedStep
<1>3. JustifiedInv => AlarmJustified
    BY DEF JustifiedInv
<1> QED BY <1>1, <1>2, <1>3, StoreCorrect, PTL DEF Spec

-----------------------------------------------------------------------------
(* The snapshot in shared memory, when also no client sends MONITOR CLEAR.  *)

\* How much of the snapshot is of this round.
SnapshotUpTo(n) ==
    \A i \in 1..n : published.reading[SensorOrder[i]] = reading[SensorOrder[i]]

CountPublished == published.count = Cardinality(DOMAIN active_alarms)

CoherentInv ==
    /\ OnlyMonitoringChecks
    /\ pc["main"] \notin {"clearLock", "removeIf", "erase"}
    /\ pc["monitoring"] = "publish" => SnapshotUpTo(frame["monitoring"].at - 1)
    /\ pc["monitoring"] \in {"publishCount", "publishService"} =>
          published.reading = reading
    /\ pc["monitoring"] = "publishService" => CountPublished
    /\ pc["monitoring"] \in {"sleep", "top"} /\ total_sensor_updates > 0 =>
          published.reading = reading /\ CountPublished

\* The main thread clears nothing then.
LEMMA MainClearsNothing ==
    ASSUME TypeOK, "CLEAR" \notin Commands, [Next]_vars,
           pc["main"] \notin {"clearLock", "removeIf", "erase"}
    PROVE  pc'["main"] \notin {"clearLock", "removeIf", "erase"}
<1>1. CASE Shared("main")
  <2>1. CASE Lock("main")
    <3>1. /\ pc["main"] \in {"lock", "ackLock", "listLock", "recountLock"}
          /\ pc'["main"] = LockedSection[pc["main"]]
        BY <2>1 DEF Lock, LockedSection, Goto, TypeOK, Threads
    <3> QED BY <3>1 DEF LockedSection
  <2>2. CASE NextSensor("main", "draw", "countRead")
             \/ NextSensor("main", "test", AfterCheck("main"))
      BY <2>2 DEF NextSensor, AfterCheck, Goto, TypeOK, Threads
  <2> QED BY <1>1, <2>1, <2>2
       DEF Shared, DrawSensor, DrawAnomaly, CountRead, CountWrite, TestMonitorFlag,
           Compare, LoadArgument, StampId, PushBack, AfterUpdate, Goto, TypeOK,
           Threads
<1>2. CASE Shared("monitoring")
    BY <1>2, SharedStays DEF Threads
<1>3. CASE monitoringLoop
  <2>1. pc'["main"] = pc["main"]
      BY <1>3, NextSensorOthers
         DEF monitoringLoop, LoopTop, PublishReading, PublishCount,
             PublishService, SleepOver, Goto, TypeOK, Threads, Others
  <2> QED BY <2>1
<1>4. CASE HandleOther
  <2>1. PICK c \in DOMAIN FirstStep : c \in Commands /\ Goto("main", FirstStep[c])
      BY <1>4 DEF HandleOther, Receive
  <2>2. c \in {"UPDATE", "CHECK", "ALARMS"}
      BY <2>1 DEF FirstStep
  <2> QED BY <2>1, <2>2 DEF FirstStep, Goto, TypeOK, Threads
<1>5. CASE HandleService \/ HandleConfigSet \/ HandleAlarmAck
    BY <1>5 DEF HandleService, HandleConfigSet, HandleAlarmAck, Goto, TypeOK, Threads
<1>6. CASE finish \/ StopMonitoring \/ Join \/ Unmap
    BY <1>6 DEF finish, AcknowledgeAlarm, RemoveIf, Erase, GetActiveAlarms, Reply,
                StopMonitoring, Join, Unmap, Goto, TypeOK, Threads
<1>7. CASE UNCHANGED vars
    BY <1>7 DEF vars
<1> QED BY <1>1, <1>2, <1>3, <1>4, <1>5, <1>6, <1>7 DEF Next, execute, Threads

\* The monitoring thread begins to publish at the first sensor.
LEMMA PublishesFromFirst ==
    ASSUME TypeOK, Shared("monitoring"), pc'["monitoring"] = "publish"
    PROVE  frame'["monitoring"].at = 1
<1> DEFINE t == "monitoring"
<1>0. t \in Threads
    BY DEF Threads
<1>1. ASSUME NEW again, again # "publish", NEW label, NextSensor(t, again, label)
      PROVE  frame'[t].at = 1
  <2>1. frame[t].at = Len(SensorOrder)
      BY <1>0, <1>1 DEF NextSensor, Goto, TypeOK
  <2> QED BY <1>0, <1>1, <2>1 DEF NextSensor, FrameAt, TypeOK
<1>2. CASE Lock(t)
  <2>1. /\ pc[t] \in {"lock", "ackLock", "clearLock", "listLock", "recountLock"}
        /\ pc'[t] = LockedSection[pc[t]]
      BY <1>0, <1>2 DEF Lock, LockedSection, Goto, TypeOK
  <2> QED BY <2>1 DEF LockedSection
<1>3. CASE NextSensor(t, "draw", "countRead") \/ NextSensor(t, "test", AfterCheck(t))
    BY <1>1, <1>3
<1>4. CASE Compare(t)
    BY <1>0, <1>3, <1>4 DEF Compare, Goto, TypeOK
<1> QED BY <1>0, <1>2, <1>3, <1>4
     DEF Shared, DrawSensor, DrawAnomaly, CountRead, CountWrite, TestMonitorFlag,
         LoadArgument, StampId, PushBack, AfterUpdate, Goto, TypeOK

\* The vector has as many alarms after an acknowledgement as before.
LEMMA AcknowledgeKeepsSize ==
    ASSUME TypeOK, AcknowledgeAlarm
    PROVE  DOMAIN active_alarms' = DOMAIN active_alarms
BY DEF AcknowledgeAlarm, TypeOK

LEMMA CoherentStep ==
    ASSUME TypeOK, QuietCommands, "CLEAR" \notin Commands, CoherentInv, [Next]_vars
    PROVE  CoherentInv'
<1>0. "monitoring" \in Threads /\ "main" \in Threads
    BY DEF Threads
<1>1. OnlyMonitoringChecks' /\ pc'["main"] \notin {"clearLock", "removeIf", "erase"}
    BY MainStaysOut, MainClearsNothing DEF CoherentInv
<1>2. CASE Shared("monitoring")
  <2>1. pc'["monitoring"] \notin {"publishCount", "publishService", "sleep", "top"}
      BY <1>0, <1>2, SharedStays DEF CommonLabels, LockedSection
  <2>2. pc'["monitoring"] = "publish" => frame'["monitoring"].at = 1
      BY <1>2, PublishesFromFirst
  <2> QED BY <1>1, <2>1, <2>2 DEF CoherentInv, SnapshotUpTo
<1>3. ASSUME UNCHANGED <<reading, total_sensor_updates, published>>,
             pc'["monitoring"] = pc["monitoring"],
             frame'["monitoring"] = frame["monitoring"],
             DOMAIN active_alarms' = DOMAIN active_alarms
      PROVE  CoherentInv'
    BY <1>1, <1>3 DEF CoherentInv, SnapshotUpTo, CountPublished
<1>4. CASE Shared("main")
  <2>1. Lock("main")
      BY <1>4 DEF CoherentInv, OnlyMonitoringChecks, CommonLabels, Shared,
                  DrawSensor, DrawAnomaly, CountRead, CountWrite, TestMonitorFlag,
                  Compare, LoadArgument, StampId, PushBack
  <2> QED BY <1>0, <1>3, <2>1 DEF Lock, Goto, TypeOK, sensorVars, serverVars
<1>5. CASE execute \/ finish \/ StopMonitoring \/ Join \/ Unmap
  <2>1. /\ UNCHANGED <<reading, total_sensor_updates, published>>
        /\ pc'["monitoring"] = pc["monitoring"]
        /\ frame'["monitoring"] = frame["monitoring"]
      BY <1>0, <1>5
         DEF execute, finish, HandleService, HandleConfigSet, HandleAlarmAck,
             HandleOther, AcknowledgeAlarm, RemoveIf, Erase, GetActiveAlarms,
             Reply, StopMonitoring, Join, Unmap, Goto, TypeOK, sensorVars,
             serverVars
  <2>2. DOMAIN active_alarms' = DOMAIN active_alarms
      BY <1>5, AcknowledgeKeepsSize
         DEF CoherentInv, execute, finish, HandleService, HandleConfigSet,
             HandleAlarmAck, HandleOther, RemoveIf, Erase, GetActiveAlarms, Reply,
             StopMonitoring, Join, Unmap, storeVars
  <2> QED BY <1>3, <2>1, <2>2
<1>6. CASE PublishReading
  <2> DEFINE n == frame["monitoring"].at
             s == SensorOrder[n]
  <2>1. /\ pc["monitoring"] = "publish"
        /\ published' = [published EXCEPT !.reading[s] = reading[s]]
        /\ NextSensor("monitoring", "publish", "publishCount")
        /\ UNCHANGED <<reading, active_alarms>>
      BY <1>6 DEF PublishReading, Sensor, sensorVars, storeVars
  <2>2. /\ n \in 1..Len(SensorOrder) /\ Len(SensorOrder) \in Nat
        /\ \A i \in 1..Len(SensorOrder) : SensorOrder[i] \in Sensors
        /\ \A x \in Sensors : \E i \in 1..Len(SensorOrder) : SensorOrder[i] = x
    <3>1. DOMAIN SensorOrder = 1..Len(SensorOrder) /\ Len(SensorOrder) \in Nat
        BY MonitoringAssumption
    <3>2. n \in 1..Len(SensorOrder)
        BY <1>0 DEF TypeOK, Frame
    <3> HIDE DEF n
    <3> QED BY <3>1, <3>2 DEF Sensors
  <2>3. published.reading \in [Sensors -> Int] /\ reading \in [Sensors -> Int]
      BY DEF TypeOK
  <2>4. published'.reading = [published.reading EXCEPT ![s] = reading[s]]
    <3>1. published \in [reading : [Sensors -> Int], count : Nat \cup {TornSize},
                         service_enabled : BOOLEAN]
        BY DEF TypeOK
    <3> HIDE DEF s
    <3> QED BY <2>1, <3>1
  <2>5. \A i \in 1..n : published'.reading[SensorOrder[i]] = reading[SensorOrder[i]]
    <3>1. \A i \in 1..(n - 1) :
              published.reading[SensorOrder[i]] = reading[SensorOrder[i]]
        BY <2>1 DEF CoherentInv, SnapshotUpTo
    <3>2. \A i \in 1..n : i = n \/ i \in 1..(n - 1)
        BY <2>2
    <3> HIDE DEF n
    <3> QED BY <2>2, <2>3, <2>4, <3>1, <3>2
  <2>6. CASE n = Len(SensorOrder)
    <3>1. pc'["monitoring"] = "publishCount"
        BY <1>0, <2>1, <2>6 DEF NextSensor, Goto, TypeOK
    <3>2. published'.reading = reading
      <4> HIDE DEF n
      <4>1. published'.reading \in [Sensors -> Int]
          BY <2>2, <2>3, <2>4
      <4>2. \A x \in Sensors : published'.reading[x] = reading[x]
          BY <2>2, <2>5, <2>6
      <4> QED BY <2>3, <4>1, <4>2
    <3> QED BY <1>1, <2>1, <3>1, <3>2 DEF CoherentInv
  <2>7. CASE n # Len(SensorOrder)
    <3>1. pc'["monitoring"] = "publish" /\ frame'["monitoring"].at = n + 1
        BY <1>0, <2>1, <2>7 DEF NextSensor, Goto, FrameAt, TypeOK
    <3>2. frame'["monitoring"].at - 1 = n
        BY <2>2, <3>1
    <3>3. \A i \in 1..(frame'["monitoring"].at - 1) :
              published'.reading[SensorOrder[i]] = reading'[SensorOrder[i]]
      <4> HIDE DEF n
      <4> QED BY <2>1, <2>5, <3>2
    <3> QED BY <1>1, <3>1, <3>3 DEF CoherentInv, SnapshotUpTo
  <2> QED BY <2>6, <2>7
<1>7. CASE PublishCount
  <2>1. /\ pc["monitoring"] = "publishCount" /\ pc'["monitoring"] = "publishService"
        /\ published' = [published EXCEPT !.count = Cardinality(DOMAIN active_alarms)]
        /\ UNCHANGED <<reading, active_alarms>>
      BY <1>0, <1>7
         DEF PublishCount, CoherentInv, OnlyMonitoringChecks, CommonLabels, Goto,
             TypeOK, sensorVars, storeVars
  <2>2. /\ published'.reading = published.reading
        /\ published'.count = Cardinality(DOMAIN active_alarms)
      BY <2>1 DEF TypeOK
  <2> QED BY <1>1, <2>1, <2>2 DEF CoherentInv, CountPublished
<1>8. CASE PublishService
  <2>1. /\ pc["monitoring"] = "publishService" /\ pc'["monitoring"] = "sleep"
        /\ published' = [published EXCEPT !.service_enabled = service_enabled]
        /\ UNCHANGED <<reading, active_alarms>>
      BY <1>0, <1>8 DEF PublishService, Goto, TypeOK, sensorVars, storeVars
  <2>2. published'.reading = published.reading /\ published'.count = published.count
      BY <2>1 DEF TypeOK
  <2> QED BY <1>1, <2>1, <2>2 DEF CoherentInv, CountPublished
<1>9. CASE LoopTop \/ SleepOver
    BY <1>0, <1>1, <1>9
       DEF LoopTop, SleepOver, Goto, TypeOK, sensorVars, storeVars, serverVars,
           CoherentInv, CountPublished
<1>10. CASE UNCHANGED vars
    BY <1>3, <1>10 DEF vars, sensorVars, storeVars, serverVars
<1> QED BY <1>2, <1>4, <1>5, <1>6, <1>7, <1>8, <1>9, <1>10
     DEF Next, monitoringLoop, Threads

\* As long as no client sends MONITOR UPDATE, CHECK or CLEAR, the snapshot shows
\* between two rounds the readings and the number of alarms of the server.
THEOREM SnapshotCorrect ==
    ASSUME QuietCommands, "CLEAR" \notin Commands PROVE Spec => []PublishedCoherent
<1>1. Init => CoherentInv
    BY DEF Init, CoherentInv, OnlyMonitoringChecks, CommonLabels, Threads
<1>2. TypeOK /\ CoherentInv /\ [Next]_vars => CoherentInv'
    BY CoherentStep
<1>3. CoherentInv => PublishedCoherent
    BY DEF CoherentInv, PublishedCoherent, CountPublished
<1> QED BY <1>1, <1>2, <1>3, TypeCorrect, PTL DEF Spec

-----------------------------------------------------------------------------
(* The statistics of the updates.                                           *)

\* A count that was loaded is a count that was reached: the unlocked increment
\* of one thread may write an old count back, never one from nowhere.
CountsReached ==
    /\ total_sensor_updates <= updates
    /\ \A t \in Threads : pc[t] = "countWrite" => frame[t].number <= updates

\* A step that is neither half of the increment leaves the counts alone and
\* brings no thread between the two halves.
LEMMA CountsRest ==
    ASSUME TypeOK, [Next]_vars,
           \A t \in Threads : ~CountRead(t) /\ ~CountWrite(t)
    PROVE  /\ UNCHANGED <<total_sensor_updates, updates>>
           /\ \A u \in Threads : pc'[u] = "countWrite" =>
                  pc[u] = "countWrite" /\ frame'[u] = frame[u]
<1> DEFINE Rests == /\ UNCHANGED <<total_sensor_updates, updates>>
                    /\ \A u \in Threads : pc'[u] = "countWrite" =>
                           pc[u] = "countWrite" /\ frame'[u] = frame[u]
<1>1. ASSUME NEW t \in Threads, Others(t), pc'[t] # "countWrite",
             UNCHANGED <<total_sensor_updates, updates>>
      PROVE  Rests
    BY <1>1 DEF Others
<1> SUFFICES Rests
    OBVIOUS
<1> HIDE DEF Rests
<1>2. ASSUME NEW t \in Threads, Shared(t) PROVE Rests
  <2>1. CASE DrawSensor(t)
      BY <1>1, <2>1, NextSensorOthers, GotoOthers DEF DrawSensor
  <2>2. CASE DrawAnomaly(t)
      BY <1>1, <2>2, NextSensorOthers DEF DrawAnomaly
  <2>3. CASE TestMonitorFlag(t)
      BY <1>1, <2>3, NextSensorOthers, GotoOthers
         DEF TestMonitorFlag, AfterCheck, sensorVars
  <2>4. CASE Compare(t)
    <3>1. CASE Goto(t, "argument") /\ UNCHANGED frame
        BY <1>1, <2>4, <3>1, GotoOthers DEF Compare, sensorVars
    <3>2. CASE frame' = [frame EXCEPT ![t].branch = @ + 1] /\ UNCHANGED pc
      <4>1. Others(t)
          BY <3>2 DEF Others, TypeOK
      <4> QED BY <1>1, <2>4, <3>2, <4>1 DEF Compare, sensorVars
    <3>3. CASE NextSensor(t, "test", AfterCheck(t))
        BY <1>1, <2>4, <3>3, NextSensorOthers DEF Compare, AfterCheck, sensorVars
    <3> QED BY <2>4, <3>1, <3>2, <3>3 DEF Compare
  <2>5. CASE LoadArgument(t) \/ StampId(t)
    <3>1. \A u \in Threads \ {t} : frame'[u] = frame[u]
        BY <2>5 DEF LoadArgument, StampId, TypeOK
    <3> QED BY <1>1, <2>5, <3>1, GotoOthers DEF LoadArgument, StampId, sensorVars
  <2>6. CASE Lock(t)
    <3>1. LockedSection[pc[t]] # "countWrite"
        BY <2>6 DEF Lock, LockedSection
    <3> QED BY <1>1, <2>6, <3>1, GotoOthers DEF Lock, sensorVars
  <2>7. CASE PushBack(t)
      BY <1>1, <2>7, NextSensorOthers DEF PushBack, AfterCheck, sensorVars
  <2> QED BY <1>2, <2>1, <2>2, <2>3, <2>4, <2>5, <2>6, <2>7 DEF Shared
<1>3. CASE monitoringLoop
  <2>1. "monitoring" \in Threads
      BY DEF Threads
  <2>2. CASE PublishReading
      BY <1>1, <2>1, <2>2, NextSensorOthers DEF PublishReading, sensorVars
  <2> QED BY <1>1, <1>3, <2>1, <2>2, GotoOthers
          DEF monitoringLoop, LoopTop, PublishCount, PublishService, SleepOver,
              sensorVars
<1>4. CASE HandleService \/ HandleConfigSet \/ UNCHANGED vars
    BY <1>4 DEF Rests, HandleService, HandleConfigSet, vars, sensorVars
<1>5. CASE HandleAlarmAck \/ HandleOther \/ finish
  <2>1. \A u \in Threads \ {"main"} : frame'[u] = frame[u]
      BY <1>5 DEF HandleAlarmAck, HandleOther, finish, AcknowledgeAlarm, RemoveIf,
                  Erase, GetActiveAlarms, Reply, TypeOK
  <2>2. \E label \in {"ackLock", "clearLock", "listLock", "draw", "test", "idle",
                      "erase", "recountLock", "reply", "replyClear"} :
            Goto("main", label)
      BY <1>5 DEF HandleAlarmAck, HandleOther, FirstStep, finish, AcknowledgeAlarm,
                  RemoveIf, Erase, GetActiveAlarms, Reply
  <2>3. UNCHANGED <<total_sensor_updates, updates>>
      BY <1>5 DEF HandleAlarmAck, HandleOther, finish, AcknowledgeAlarm, RemoveIf,
                  Erase, GetActiveAlarms, Reply, sensorVars
  <2> QED BY <1>1, <2>1, <2>2, <2>3, GotoOthers DEF Threads
<1>6. CASE StopMonitoring \/ Join \/ Unmap
  <2>1. "main" \in Threads
      BY DEF Threads
  <2> QED BY <1>1, <1>6, <2>1, GotoOthers
          DEF StopMonitoring, Join, Unmap, sensorVars
<1> QED BY <1>2, <1>3, <1>4, <1>5, <1>6 DEF Next, execute

\* No step counts an update that was not made.
LEMMA ReachedStep ==
    ASSUME TypeOK, CountsReached, [Next]_vars PROVE CountsReached'
<1>0. /\ total_sensor_updates \in Int /\ updates \in Nat
      /\ \A t \in Threads : frame[t].number \in Int
    BY DEF TypeOK, Frame
<1>1. ASSUME NEW t \in Threads, CountRead(t) PROVE CountsReached'
  <2>1. Others(t) /\ frame'[t].number = total_sensor_updates
      BY <1>1 DEF CountRead, Goto, Others, TypeOK
  <2> QED BY <1>1, <2>1 DEF CountRead, CountsReached, Others, sensorVars
<1>2. ASSUME NEW t \in Threads, CountWrite(t) PROVE CountsReached'
  <2>1. Others(t) /\ pc'[t] # "countWrite"
      BY <1>2 DEF CountWrite, Goto, AfterUpdate, Others, TypeOK
  <2>2. total_sensor_updates' = frame[t].number + 1 /\ updates' = updates + 1
      BY <1>2 DEF CountWrite
  <2>3. frame[t].number <= updates
      BY <1>2 DEF CountWrite, CountsReached
  <2>4. \A u \in Threads : pc'[u] = "countWrite" => frame'[u].number <= updates
      BY <2>1 DEF CountsReached, Others
  <2>5. total_sensor_updates' <= updates'
      BY <1>0, <2>2, <2>3
  <2>6. \A u \in Threads : pc'[u] = "countWrite" => frame'[u].number <= updates'
    <3> SUFFICES ASSUME NEW u \in Threads, pc'[u] = "countWrite"
                 PROVE  frame'[u].number <= updates'
        OBVIOUS
    <3>1. u # t /\ frame'[u] = frame[u]
        BY <2>1 DEF Others
    <3> QED BY <1>0, <2>2, <2>4, <3>1
  <2> QED BY <2>5, <2>6 DEF CountsReached
<1>3. CASE \A t \in Threads : ~CountRead(t) /\ ~CountWrite(t)
    BY <1>3, CountsRest DEF CountsReached
<1> QED BY <1>1, <1>2, <1>3

\* MONITOR STATUS shows no update that was not made, whatever the two threads
\* do between the halves of the other's increment.
THEOREM UpdatesCorrect == Spec => []UpdatesCounted
<1>1. Init => CountsReached
    BY DEF Init, CountsReached, Threads
<1>2. TypeOK /\ CountsReached /\ [Next]_vars => CountsReached'
    BY ReachedStep
<1>3. CountsReached => UpdatesCounted
    BY DEF CountsReached, UpdatesCounted
<1> QED BY <1>1, <1>2, <1>3, TypeCorrect, PTL DEF Spec

-----------------------------------------------------------------------------
(* Every step nears.                                                        *)

\* A step of the thread that brings it closer, and leaves the other alone.
Nears(t) == Others(t) /\ StepsLeft(t)' \in 0..(StepsLeft(t) - 1)

\* The distances, label by label.
LEMMA Distances ==
    ASSUME NEW t, NEW visits, NEW branch
    PROVE  /\ Distance(t, "draw", visits, branch) = Checking(t) + 2 * visits + 4
           /\ Distance(t, "anomaly", visits, branch) = Checking(t) + 2 * visits + 3
           /\ Distance(t, "countRead", visits, branch) = Checking(t) + 2
           /\ Distance(t, "countWrite", visits, branch) = Checking(t) + 1
           /\ Distance(t, "test", visits, branch) = Publishing(t) + 9 * visits + 9
           /\ Distance(t, "compare", visits, branch) =
                 Publishing(t) + 9 * visits + 9 - branch
           /\ Distance(t, "argument", visits, branch) = Publishing(t) + 9 * visits + 4
           /\ Distance(t, "lock", visits, branch) = Publishing(t) + 9 * visits + 3
           /\ Distance(t, "stamp", visits, branch) = Publishing(t) + 9 * visits + 2
           /\ Distance(t, "push", visits, branch) = Publishing(t) + 9 * visits + 1
           /\ Distance(t, "publish", visits, branch) = visits + 5
           /\ Distance(t, "clearLock", visits, branch) = 6
           /\ Distance(t, "removeIf", visits, branch) = 5
           /\ \A l \in {"erase", "publishCount"} : Distance(t, l, visits, branch) = 4
           /\ \A l \in {"recountLock", "listLock", "publishService"} :
                 Distance(t, l, visits, branch) = 3
           /\ \A l \in {"recount", "list", "ackLock", "sleep"} :
                 Distance(t, l, visits, branch) = 2
           /\ \A l \in {"reply", "replyClear", "ack", "top"} :
                 Distance(t, l, visits, branch) = 1
           /\ \A l \in {"idle", "done"} : Distance(t, l, visits, branch) = 0
BY DEF Distance

\* Where a thread is in its visits.
LEMMA VisitType ==
    ASSUME TypeOK, NEW t \in Threads
    PROVE  /\ Len(SensorOrder) \in Nat
           /\ frame[t].at \in 1..Len(SensorOrder)
           /\ frame[t].branch \in 1..4
<1>1. Len(SensorOrder) \in Nat
    BY MonitoringAssumption
<1>2. frame[t] \in Frame
    BY DEF TypeOK
<1> QED BY <1>1, <1>2 DEF Frame

\* After a visit the next sensor follows, or the label after the last.
LEMMA NextVisit ==
    ASSUME TypeOK, NEW t \in Threads, NEW again, NEW label,
           NextSensor(t, again, label)
    PROVE  \/ /\ frame[t].at = Len(SensorOrder)
              /\ pc'[t] = label /\ frame'[t].at = 1
           \/ /\ frame[t].at < Len(SensorOrder)
              /\ pc'[t] = again /\ frame'[t].at = frame[t].at + 1
<1>1. frame[t].at \in 1..Len(SensorOrder) /\ Len(SensorOrder) \in Nat
    BY VisitType
<1>2. CASE frame[t].at = Len(SensorOrder)
    BY <1>2 DEF NextSensor, Goto, FrameAt, TypeOK
<1>3. CASE frame[t].at # Len(SensorOrder)
    BY <1>1, <1>3 DEF NextSensor, Goto, FrameAt, TypeOK
<1> QED BY <1>2, <1>3

\* The tolls of the rest of a round are numbers.
LEMMA Tolls ==
    ASSUME NEW t \in Threads
    PROVE  /\ Publishing(t) \in Nat /\ Checking(t) \in Nat
           /\ Len(SensorOrder) \in Nat
           /\ Publishing("monitoring") = Len(SensorOrder) + 4
           /\ Checking("monitoring") = 10 * Len(SensorOrder) + 4
           /\ Publishing("main") = 3 /\ Checking("main") = 0
<1>1. Len(SensorOrder) \in Nat
    BY MonitoringAssumption
<1> QED BY <1>1 DEF Publishing, Checking

\* From one label to another of the same thread, n visits from the end and then
\* k, with branch a in hand and then b.
LEMMA Nearer ==
    ASSUME NEW t \in Threads, Others(t),
           NEW n, n = Len(SensorOrder) - frame[t].at,
           NEW k, k = Len(SensorOrder) - frame'[t].at,
           NEW a, a = frame[t].branch, NEW b, b = frame'[t].branch,
           Distance(t, pc'[t], k, b) \in 0..(Distance(t, pc[t], n, a) - 1)
    PROVE  Nears(t)
BY DEF Nears, StepsLeft

\* The functions of SystemData that both threads run come to their end.
LEMMA SharedNears ==
    ASSUME TypeOK, NEW t \in Threads, Shared(t) PROVE Nears(t)
<1> DEFINE n == Len(SensorOrder) - frame[t].at
           k == Len(SensorOrder) - frame'[t].at
           a == frame[t].branch
           b == frame'[t].branch
<1>0. /\ n \in Nat /\ n < Len(SensorOrder) /\ a \in 1..4
      /\ n = 0 <=> frame[t].at = Len(SensorOrder)
    BY VisitType
<1>1. ASSUME Others(t), Distance(t, pc'[t], k, b) \in 0..(Distance(t, pc[t], n, a) - 1)
      PROVE  Nears(t)
    BY <1>1, Nearer
<1>2. ASSUME NEW again, NEW label, NextSensor(t, again, label)
      PROVE  /\ Others(t)
             /\ \/ n = 0 /\ k = Len(SensorOrder) - 1 /\ pc'[t] = label
                \/ n > 0 /\ k = n - 1 /\ pc'[t] = again
  <2>1. Others(t)
      BY <1>2, NextSensorOthers
  <2>2. \/ /\ frame[t].at = Len(SensorOrder) /\ pc'[t] = label /\ frame'[t].at = 1
        \/ /\ frame[t].at < Len(SensorOrder)
           /\ pc'[t] = again /\ frame'[t].at = frame[t].at + 1
      BY <1>2, NextVisit
  <2>3. /\ Len(SensorOrder) \in Nat /\ frame[t].at \in Int
      BY VisitType
  <2> QED BY <2>1, <2>2, <2>3
<1>3. ASSUME NEW label, Goto(t, label), UNCHANGED frame
      PROVE  Others(t) /\ pc'[t] = label /\ k = n /\ b = a
    BY <1>3, GotoOthers
<1> HIDE DEF n, k, a, b
<1>4. ASSUME NextSensor(t, "draw", "countRead"), pc[t] \in {"draw", "anomaly"}
      PROVE  Nears(t)
  <2>1. /\ Others(t)
        /\ \/ pc'[t] = "countRead"
           \/ n > 0 /\ k = n - 1 /\ pc'[t] = "draw"
      BY <1>2, <1>4
  <2>2. Distance(t, pc[t], n, a) \in {Checking(t) + 2 * n + 4, Checking(t) + 2 * n + 3}
      BY <1>4, Distances
  <2>3. \/ Distance(t, pc'[t], k, b) = Checking(t) + 2
        \/ n > 0 /\ Distance(t, pc'[t], k, b) = Checking(t) + 2 * (n - 1) + 4
      BY <2>1, Distances
  <2>4. Distance(t, pc'[t], k, b) \in 0..(Distance(t, pc[t], n, a) - 1)
      BY <1>0, <2>2, <2>3, Tolls
  <2> QED BY <1>1, <2>1, <2>4
<1>5. ASSUME NextSensor(t, "test", AfterCheck(t)), pc[t] \in {"test", "compare", "push"}
      PROVE  Nears(t)
  <2>1. /\ Others(t)
        /\ \/ n = 0 /\ k = Len(SensorOrder) - 1 /\ pc'[t] = AfterCheck(t)
           \/ n > 0 /\ k = n - 1 /\ pc'[t] = "test"
      BY <1>2, <1>5
  <2>2. Distance(t, pc[t], n, a) \in
            {Publishing(t) + 9 * n + 9, Publishing(t) + 9 * n + 9 - a,
             Publishing(t) + 9 * n + 1}
      BY <1>5, Distances
  <2>3. Distance(t, pc[t], n, a) \in Int
        /\ Distance(t, pc[t], n, a) > Publishing(t) + 9 * n
      BY <1>0, <2>2, Tolls
  <2>4. Distance(t, pc'[t], k, b) \in 0..(Publishing(t) + 9 * n)
    <3>1. CASE n > 0 /\ k = n - 1 /\ pc'[t] = "test"
      <4>1. Distance(t, pc'[t], k, b) = Publishing(t) + 9 * (n - 1) + 9
          BY <3>1, Distances
      <4> QED BY <1>0, <3>1, <4>1, Tolls
    <3>2. CASE n = 0 /\ k = Len(SensorOrder) - 1 /\ pc'[t] = AfterCheck(t)
      <4>1. CASE t = "monitoring"
        <5>1. Distance(t, pc'[t], k, b) = Len(SensorOrder) - 1 + 5
            BY <3>2, <4>1, Distances DEF AfterCheck
        <5> QED BY <3>2, <4>1, <5>1, Tolls
      <4>2. CASE t = "main"
        <5>1. Distance(t, pc'[t], k, b) = 3
            BY <3>2, <4>2, Distances DEF AfterCheck
        <5> QED BY <3>2, <4>2, <5>1, Tolls
      <4> QED BY <4>1, <4>2 DEF Threads
    <3> QED BY <2>1, <3>1, <3>2
  <2>5. Distance(t, pc'[t], k, b) \in 0..(Distance(t, pc[t], n, a) - 1)
      BY <1>0, <2>3, <2>4, Tolls
  <2> QED BY <1>1, <2>1, <2>5
<1>6. CASE DrawSensor(t)
  <2>1. CASE Goto(t, "anomaly") /\ UNCHANGED frame
    <3>1. Others(t) /\ pc'[t] = "anomaly" /\ k = n
        BY <1>3, <2>1
    <3>2. /\ Distance(t, pc[t], n, a) = Checking(t) + 2 * n + 4
          /\ Distance(t, pc'[t], k, b) = Checking(t) + 2 * n + 3
        BY <1>6, <3>1, Distances DEF DrawSensor
    <3>3. Distance(t, pc'[t], k, b) \in 0..(Distance(t, pc[t], n, a) - 1)
        BY <1>0, <3>2, Tolls
    <3> QED BY <1>1, <3>1, <3>3
  <2> QED BY <1>4, <1>6, <2>1 DEF DrawSensor
<1>7. CASE DrawAnomaly(t)
    BY <1>4, <1>7 DEF DrawAnomaly
<1>8. CASE CountRead(t)
  <2>1. Others(t) /\ pc[t] = "countRead" /\ pc'[t] = "countWrite"
      BY <1>8 DEF CountRead, Goto, Others, TypeOK
  <2>2. /\ Distance(t, pc[t], n, a) = Checking(t) + 2
        /\ Distance(t, pc'[t], k, b) = Checking(t) + 1
      BY <2>1, Distances
  <2>3. Distance(t, pc'[t], k, b) \in 0..(Distance(t, pc[t], n, a) - 1)
      BY <2>2, Tolls
  <2> QED BY <1>1, <2>1, <2>3
<1>9. CASE CountWrite(t)
  <2>1. /\ Others(t) /\ pc[t] = "countWrite" /\ pc'[t] = AfterUpdate(t)
        /\ k = Len(SensorOrder) - 1
      BY <1>9 DEF CountWrite, Goto, Others, FrameAt, TypeOK, k
  <2>2. Distance(t, pc[t], n, a) = Checking(t) + 1
      BY <2>1, Distances
  <2>3. Distance(t, pc'[t], k, b) \in 0..Checking(t)
    <3>1. CASE t = "monitoring"
      <4>1. Distance(t, pc'[t], k, b) = Publishing(t) + 9 * (Len(SensorOrder) - 1) + 9
          BY <2>1, <3>1, Distances DEF AfterUpdate
      <4> QED BY <3>1, <4>1, Tolls
    <3>2. CASE t = "main"
      <4>1. Distance(t, pc'[t], k, b) = 0
          BY <2>1, <3>2, Distances DEF AfterUpdate
      <4> QED BY <3>2, <4>1, Tolls
    <3> QED BY <3>1, <3>2 DEF Threads
  <2>4. Distance(t, pc'[t], k, b) \in 0..(Distance(t, pc[t], n, a) - 1)
      BY <2>2, <2>3, Tolls
  <2> QED BY <1>1, <2>1, <2>4
<1>10. CASE TestMonitorFlag(t)
  <2>1. CASE Goto(t, "compare") /\ UNCHANGED frame
    <3>1. Others(t) /\ pc'[t] = "compare" /\ k = n /\ b = a
        BY <1>3, <2>1
    <3>2. /\ Distance(t, pc[t], n, a) = Publishing(t) + 9 * n + 9
          /\ Distance(t, pc'[t], k, b) = Publishing(t) + 9 * n + 9 - a
        BY <1>10, <3>1, Distances DEF TestMonitorFlag
    <3>3. Distance(t, pc'[t], k, b) \in 0..(Distance(t, pc[t], n, a) - 1)
        BY <1>0, <3>2, Tolls
    <3> QED BY <1>1, <3>1, <3>3
  <2> QED BY <1>5, <1>10, <2>1 DEF TestMonitorFlag
<1>11. CASE Compare(t)
  <2>1. Distance(t, pc[t], n, a) = Publishing(t) + 9 * n + 9 - a
      BY <1>11, Distances DEF Compare
  <2>2. CASE Goto(t, "argument") /\ UNCHANGED frame
    <3>1. Others(t) /\ pc'[t] = "argument" /\ k = n
        BY <1>3, <2>2
    <3>2. Distance(t, pc'[t], k, b) = Publishing(t) + 9 * n + 4
        BY <3>1, Distances
    <3>3. Distance(t, pc'[t], k, b) \in 0..(Distance(t, pc[t], n, a) - 1)
        BY <1>0, <2>1, <3>2, Tolls
    <3> QED BY <1>1, <3>1, <3>3
  <2>3. CASE /\ frame[t].branch < 4
             /\ frame' = [frame EXCEPT ![t].branch = @ + 1] /\ UNCHANGED pc
    <3>1. Others(t) /\ k = n /\ a < 4 /\ b = a + 1
        BY <2>3 DEF Others, TypeOK, Frame, k, n, a, b
    <3>2. Distance(t, pc'[t], k, b) = Publishing(t) + 9 * n + 9 - (a + 1)
        BY <1>11, <2>3, <3>1, Distances DEF Compare
    <3>3. Distance(t, pc'[t], k, b) \in 0..(Distance(t, pc[t], n, a) - 1)
        BY <1>0, <2>1, <3>1, <3>2, Tolls
    <3> QED BY <1>1, <3>1, <3>3
  <2>4. CASE NextSensor(t, "test", AfterCheck(t))
      BY <1>5, <1>11, <2>4 DEF Compare
  <2> QED BY <1>11, <2>2, <2>3, <2>4 DEF Compare
<1>12. CASE LoadArgument(t) \/ StampId(t)
  <2>1. /\ Others(t) /\ k = n
        /\ \/ pc[t] = "argument" /\ pc'[t] = "lock"
           \/ pc[t] = "stamp" /\ pc'[t] = "push"
    <3>1. CASE LoadArgument(t)
        BY <3>1 DEF LoadArgument, Goto, Others, TypeOK, Frame, k, n
    <3>2. CASE StampId(t)
        BY <3>2 DEF StampId, Goto, Others, TypeOK, Frame, k, n
    <3> QED BY <1>12, <3>1, <3>2
  <2>2. \/ /\ Distance(t, pc[t], n, a) = Publishing(t) + 9 * n + 4
           /\ Distance(t, pc'[t], k, b) = Publishing(t) + 9 * n + 3
        \/ /\ Distance(t, pc[t], n, a) = Publishing(t) + 9 * n + 2
           /\ Distance(t, pc'[t], k, b) = Publishing(t) + 9 * n + 1
      BY <2>1, Distances
  <2>3. Distance(t, pc'[t], k, b) \in 0..(Distance(t, pc[t], n, a) - 1)
      BY <1>0, <2>2, Tolls
  <2> QED BY <1>1, <2>1, <2>3
<1>13. CASE Lock(t)
  <2>1. Others(t) /\ pc'[t] = LockedSection[pc[t]] /\ k = n
      BY <1>3, <1>13 DEF Lock
  <2>2. \/ /\ Distance(t, pc[t], n, a) = Publishing(t) + 9 * n + 3
           /\ Distance(t, pc'[t], k, b) = Publishing(t) + 9 * n + 2
        \/ Distance(t, pc[t], n, a) = 2 /\ Distance(t, pc'[t], k, b) = 1
        \/ Distance(t, pc[t], n, a) = 6 /\ Distance(t, pc'[t], k, b) = 5
        \/ Distance(t, pc[t], n, a) = 3 /\ Distance(t, pc'[t], k, b) = 2
      BY <1>13, <2>1, Distances DEF Lock, LockedSection
  <2>3. Distance(t, pc'[t], k, b) \in 0..(Distance(t, pc[t], n, a) - 1)
      BY <1>0, <2>2, Tolls
  <2> QED BY <1>1, <2>1, <2>3
<1>14. CASE PushBack(t)
    BY <1>5, <1>14 DEF PushBack
<1> QED BY <1>6, <1>7, <1>8, <1>9, <1>10, <1>11, <1>12, <1>13, <1>14 DEF Shared

\* The steps of the loop itself come to the top, or to the end of the thread.
LEMMA LoopNears ==
    ASSUME TypeOK, monitoringLoop, Underway("monitoring") PROVE Nears("monitoring")
<1> DEFINE t == "monitoring"
           n == Len(SensorOrder) - frame[t].at
           k == Len(SensorOrder) - frame'[t].at
           a == frame[t].branch
           b == frame'[t].branch
<1>0. t \in Threads /\ n \in Nat
  <2>1. t \in Threads
      BY DEF Threads
  <2> QED BY <2>1, VisitType
<1>1. ASSUME Others(t), Distance(t, pc'[t], k, b) \in 0..(Distance(t, pc[t], n, a) - 1)
      PROVE  Nears(t)
    BY <1>0, <1>1, Nearer
<1>2. ASSUME NEW label, Goto(t, label), UNCHANGED frame
      PROVE  Others(t) /\ pc'[t] = label
    BY <1>0, <1>2, GotoOthers
<1>3. CASE PublishReading
  <2>1. /\ Others(t) /\ pc[t] = "publish"
        /\ \/ pc'[t] = "publishCount"
           \/ n > 0 /\ k = n - 1 /\ pc'[t] = "publish"
    <3>1. pc[t] = "publish" /\ NextSensor(t, "publish", "publishCount")
        BY <1>3 DEF PublishReading
    <3>2. Others(t)
        BY <1>0, <3>1, NextSensorOthers
    <3>3. \/ pc'[t] = "publishCount"
          \/ /\ frame[t].at < Len(SensorOrder)
             /\ pc'[t] = "publish" /\ frame'[t].at = frame[t].at + 1
        BY <1>0, <3>1, NextVisit
    <3>4. /\ Len(SensorOrder) \in Nat /\ frame[t].at \in Int
        BY <1>0, VisitType
    <3> QED BY <3>1, <3>2, <3>3, <3>4
  <2> HIDE DEF n, k, a, b
  <2>2. /\ Distance(t, pc[t], n, a) = n + 5
        /\ \/ Distance(t, pc'[t], k, b) = 4
           \/ n > 0 /\ Distance(t, pc'[t], k, b) = n - 1 + 5
      BY <2>1, Distances
  <2>3. Distance(t, pc'[t], k, b) \in 0..(Distance(t, pc[t], n, a) - 1)
      BY <1>0, <2>2
  <2> QED BY <1>1, <2>1, <2>3
<1> HIDE DEF n, k, a, b
<1>4. CASE PublishCount \/ PublishService \/ SleepOver \/ LoopTop
  <2>1. /\ Others(t)
        /\ <<pc[t], pc'[t]>> \in
             {<<"publishCount", "publishService">>, <<"publishService", "sleep">>,
              <<"sleep", "top">>, <<"top", "done">>}
    <3>1. CASE LoopTop
      <4>1. pc[t] = "top" /\ Goto(t, "done") /\ UNCHANGED frame
          BY <3>1 DEF LoopTop, Underway
      <4> QED BY <1>2, <4>1
    <3>2. CASE PublishCount \/ PublishService \/ SleepOver
        BY <1>2, <3>2 DEF PublishCount, PublishService, SleepOver
    <3> QED BY <1>4, <3>1, <3>2
  <2>2. \/ Distance(t, pc[t], n, a) = 4 /\ Distance(t, pc'[t], k, b) = 3
        \/ Distance(t, pc[t], n, a) = 3 /\ Distance(t, pc'[t], k, b) = 2
        \/ Distance(t, pc[t], n, a) = 2 /\ Distance(t, pc'[t], k, b) = 1
        \/ Distance(t, pc[t], n, a) = 1 /\ Distance(t, pc'[t], k, b) = 0
      BY <2>1, Distances
  <2> QED BY <1>1, <2>1, <2>2
<1> QED BY <1>3, <1>4 DEF monitoringLoop

\* The steps inside alarms_mutex and after it come to the reply.
LEMMA FinishNears ==
    ASSUME TypeOK, finish PROVE Nears("main")
<1> DEFINE t == "main"
           n == Len(SensorOrder) - frame[t].at
           k == Len(SensorOrder) - frame'[t].at
           a == frame[t].branch
           b == frame'[t].branch
<1>1. Others(t)
    BY DEF finish, AcknowledgeAlarm, RemoveIf, Erase, GetActiveAlarms, Reply, Goto,
           Others, TypeOK
<1>2. <<pc[t], pc'[t]>> \in
          {<<"ack", "idle">>, <<"removeIf", "erase">>, <<"erase", "recountLock">>,
           <<"list", "reply">>, <<"recount", "replyClear">>, <<"reply", "idle">>,
           <<"replyClear", "idle">>}
    BY DEF finish, AcknowledgeAlarm, RemoveIf, Erase, GetActiveAlarms, Reply, Goto,
           TypeOK, Threads
<1> HIDE DEF n, k, a, b
<1>3. \/ Distance(t, pc[t], n, a) = 1 /\ Distance(t, pc'[t], k, b) = 0
      \/ Distance(t, pc[t], n, a) = 5 /\ Distance(t, pc'[t], k, b) = 4
      \/ Distance(t, pc[t], n, a) = 4 /\ Distance(t, pc'[t], k, b) = 3
      \/ Distance(t, pc[t], n, a) = 2 /\ Distance(t, pc'[t], k, b) = 1
    BY <1>2, Distances
<1> QED BY <1>1, <1>3, Nearer DEF Threads, n, k, a, b

\* Whatever the other thread does meanwhile: a command ends, a round of the
\* monitoring thread ends, and the thread ends once it was asked to stop, each
\* after as many steps at most as StepsLeft says.
THEOREM StepsNear == Spec => EveryStepNears
<1> DEFINE Near(t) == Underway(t) /\ (pc'[t] # pc[t] \/ frame'[t] # frame[t])
                        => StepsLeft(t)' \in 0..(StepsLeft(t) - 1)
<1>1. ASSUME TypeOK, [Next]_vars PROVE \A t \in Threads : Near(t)
  <2>1. ASSUME NEW t \in Threads, Nears(t) PROVE \A u \in Threads : Near(u)
      BY <2>1 DEF Nears, Others
  <2>2. ASSUME NEW t \in Threads, Others(t), ~Underway(t)
        PROVE  \A u \in Threads : Near(u)
      BY <2>2 DEF Others
  <2> HIDE DEF Near
  <2>3. CASE \E t \in Threads : Shared(t)
      BY <1>1, <2>1, <2>3, SharedNears
  <2>4. CASE monitoringLoop
    <3>1. Others("monitoring")
        BY <1>1, <2>4 DEF monitoringLoop, LoopTop, PublishReading, PublishCount,
              PublishService, SleepOver, NextSensor, Goto, Others, TypeOK
    <3> QED BY <1>1, <2>1, <2>2, <2>4, <3>1, LoopNears DEF Threads
  <2>5. CASE finish
      BY <1>1, <2>1, <2>5, FinishNears DEF Threads
  <2>6. CASE execute \/ StopMonitoring \/ Join \/ Unmap
    <3>1. Others("main") /\ ~Underway("main")
        BY <1>1, <2>6
           DEF execute, HandleService, HandleConfigSet, HandleAlarmAck, HandleOther,
               Receive, StopMonitoring, Join, Unmap, Goto, Others, TypeOK, Underway
    <3> QED BY <2>2, <3>1 DEF Threads
  <2>7. CASE UNCHANGED vars
      BY <2>7 DEF vars, Near
  <2> QED BY <1>1, <2>3, <2>4, <2>5, <2>6, <2>7 DEF Next
<1>2. TypeOK /\ [Next]_vars =>
        [\A t \in Threads :
            /\ Underway(t)
            /\ pc'[t] # pc[t] \/ frame'[t] # frame[t]
            => StepsLeft(t)' \in 0..(StepsLeft(t) - 1)]_vars
    BY <1>1
<1> QED BY <1>2, TypeCorrect, PTL DEF Spec, EveryStepNears

-----------------------------------------------------------------------------
(* The store implements AlarmLog.                                           *)

LogMap == [id \in StoredIds |-> \E k \in WithId(id) : active_alarms[k].acknowledged]

\* As ids are ordinals, the abstract log is the column of flags of the vector.
FlagsOnly == LogMap = [k \in DOMAIN active_alarms |-> active_alarms[k].acknowledged]

\* The log of the abstract store is the acknowledged flags by ordinal.
LEMMA LogIsFlags == StoreInv => FlagsOnly
<1> SUFFICES ASSUME StoreInv PROVE FlagsOnly
    OBVIOUS
<1>0. active_alarms \in [DOMAIN active_alarms -> Alarm]
    BY DEF StoreInv, TypeOK
<1>1. StoredIds = DOMAIN active_alarms
    BY DEF StoredIds, StoreInv, IdIsOrdinal
<1>2. \A k \in DOMAIN active_alarms : WithId(k) = {k}
    BY DEF WithId, StoreInv, IdIsOrdinal
<1>3. \A k \in DOMAIN active_alarms :
         (\E j \in WithId(k) : active_alarms[j].acknowledged)
            = active_alarms[k].acknowledged
  <2> TAKE k \in DOMAIN active_alarms
  <2>1. active_alarms[k].acknowledged \in BOOLEAN
      BY <1>0 DEF Alarm
  <2> QED BY <1>2, <2>1
<1> QED BY <1>1, <1>3 DEF LogMap, FlagsOnly

\* The initial states are initial states of the abstract store.
LEMMA LogInit == Init => Log!Init
<1> SUFFICES ASSUME Init PROVE Log!Init
    OBVIOUS
<1>1. StoredIds = {}
    BY DEF Init, NoAlarms, StoredIds
<1> QED BY <1>1 DEF Init, Log!Init

\* Every step is a step of the abstract store or leaves it as it is.
LEMMA LogStep ==
    ASSUME StoreInv, StoreInv', [Next]_vars PROVE [Log!Next]_(Log!vars)
<1>0. /\ LogMap = [k \in DOMAIN active_alarms |-> active_alarms[k].acknowledged]
      /\ LogMap' = [k \in DOMAIN active_alarms' |-> active_alarms'[k].acknowledged]
  <2>1. FlagsOnly
      BY LogIsFlags
  <2>2. StoreInv' => FlagsOnly'
      BY LogIsFlags, PTL
  <2> QED BY <2>1, <2>2 DEF FlagsOnly
<1>1. ASSUME NEW t \in Threads, PushBack(t) PROVE Log!Raise
  <2>1. /\ total_alarms_triggered' = total_alarms_triggered + 1
        /\ active_alarms' = [j \in DOMAIN active_alarms \cup {total_alarms_triggered + 1} |->
             IF j = total_alarms_triggered + 1 THEN NewAlarm(t) ELSE active_alarms[j]]
        /\ ~NewAlarm(t).acknowledged
        /\ total_alarms_triggered + 1 \notin DOMAIN active_alarms
      BY <1>1 DEF PushBack, NewAlarm, StoreInv, TypeOK
  <2>2. LogMap' = [id \in DOMAIN LogMap \cup {total_alarms_triggered + 1} |->
                     IF id \in DOMAIN LogMap THEN LogMap[id] ELSE FALSE]
      BY <1>0, <2>1 DEF NewAlarm
  <2> QED BY <2>1, <2>2 DEF Log!Raise, LogMap
<1>2. ASSUME AcknowledgeAlarm PROVE Log!Next \/ UNCHANGED Log!vars
  <2>0. active_alarms \in [DOMAIN active_alarms -> Alarm]
      BY DEF StoreInv, TypeOK
  <2>1. CASE UNCHANGED active_alarms
      BY <1>2, <2>1 DEF AcknowledgeAlarm, Log!vars, StoredIds, WithId
  <2>2. ASSUME NEW k \in DOMAIN active_alarms,
               active_alarms' = [active_alarms EXCEPT ![k].acknowledged = TRUE]
        PROVE  Log!Acknowledge(k) /\ k \in DOMAIN LogMap
    <3>1. LogMap' = [LogMap EXCEPT ![k] = TRUE]
        BY <1>0, <2>0, <2>2 DEF Alarm
    <3> QED BY <1>0, <1>2, <3>1 DEF AcknowledgeAlarm, Log!Acknowledge, LogMap
  <2>3. \/ UNCHANGED active_alarms
        \/ \E k \in DOMAIN active_alarms :
              active_alarms' = [active_alarms EXCEPT ![k].acknowledged = TRUE]
      BY <1>2 DEF AcknowledgeAlarm, WithId
  <2> QED BY <2>1, <2>2, <2>3 DEF Log!Next, LogMap
<1>3. ASSUME Erase PROVE Log!ClearAcknowledged
  <2>1. active_alarms' = Restrict(active_alarms, Unacknowledged)
        /\ UNCHANGED total_alarms_triggered
      BY <1>3 DEF Erase, StoreInv, SurvivorsCurrent
  <2>2. LogMap' = [id \in {x \in DOMAIN LogMap : ~LogMap[x]} |-> LogMap[id]]
      BY <1>0, <2>1 DEF Restrict, Unacknowledged
  <2> QED BY <2>1, <2>2 DEF Log!ClearAcknowledged, LogMap
<1>4. \/ \E t \in Threads : PushBack(t)
      \/ AcknowledgeAlarm \/ Erase
      \/ UNCHANGED <<active_alarms, total_alarms_triggered>>
    BY DEF Next, Shared, monitoringLoop, execute, finish, vars, storeVars,
           DrawSensor, DrawAnomaly, CountRead, CountWrite, TestMonitorFlag, Compare,
           LoadArgument, Lock, StampId, LoopTop, PublishReading, PublishCount,
           PublishService, SleepOver, HandleService, HandleConfigSet,
           HandleAlarmAck, HandleOther, RemoveIf, GetActiveAlarms, Reply,
           StopMonitoring, Join, Unmap
<1>5. UNCHANGED <<active_alarms, total_alarms_triggered>> => UNCHANGED Log!vars
    BY DEF Log!vars, StoredIds, WithId
<1> QED BY <1>1, <1>2, <1>3, <1>4, <1>5 DEF Log!Next

\* Seen through its four locking functions, the store of the two threads is
\* the log of AlarmLog, whose calls are single steps.
THEOREM StoreImplementsLog == Spec => ImplementsAlarmLog
<1>1. StoreInv /\ StoreInv' /\ [Next]_vars => [Log!Next]_(Log!vars)
    BY LogStep
<1> QED BY <1>1, LogInit, StoreCorrect, PTL DEF Spec, ImplementsAlarmLog, Log!Spec

=============================================================================
