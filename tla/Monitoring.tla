----------------------------- MODULE Monitoring -----------------------------
(***************************************************************************)
(* The monitoring subsystem of one Server: the thread of monitoringLoop    *)
(* and the server's main thread, which runs the handlers of the MONITOR    *)
(* commands, over the shared SystemData::monitoring.                       *)
(*                                                                         *)
(* alarms_mutex guards the alarm vector and its counters, inside addAlarm, *)
(* acknowledgeAlarm, clearAcknowledgedAlarms and getActiveAlarms.  All the *)
(* rest is read and written without a lock, so every such access is a step *)
(* of its own.                                                             *)
(*                                                                         *)
(* The vector active_alarms is a function from push ordinals to alarms:    *)
(* push_back uses the ordinal that total_alarms_triggered counts up to,    *)
(* erase removes ordinals, and the order of the vector is their order.     *)
(***************************************************************************)
EXTENDS Integers, Sequences, FiniteSets, Functions

CONSTANTS
    SensorOrder,   \* the sensors, in the order the code visits them
    Defaults,      \* Defaults[s]: the value a sensor starts with
    Draws,         \* Draws[s]: in-range values uniform_real_distribution gives
    Anomalies,     \* Anomalies[s]: the two out-of-range values of an anomaly
    Thresholds,    \* Thresholds[s]: <<error_min, error_max, warning_min,
                   \*   warning_max>>, for the sensors that have thresholds
    Commands,      \* the MONITOR commands clients send
    MaxUpdates,    \* bound: no update starts once this many were made
    MaxAlarms      \* bound: no check starts once this many alarms were added

Sensors == {SensorOrder[i] : i \in DOMAIN SensorOrder}
Checked == DOMAIN Thresholds

ASSUME MonitoringAssumption ==
    /\ SensorOrder \in Seq(STRING) /\ SensorOrder # <<>>
    /\ Checked \subseteq Sensors
    /\ \A s \in Sensors : Defaults[s] \in Int /\ Draws[s] \subseteq Int
                                             /\ Anomalies[s] \subseteq Int
    /\ \A s \in Checked : Thresholds[s] \in [1..4 -> Int]
    /\ MaxUpdates \in Nat /\ MaxAlarms \in Nat

Threads  == {"monitoring", "main"}
NoThread == "none"
NoAlarms == [k \in {} |-> 0]

\* What an unlocked size() may return while another thread is inside
\* push_back or erase: the difference of two unrelated pointers.
TornSize == -1

VARIABLES
    reading,                 \* monitoring.temperature, current, power, voltage
    monitor,                 \* the monitor flag of each SensorConfig
    service_enabled,
    total_sensor_updates,
    updates,                 \* history: how many updates were made
    alarms_mutex,            \* the thread that holds it, or NoThread
    active_alarms,
    alarm_id_counter,
    total_alarms_triggered,
    published,               \* SharedData::monitoring, in shared memory
    mapped,                  \* is SharedData mapped in the server?
    monitoring_running,
    pc,                      \* where each thread is
    frame,                   \* each thread's locals: the sensor index it is at,
                             \*   the comparison, a loaded number, an alarm id
    copy                     \* main's survivors of remove_if, then its copy of
                             \*   the vector

sensorVars == <<reading, monitor, service_enabled, total_sensor_updates, updates>>
storeVars  == <<alarms_mutex, active_alarms, alarm_id_counter,
                total_alarms_triggered>>
serverVars == <<published, mapped, monitoring_running>>
vars       == <<sensorVars, storeVars, serverVars, pc, frame, copy>>

\* The locals of a thread that begins the visit of the i-th sensor.
FrameAt(i) == [at |-> i, branch |-> 1, number |-> 0, id |-> 0]

Init ==
    /\ reading = [s \in Sensors |-> Defaults[s]]
    /\ monitor = [s \in Sensors |-> TRUE]
    /\ service_enabled = TRUE
    /\ total_sensor_updates = 0 /\ updates = 0
    /\ alarms_mutex = NoThread
    /\ active_alarms = NoAlarms
    /\ alarm_id_counter = 1
    /\ total_alarms_triggered = 0
    /\ published = [reading |-> [s \in Sensors |-> 0], count |-> 0,
                    service_enabled |-> FALSE]
    /\ mapped = TRUE
    /\ monitoring_running = TRUE
    /\ pc = [t \in Threads |-> IF t = "monitoring" THEN "top" ELSE "idle"]
    /\ frame = [t \in Threads |-> FrameAt(1)]
    /\ copy = NoAlarms

-----------------------------------------------------------------------------
(* Helpers *)

Sensor(t) == SensorOrder[frame[t].at]

Goto(t, label) == pc' = [pc EXCEPT ![t] = label]

\* The visit of a sensor is over: on to the next one, or to label.
NextSensor(t, again, label) ==
    LET last == frame[t].at = Len(SensorOrder)
    IN  /\ frame' = [frame EXCEPT ![t] = FrameAt(IF last THEN 1 ELSE @.at + 1)]
        /\ Goto(t, IF last THEN label ELSE again)

\* Where updateMonitoringSensors and checkMonitoringThresholds return to.
AfterUpdate(t) == IF t = "monitoring" THEN "test" ELSE "idle"
AfterCheck(t)  == IF t = "monitoring" THEN "publish" ELSE "listLock"

\* The four comparisons of the if-else chain, in the order of the code.
Crosses(s, k, v) ==
    IF k \in {1, 3} THEN v <= Thresholds[s][k] ELSE v >= Thresholds[s][k]

-----------------------------------------------------------------------------
(* SystemData::updateMonitoringSensors, run by either thread.  The flag    *)
(* enabled of a SensorConfig is never cleared and is left out.             *)

DrawSensor(t) ==
    /\ pc[t] = "draw"
    /\ \/ /\ monitor[Sensor(t)]
          /\ \E v \in Draws[Sensor(t)] :
                reading' = [reading EXCEPT ![Sensor(t)] = v]
          /\ Goto(t, "anomaly")
          /\ UNCHANGED frame
       \/ /\ ~monitor[Sensor(t)]
          /\ NextSensor(t, "draw", "countRead")
          /\ UNCHANGED reading
    /\ UNCHANGED <<monitor, service_enabled, total_sensor_updates, updates,
                   storeVars, serverVars, copy>>

DrawAnomaly(t) ==
    /\ pc[t] = "anomaly"
    /\ \/ \E v \in Anomalies[Sensor(t)] :
             reading' = [reading EXCEPT ![Sensor(t)] = v]
       \/ UNCHANGED reading
    /\ NextSensor(t, "draw", "countRead")
    /\ UNCHANGED <<monitor, service_enabled, total_sensor_updates, updates,
                   storeVars, serverVars, copy>>

\* total_sensor_updates++ is a load and a store.
CountRead(t) ==
    /\ pc[t] = "countRead"
    /\ frame' = [frame EXCEPT ![t].number = total_sensor_updates]
    /\ Goto(t, "countWrite")
    /\ UNCHANGED <<sensorVars, storeVars, serverVars, copy>>

\* Mutant: an update counts for its caller as well.
CountWrite_Twice(t) ==
    /\ pc[t] = "countWrite"
    /\ total_sensor_updates' = frame[t].number + 2
    /\ updates' = updates + 1
    /\ frame' = [frame EXCEPT ![t] = FrameAt(1)]
    /\ Goto(t, AfterUpdate(t))
    /\ UNCHANGED <<reading, monitor, service_enabled, storeVars, serverVars,
                   copy>>

CountWrite(t) ==
    /\ pc[t] = "countWrite"
    /\ total_sensor_updates' = frame[t].number + 1
    /\ updates' = updates + 1
    /\ frame' = [frame EXCEPT ![t] = FrameAt(1)]
    /\ Goto(t, AfterUpdate(t))
    /\ UNCHANGED <<reading, monitor, service_enabled, storeVars, serverVars,
                   copy>>

-----------------------------------------------------------------------------
(* SystemData::checkMonitoringThresholds, run by either thread.            *)

TestMonitorFlag(t) ==
    /\ pc[t] = "test"
    /\ IF Sensor(t) \in Checked /\ monitor[Sensor(t)]
       THEN Goto(t, "compare") /\ UNCHANGED frame
       ELSE NextSensor(t, "test", AfterCheck(t))
    /\ UNCHANGED <<sensorVars, storeVars, serverVars, copy>>

\* Each comparison of the chain loads the sensor value again.
Compare(t) ==
    LET crosses == Crosses(Sensor(t), frame[t].branch, reading[Sensor(t)])
    IN  /\ pc[t] = "compare"
        /\ \/ crosses /\ Goto(t, "argument") /\ UNCHANGED frame
           \/ /\ ~crosses /\ frame[t].branch < 4
              /\ frame' = [frame EXCEPT ![t].branch = @ + 1]
              /\ UNCHANGED pc
           \/ /\ ~crosses /\ frame[t].branch = 4
              /\ NextSensor(t, "test", AfterCheck(t))
        /\ UNCHANGED <<sensorVars, storeVars, serverVars, copy>>

\* Mutant: the argument is copied from the block of another sensor.
LoadArgument_CopyPaste(t) ==
    /\ pc[t] = "argument"
    /\ frame' = [frame EXCEPT ![t].number = reading[SensorOrder[Len(SensorOrder)]]]
    /\ Goto(t, "lock")
    /\ UNCHANGED <<sensorVars, storeVars, serverVars, copy>>

\* The value argument of addAlarm is one more load of the sensor.
LoadArgument(t) ==
    /\ pc[t] = "argument"
    /\ frame' = [frame EXCEPT ![t].number = reading[Sensor(t)]]
    /\ Goto(t, "lock")
    /\ UNCHANGED <<sensorVars, storeVars, serverVars, copy>>

-----------------------------------------------------------------------------
(* alarms_mutex and the functions that hold it.                            *)

LockedSection ==
    [lock |-> "stamp", ackLock |-> "ack", clearLock |-> "removeIf",
     listLock |-> "list", recountLock |-> "recount"]

\* Mutant: no lock_guard.
Lock_Unguarded(t) ==
    /\ pc[t] \in DOMAIN LockedSection
    /\ alarms_mutex' = t
    /\ Goto(t, LockedSection[pc[t]])
    /\ UNCHANGED <<sensorVars, active_alarms, alarm_id_counter,
                   total_alarms_triggered, serverVars, frame, copy>>

Lock(t) ==
    /\ pc[t] \in DOMAIN LockedSection
    /\ alarms_mutex = NoThread
    /\ alarms_mutex' = t
    /\ Goto(t, LockedSection[pc[t]])
    /\ UNCHANGED <<sensorVars, active_alarms, alarm_id_counter,
                   total_alarms_triggered, serverVars, frame, copy>>

\* addAlarm, first half: the id of the alarm.
StampId(t) ==
    /\ pc[t] = "stamp"
    /\ frame' = [frame EXCEPT ![t].id = alarm_id_counter]
    /\ alarm_id_counter' = alarm_id_counter + 1
    /\ Goto(t, "push")
    /\ UNCHANGED <<sensorVars, alarms_mutex, active_alarms,
                   total_alarms_triggered, serverVars, copy>>

NewAlarm(t) ==
    [id |-> frame[t].id, sensor |-> Sensor(t), branch |-> frame[t].branch,
     value |-> frame[t].number, acknowledged |-> FALSE]

\* Mutant: total_alarms_triggered is not counted up.
PushBack_Uncounted(t) ==
    LET k == total_alarms_triggered + 1
    IN  /\ pc[t] = "push"
        /\ active_alarms' = [j \in DOMAIN active_alarms \cup {k} |->
                               IF j = k THEN NewAlarm(t) ELSE active_alarms[j]]
        /\ alarms_mutex' = NoThread
        /\ NextSensor(t, "test", AfterCheck(t))
        /\ UNCHANGED <<sensorVars, alarm_id_counter, total_alarms_triggered,
                       serverVars, copy>>

\* addAlarm, second half: push_back, the statistics and the unlock.
PushBack(t) ==
    LET k == total_alarms_triggered + 1
    IN  /\ pc[t] = "push"
        /\ active_alarms' = [j \in DOMAIN active_alarms \cup {k} |->
                               IF j = k THEN NewAlarm(t) ELSE active_alarms[j]]
        /\ total_alarms_triggered' = k
        /\ alarms_mutex' = NoThread
        /\ NextSensor(t, "test", AfterCheck(t))
        /\ UNCHANGED <<sensorVars, alarm_id_counter, serverVars, copy>>

\* acknowledgeAlarm sets the flag of the first alarm with the id, if any.
WithId(id) == {k \in DOMAIN active_alarms : active_alarms[k].id = id}

\* Mutant: the loop does not compare the ids.
AcknowledgeAlarm_All ==
    /\ pc["main"] = "ack"
    /\ active_alarms' = [k \in DOMAIN active_alarms |->
                           [active_alarms[k] EXCEPT !.acknowledged = TRUE]]
    /\ alarms_mutex' = NoThread
    /\ frame' = [frame EXCEPT !["main"] = FrameAt(1)]
    /\ Goto("main", "idle")
    /\ UNCHANGED <<sensorVars, alarm_id_counter, total_alarms_triggered,
                   serverVars, copy>>

\* Mutant: a hand-written unlock that the return of an unknown id skips.
AcknowledgeAlarm_KeepsLock ==
    LET found == WithId(frame["main"].id)
    IN  /\ pc["main"] = "ack"
        /\ \/ \E k \in found :
                 /\ active_alarms' =
                      [active_alarms EXCEPT ![k].acknowledged = TRUE]
                 /\ alarms_mutex' = NoThread
           \/ found = {} /\ UNCHANGED <<active_alarms, alarms_mutex>>
        /\ frame' = [frame EXCEPT !["main"] = FrameAt(1)]
        /\ Goto("main", "idle")
        /\ UNCHANGED <<sensorVars, alarm_id_counter, total_alarms_triggered,
                       serverVars, copy>>

AcknowledgeAlarm ==
    LET found == WithId(frame["main"].id)
    IN  /\ pc["main"] = "ack"
        /\ \/ \E k \in found :
                 /\ \A j \in found : k <= j
                 /\ active_alarms' =
                      [active_alarms EXCEPT ![k].acknowledged = TRUE]
           \/ found = {} /\ UNCHANGED active_alarms
        /\ alarms_mutex' = NoThread
        /\ frame' = [frame EXCEPT !["main"] = FrameAt(1)]
        /\ Goto("main", "idle")
        /\ UNCHANGED <<sensorVars, alarm_id_counter, total_alarms_triggered,
                       serverVars, copy>>

\* Mutant: erase(it) for erase(it, end()) drops one alarm only.
RemoveIf_EraseOne ==
    LET acknowledged == {k \in DOMAIN active_alarms :
                           active_alarms[k].acknowledged}
    IN  /\ pc["main"] = "removeIf"
        /\ copy' = Restrict(active_alarms, {k \in DOMAIN active_alarms :
                      k \in acknowledged => \E j \in acknowledged : j < k})
        /\ Goto("main", "erase")
        /\ UNCHANGED <<sensorVars, storeVars, serverVars, frame>>

\* clearAcknowledgedAlarms: remove_if moves the survivors to the front, erase
\* then drops everything behind them.
RemoveIf ==
    /\ pc["main"] = "removeIf"
    /\ copy' = Restrict(active_alarms, {k \in DOMAIN active_alarms :
                                          ~active_alarms[k].acknowledged})
    /\ Goto("main", "erase")
    /\ UNCHANGED <<sensorVars, storeVars, serverVars, frame>>

Erase ==
    /\ pc["main"] = "erase"
    /\ active_alarms' = copy
    /\ copy' = NoAlarms
    /\ alarms_mutex' = NoThread
    /\ Goto("main", "recountLock")
    /\ UNCHANGED <<sensorVars, alarm_id_counter, total_alarms_triggered,
                   serverVars, frame>>

\* getActiveAlarms copies the vector, and the handler builds its reply from
\* the copy: the list of ALARMS, the count of CHECK, the remainder of CLEAR.
GetActiveAlarms ==
    /\ pc["main"] \in {"list", "recount"}
    /\ copy' = active_alarms
    /\ alarms_mutex' = NoThread
    /\ Goto("main", IF pc["main"] = "list" THEN "reply" ELSE "replyClear")
    /\ UNCHANGED <<sensorVars, active_alarms, alarm_id_counter,
                   total_alarms_triggered, serverVars, frame>>

Reply ==
    /\ pc["main"] \in {"reply", "replyClear"}
    /\ copy' = NoAlarms
    /\ Goto("main", "idle")
    /\ UNCHANGED <<sensorVars, storeVars, serverVars, frame>>

-----------------------------------------------------------------------------
(* Server::monitoringLoop                                                  *)

BelowBounds ==
    updates < MaxUpdates /\ total_alarms_triggered < MaxAlarms

\* Mutant: while (true).
LoopTop_IgnoresStop ==
    /\ pc["monitoring"] = "top"
    /\ \/ service_enabled /\ BelowBounds /\ Goto("monitoring", "draw")
       \/ ~service_enabled /\ Goto("monitoring", "sleep")
    /\ UNCHANGED <<sensorVars, storeVars, serverVars, frame, copy>>

\* while (monitoring_running) { if (service_enabled) ... }
LoopTop ==
    /\ pc["monitoring"] = "top"
    /\ \/ ~monitoring_running /\ Goto("monitoring", "done")
       \/ /\ monitoring_running /\ service_enabled /\ BelowBounds
          /\ Goto("monitoring", "draw")
       \/ /\ monitoring_running /\ ~service_enabled
          /\ Goto("monitoring", "sleep")
    /\ UNCHANGED <<sensorVars, storeVars, serverVars, frame, copy>>

PublishReading ==
    LET s == Sensor("monitoring")
    IN  /\ pc["monitoring"] = "publish"
        /\ published' = [published EXCEPT !.reading[s] = reading[s]]
        /\ NextSensor("monitoring", "publish", "publishCount")
        /\ UNCHANGED <<sensorVars, storeVars, mapped, monitoring_running, copy>>

\* Mutant: active_alarms_count is not assigned.
PublishCount_Skipped ==
    /\ pc["monitoring"] = "publishCount"
    /\ Goto("monitoring", "publishService")
    /\ UNCHANGED <<sensorVars, storeVars, serverVars, frame, copy>>

\* active_alarms.size() is read without the lock.
PublishCount ==
    /\ pc["monitoring"] = "publishCount"
    /\ \/ published' =
            [published EXCEPT !.count = Cardinality(DOMAIN active_alarms)]
       \/ /\ pc["main"] \in {"push", "erase"}
          /\ published' = [published EXCEPT !.count = TornSize]
    /\ Goto("monitoring", "publishService")
    /\ UNCHANGED <<sensorVars, storeVars, mapped, monitoring_running, frame, copy>>

PublishService ==
    /\ pc["monitoring"] = "publishService"
    /\ published' = [published EXCEPT !.service_enabled = service_enabled]
    /\ Goto("monitoring", "sleep")
    /\ UNCHANGED <<sensorVars, storeVars, mapped, monitoring_running, frame, copy>>

SleepOver ==
    /\ pc["monitoring"] = "sleep"
    /\ Goto("monitoring", "top")
    /\ UNCHANGED <<sensorVars, storeVars, serverVars, frame, copy>>

-----------------------------------------------------------------------------
(* The main thread: MONITOR::execute and the destructor of Server.         *)

Receive(c) == pc["main"] = "idle" /\ c \in Commands

\* SERVICE <on/off> and CONFIG SET service_enabled <value>.
HandleService ==
    /\ Receive("SERVICE")
    /\ service_enabled' \in BOOLEAN
    /\ UNCHANGED <<reading, monitor, total_sensor_updates, updates, storeVars,
                   serverVars, pc, frame, copy>>

\* CONFIG SET monitor_<sensor> <value>.
HandleConfigSet ==
    /\ Receive("CONFIG")
    /\ \E s \in Sensors, on \in BOOLEAN : monitor' = [monitor EXCEPT ![s] = on]
    /\ UNCHANGED <<reading, service_enabled, total_sensor_updates, updates,
                   storeVars, serverVars, pc, frame, copy>>

\* ALARM ACK <id>, of an alarm that was added or of none.
HandleAlarmAck ==
    /\ Receive("ACK")
    /\ \E id \in 1..alarm_id_counter : frame' = [frame EXCEPT !["main"].id = id]
    /\ Goto("main", "ackLock")
    /\ UNCHANGED <<sensorVars, storeVars, serverVars, copy>>

\* The other commands start with one of the functions above.
FirstStep ==
    [CLEAR |-> "clearLock", ALARMS |-> "listLock", UPDATE |-> "draw",
     CHECK |-> "test"]

HandleOther ==
    /\ \E c \in DOMAIN FirstStep :
          /\ Receive(c)
          /\ c \in {"UPDATE", "CHECK"} => BelowBounds
          /\ Goto("main", FirstStep[c])
    /\ UNCHANGED <<sensorVars, storeVars, serverVars, frame, copy>>

\* ~Server, once run() has returned: stopMonitoring, then cleanup.
StopMonitoring ==
    /\ pc["main"] = "idle"
    /\ monitoring_running' = FALSE
    /\ Goto("main", "join")
    /\ UNCHANGED <<sensorVars, storeVars, published, mapped, frame, copy>>

\* Mutant: detach() for join().
Join_Detached ==
    /\ pc["main"] = "join"
    /\ Goto("main", "unmap")
    /\ UNCHANGED <<sensorVars, storeVars, serverVars, frame, copy>>

Join ==
    /\ pc["main"] = "join"
    /\ pc["monitoring"] = "done"
    /\ Goto("main", "unmap")
    /\ UNCHANGED <<sensorVars, storeVars, serverVars, frame, copy>>

Unmap ==
    /\ pc["main"] = "unmap"
    /\ mapped' = FALSE
    /\ Goto("main", "exit")
    /\ UNCHANGED <<sensorVars, storeVars, published, monitoring_running, frame,
                   copy>>

-----------------------------------------------------------------------------

\* The functions of SystemData that both threads run.
Shared(t) ==
    \/ DrawSensor(t) \/ DrawAnomaly(t) \/ CountRead(t) \/ CountWrite(t)
    \/ TestMonitorFlag(t) \/ Compare(t) \/ LoadArgument(t)
    \/ Lock(t) \/ StampId(t) \/ PushBack(t)

monitoringLoop ==
    LoopTop \/ PublishReading \/ PublishCount \/ PublishService \/ SleepOver

execute == HandleService \/ HandleConfigSet \/ HandleAlarmAck \/ HandleOther

finish == AcknowledgeAlarm \/ RemoveIf \/ Erase \/ GetActiveAlarms \/ Reply

Next ==
    \/ \E t \in Threads : Shared(t)
    \/ monitoringLoop
    \/ execute
    \/ finish
    \/ StopMonitoring \/ Join \/ Unmap

Spec == Init /\ [][Next]_vars

\* The operating system runs both threads, and a thread that waits for the
\* mutex gets it in the end: the monitoring thread sleeps between two rounds
\* and the main thread between two commands.  Clients owe no command.
Fairness ==
    /\ \A t \in Threads : WF_vars(Shared(t)) /\ SF_vars(Lock(t))
    /\ WF_vars(monitoringLoop)
    /\ WF_vars(finish)
    /\ WF_vars(Join \/ Unmap)

FairSpec == Spec /\ Fairness

-----------------------------------------------------------------------------
(* Properties *)

CommonLabels == {"draw", "anomaly", "countRead", "countWrite", "test", "compare",
                 "argument", "lock", "stamp", "push"}
Labels(t) ==
    CommonLabels \cup
    IF t = "monitoring"
    THEN {"top", "publish", "publishCount", "publishService", "sleep", "done"}
    ELSE {"idle", "ackLock", "ack", "clearLock", "removeIf", "erase",
          "recountLock", "recount", "replyClear", "listLock", "list", "reply",
          "join", "unmap", "exit"}

Alarm == [id : Nat, sensor : Sensors, branch : 1..4, value : Int,
          acknowledged : BOOLEAN]
Frame == [at : 1..Len(SensorOrder), branch : 1..4, number : Int, id : Nat]

\* The types of the variables; every ordinal of the vector is one that was
\* pushed.
TypeOK ==
    /\ reading \in [Sensors -> Int]
    /\ monitor \in [Sensors -> BOOLEAN]
    /\ service_enabled \in BOOLEAN
    /\ total_sensor_updates \in Int /\ updates \in Nat
    /\ alarms_mutex \in Threads \cup {NoThread}
    /\ DOMAIN active_alarms \subseteq 1..total_alarms_triggered
    /\ active_alarms \in [DOMAIN active_alarms -> Alarm]
    /\ alarm_id_counter \in Nat
    /\ total_alarms_triggered \in Nat
    /\ published \in [reading : [Sensors -> Int], count : Nat \cup {TornSize},
                      service_enabled : BOOLEAN]
    /\ mapped \in BOOLEAN
    /\ monitoring_running \in BOOLEAN
    /\ pc \in [Threads -> UNION {Labels(t) : t \in Threads}]
    /\ \A t \in Threads : pc[t] \in Labels(t)
    /\ frame \in [Threads -> Frame]
    /\ DOMAIN copy \subseteq 1..total_alarms_triggered
    /\ copy \in [DOMAIN copy -> Alarm]

\* Ids grow along the vector, so ALARM ACK <id> means one alarm: the id is
\* drawn from alarm_id_counter and the alarm pushed under one lock, whichever
\* of the two threads adds it.
AlarmIdsOrdered ==
    \A j, k \in DOMAIN active_alarms :
        j < k => active_alarms[j].id < active_alarms[k].id

\* Nobody sees an id that was handed out without its alarm being counted: the
\* statistics of MONITOR STATUS and the ids agree whenever the lock is free.
CountersAgree ==
    alarms_mutex = NoThread => alarm_id_counter = total_alarms_triggered + 1

\* No step of either thread loses an alarm that was not acknowledged, takes an
\* acknowledgement back or rewrites an alarm, also when addAlarm of one thread
\* falls between the remove_if and the erase of the other.
AlarmsLeaveAcknowledged ==
    [][\A k \in DOMAIN active_alarms :
          IF k \in DOMAIN active_alarms'
          THEN active_alarms'[k] \in
                 {active_alarms[k], [active_alarms[k] EXCEPT !.acknowledged = TRUE]}
          ELSE active_alarms[k].acknowledged]_active_alarms

\* "Remaining active alarms" of MONITOR CLEAR counts no acknowledged alarm,
\* although the vector is copied in a second critical section.
ClearReplyHonest ==
    pc["main"] = "replyClear" =>
        \A k \in DOMAIN copy : ~copy[k].acknowledged

\* An alarm's recorded value crosses the threshold it is raised for, and none
\* of a higher priority: it was raised for what the sensor showed.
AlarmJustified ==
    \A k \in DOMAIN active_alarms :
        LET a == active_alarms[k]
        IN  /\ Crosses(a.sensor, a.branch, a.value)
            /\ \A b \in 1..(a.branch - 1) : ~Crosses(a.sensor, b, a.value)

\* Between two rounds the snapshot in shared memory shows the sensor values
\* and the number of alarms of the server.
PublishedCoherent ==
    pc["monitoring"] = "sleep" /\ total_sensor_updates > 0 =>
        /\ published.reading = reading
        /\ published.count = Cardinality(DOMAIN active_alarms)

\* MONITOR STATUS never shows more updates than were made: the increment of
\* total_sensor_updates is not locked, so two threads may lose some, and one may
\* write an old count back, but never a count that was not reached.
UpdatesCounted == total_sensor_updates <= updates

\* The monitoring thread writes through the pointer data, so it has ended
\* before the destructor of Server unmaps the shared memory.
NoWriteAfterUnmap == ~mapped => pc["monitoring"] = "done"

\* Is the thread inside one of the functions that lock alarms_mutex?
InSection(t) ==
    pc[t] \in {"stamp", "push", "ack", "removeIf", "erase", "list", "recount"}

\* An upper bound of the steps that a thread has before it: to the end of the
\* command, or to the top of the loop, and to the end of the thread.
Publishing(t) == IF t = "monitoring" THEN Len(SensorOrder) + 4 ELSE 3
Checking(t)   == IF t = "monitoring" THEN 10 * Len(SensorOrder) + 4 ELSE 0

Distance(t, label, visits, branch) ==
    CASE label = "draw"       -> Checking(t) + 2 * visits + 4
      [] label = "anomaly"    -> Checking(t) + 2 * visits + 3
      [] label = "countRead"  -> Checking(t) + 2
      [] label = "countWrite" -> Checking(t) + 1
      [] label = "test"       -> Publishing(t) + 9 * visits + 9
      [] label = "compare"    -> Publishing(t) + 9 * visits + 9 - branch
      [] label = "argument"   -> Publishing(t) + 9 * visits + 4
      [] label = "lock"       -> Publishing(t) + 9 * visits + 3
      [] label = "stamp"      -> Publishing(t) + 9 * visits + 2
      [] label = "push"       -> Publishing(t) + 9 * visits + 1
      [] label = "publish"    -> visits + 5
      [] label = "clearLock"  -> 6
      [] label = "removeIf"   -> 5
      [] label \in {"erase", "publishCount"} -> 4
      [] label \in {"recountLock", "listLock", "publishService"} -> 3
      [] label \in {"recount", "list", "ackLock", "sleep"} -> 2
      [] label \in {"reply", "replyClear", "ack", "top"} -> 1
      [] OTHER -> 0

StepsLeft(t) ==
    Distance(t, pc[t], Len(SensorOrder) - frame[t].at, frame[t].branch)

\* Is the thread on its way: in a command, or in a round, or stopping?
Underway(t) ==
    IF t = "monitoring"
    THEN pc[t] = "top" => ~monitoring_running
    ELSE pc[t] \notin {"idle", "join", "unmap", "exit"}

\* A command, a round, and the end of a thread that was asked to stop take a
\* bounded number of steps: nothing the other thread does, no configuration and
\* no value of a sensor makes a thread go back, or go round once more.
EveryStepNears ==
    [][\A t \in Threads :
          /\ Underway(t)
          /\ pc'[t] # pc[t] \/ frame'[t] # frame[t]
          => StepsLeft(t)' \in 0..(StepsLeft(t) - 1)]_vars

\* A server that stops does stop: the join in stopMonitoring returns from
\* whatever point of its round the monitoring thread is at.
ShutdownCompletes == pc["main"] = "join" ~> ~mapped

\* A MONITOR command is answered, whoever holds alarms_mutex meanwhile.
CommandCompletes ==
    pc["main"] \notin {"idle", "join", "unmap", "exit"} ~> pc["main"] = "idle"

\* Seen from outside, the store behaves as if its functions were single steps.
StoredIds == {active_alarms[k].id : k \in DOMAIN active_alarms}
Log == INSTANCE AlarmLog WITH
           issued <- total_alarms_triggered,
           log <- [id \in StoredIds |->
                     \E k \in WithId(id) : active_alarms[k].acknowledged]
ImplementsAlarmLog == Log!Spec

=============================================================================
