------------------------------ MODULE DaemonTime ------------------------------
(***************************************************************************)
(* The daemon and its control program in time.  Daemon says in which order *)
(* things happen; here they take the seconds that the code gives them: the *)
(* two seconds before mainLoop, the ninety of an idle server, the five of  *)
(* waitWithInterrupt, the one between two looks of stop, and the interval  *)
(* for which the monitoring thread sleeps when the destructor of Server    *)
(* joins it.  Everything else is done within the second.                   *)
(*                                                                         *)
(* Calls are made one after the other, a second or more apart, by users    *)
(* who may lose patience with stop.                                        *)
(***************************************************************************)
EXTENDS Daemon

CONSTANTS
    StartupDelay,      \* seconds between the PID file and mainLoop
    IdleLimit,         \* seconds without a command after which run returns
    WaitSeconds,       \* the argument of waitWithInterrupt
    DefaultInterval,   \* polling_interval of a new server
    Intervals,         \* what MONITOR CONFIG SET polling_interval sets
    LongestNap         \* the longest of these intervals

ASSUME TimeAssumption ==
    /\ StartupDelay \in Nat /\ WaitSeconds \in Nat
    /\ IdleLimit \in Nat \ {0}
    /\ WaitSeconds <= IdleLimit
    /\ DefaultInterval \in Nat \ {0} /\ Intervals \subseteq Nat \ {0}
    /\ LongestNap \in Nat
    /\ \A n \in Intervals \cup {DefaultInterval} : n <= LongestNap

VARIABLES
    timer,      \* seconds left of a daemon's own sleep
    idle,       \* seconds since startTime, and on since run has returned
    interval,   \* polling_interval of its server
    nap,        \* seconds left of the sleep of the monitoring thread
    slept,      \* the length of that sleep
    resting,    \* is the call asleep between two looks?
    rested,     \* has a second passed since the last call?
    ignored     \* history: seconds for which a request to stop a daemon that
                \*   nobody uses has been pending

clocks    == <<timer, idle, interval, nap, slept, resting, rested, ignored>>
timedVars == <<vars, clocks>>

TimedInit ==
    /\ Init
    /\ timer = [i \in Calls |-> 0]
    /\ idle = [i \in Calls |-> 0]
    /\ interval = [i \in Calls |-> DefaultInterval]
    /\ nap = [i \in Calls |-> 0]
    /\ slept = [i \in Calls |-> 0]
    /\ resting = [i \in Calls |-> FALSE]
    /\ rested = TRUE
    /\ ignored = [i \in Calls |-> 0]

-----------------------------------------------------------------------------
(* Calls                                                                    *)

MakeCall(options) ==
    /\ rested
    /\ main(options)
    /\ rested' = FALSE
    /\ UNCHANGED <<timer, idle, interval, nap, slept, resting, ignored>>

\* stop sleeps for a second after each look that finds the daemon alive.
Look(i) ==
    /\ ~resting[i]
    /\ PollStopped(i)
    /\ resting' = [resting EXCEPT ![i] = count'[i] # count[i]]
    /\ UNCHANGED <<timer, idle, interval, nap, slept, rested, ignored>>

CallGoesOn(i) ==
    \/ Look(i)
    \/ /\ call[i] # "poll"
       /\ callStep(i)
       /\ UNCHANGED clocks

\* Ctrl-C
Abandon(i) ==
    /\ CallAt(i, "poll", "done")
    /\ UNCHANGED <<begun, kind, seen, count, result, fileVars, daemonVars, clocks>>

-----------------------------------------------------------------------------
(* The daemon process, main thread.                                         *)

Prepare(i) ==
    \/ CreateFile(i) /\ UNCHANGED clocks
    \/ WritePid(i) /\ UNCHANGED clocks
    \/ /\ InstallHandler(i)
       /\ timer' = [timer EXCEPT ![i] = StartupDelay]
       /\ UNCHANGED <<idle, interval, nap, slept, resting, rested, ignored>>
    \/ timer[i] = 0 /\ SleepTwoSeconds(i) /\ UNCHANGED clocks
    \/ HookSignals(i) /\ UNCHANGED clocks

\* The constructor of Server starts the monitoring thread, whose first round is
\* over at once, and run takes its startTime.
EnterLoop(i) ==
    /\ LoopHead(i)
    /\ IF daemon'[i] = "run"
       THEN /\ idle' = [idle EXCEPT ![i] = 0]
            /\ interval' = [interval EXCEPT ![i] = DefaultInterval]
            /\ nap' = [nap EXCEPT ![i] = DefaultInterval]
            /\ slept' = [slept EXCEPT ![i] = DefaultInterval]
       ELSE UNCHANGED <<idle, interval, nap, slept>>
    /\ UNCHANGED <<timer, resting, rested, ignored>>

\* A command of a client, perhaps one that sets the polling interval.
Serve(i) ==
    /\ daemon[i] = "run" /\ idle[i] < IdleLimit
    /\ idle' = [idle EXCEPT ![i] = 0]
    /\ ignored' = [ignored EXCEPT ![i] = 0]
    /\ \E seconds \in Intervals \cup {interval[i]} :
          interval' = [interval EXCEPT ![i] = seconds]
    /\ UNCHANGED <<vars, timer, nap, slept, resting, rested>>

LeaveRun(i) ==
    /\ idle[i] >= IdleLimit
    /\ RunReturns(i)
    /\ UNCHANGED clocks

Restart(i) ==
    /\ TestRestart(i)
    /\ timer' = [timer EXCEPT ![i] = IF running[i] THEN WaitSeconds ELSE 0]
    /\ UNCHANGED <<idle, interval, nap, slept, resting, rested, ignored>>

\* The handler notifies without the mutex: the notification may come between the
\* test of the predicate and the wait, and is lost then until the time is up.
WakeUp(i) ==
    /\ timer[i] = 0 \/ shouldStop(i)
    /\ WaitReturns(i)
    /\ timer' = [timer EXCEPT ![i] = 0]
    /\ UNCHANGED <<idle, interval, nap, slept, resting, rested, ignored>>

\* stopMonitoring joins the thread, which ends when its sleep is over.
JoinAndDestroy(i) ==
    /\ nap[i] = 0
    /\ DestroyServer(i)
    /\ UNCHANGED clocks

Depart(i) == (Finish(i) \/ End(i)) /\ UNCHANGED clocks

-----------------------------------------------------------------------------
(* The monitoring thread: a round, and the next sleep.                      *)

Monitored == {"run", "ran", "wait"}

NextRound(i) ==
    /\ daemon[i] \in Monitored
    /\ nap[i] = 0
    /\ nap' = [nap EXCEPT ![i] = interval[i]]
    /\ slept' = [slept EXCEPT ![i] = interval[i]]
    /\ UNCHANGED <<vars, timer, idle, interval, resting, rested, ignored>>

KilledByOthers(i) == Crash(i) /\ UNCHANGED clocks

-----------------------------------------------------------------------------
(* A second passes, when nobody has anything left to do in it.              *)

Joining == {"loop", "break"}

DaemonDue(i) ==
    \/ daemon[i] \in {"create", "write", "install", "hook", "head", "ran", "exit",
                      "end"}
    \/ daemon[i] \in {"sleep", "wait"} /\ timer[i] = 0
    \/ daemon[i] = "run" /\ idle[i] >= IdleLimit
    \/ daemon[i] \in Monitored \cup Joining /\ nap[i] = 0

CallDue(i) ==
    \/ call[i] \in {"read", "probe", "stale", "fork", "verify", "remove"}
    \/ call[i] = "poll" /\ ~resting[i]

Down(n) == IF n > 0 THEN n - 1 ELSE 0

Tick ==
    /\ \A i \in Calls : ~DaemonDue(i) /\ ~CallDue(i)
    /\ timer' = [i \in Calls |-> Down(timer[i])]
    /\ nap' = [i \in Calls |-> IF Alive(i) THEN Down(nap[i]) ELSE 0]
    /\ idle' = [i \in Calls |-> IF daemon[i] \in Up THEN idle[i] + 1 ELSE 0]
    /\ ignored' = [i \in Calls |-> IF daemon[i] \in Up /\ shouldStop(i)
                                   THEN ignored[i] + 1 ELSE 0]
    /\ resting' = [i \in Calls |-> FALSE]
    /\ rested' = \A i \in 1..begun : call[i] = "done"
    /\ interval' = [i \in Calls |-> IF Alive(i) THEN interval[i]
                                    ELSE DefaultInterval]
    /\ slept' = [i \in Calls |-> IF Alive(i) THEN slept[i] ELSE 0]
    /\ UNCHANGED vars

-----------------------------------------------------------------------------

daemonGoesOn(i) ==
    \/ Prepare(i) \/ EnterLoop(i) \/ LeaveRun(i) \/ Restart(i) \/ WakeUp(i)
    \/ JoinAndDestroy(i) \/ Depart(i) \/ NextRound(i)

TimedNext ==
    \/ \E options \in Invocations : MakeCall(options)
    \/ \E i \in Calls : \/ CallGoesOn(i) \/ Abandon(i) \/ daemonGoesOn(i)
                        \/ Serve(i) \/ KilledByOthers(i)
    \/ Tick

TimedSpec == TimedInit /\ [][TimedNext]_timedVars

-----------------------------------------------------------------------------
(* Properties; those of Daemon hold for calls that are spaced like this.    *)

\* The types, and that no sleep is longer than what it was begun with.
ClocksOK ==
    /\ timer \in [Calls -> 0..(IF WaitSeconds > StartupDelay THEN WaitSeconds
                                                             ELSE StartupDelay)]
    /\ idle \in [Calls -> Nat]
    /\ interval \in [Calls -> Intervals \cup {DefaultInterval}]
    /\ slept \in [Calls -> Intervals \cup {DefaultInterval, 0}]
    /\ nap \in [Calls -> Nat]
    /\ \A i \in Calls : nap[i] <= slept[i]
    /\ resting \in [Calls -> BOOLEAN] /\ rested \in BOOLEAN
    /\ ignored \in [Calls -> Nat]

TimedTypeOK == TypeOK /\ ClocksOK

\* stop's patience is enough: unless the wait between two servers and one sleep of
\* the monitoring thread together are as long as the seconds of stop, a daemon
\* that is alive when stop decides to kill it was still in use, or starting,
\* within the idle limit of run and one such sleep; also when the wake-up was lost.
KilledOnlyWhenLate ==
    \A i \in Calls :
        LET p == seen[i]
        IN  /\ call[i] = "verify" /\ p \in Calls /\ Alive(p)
            /\ WaitSeconds + slept[p] < PollLimit
            => idle[p] <= IdleLimit + slept[p]

\* Asked to stop and not used any more, a daemon ends by itself within the
\* idle limit of run and one sleep of the monitoring thread, also when nobody
\* waits to kill it.
EndsInTime == \A i \in Calls : ignored[i] <= IdleLimit + LongestNap

\* For calls that are spaced like this the PID file does not show: the control
\* program is that of module DaemonControl, whose answers are true when they are
\* given.
Present   == {p \in Calls : Blocking(p)}
Departing == {p \in Calls : daemon[p] = "end"}
Spoiled   == pidFile = NoPid /\ \A p \in Calls : daemon[p] # "write"

Control == INSTANCE DaemonControl
    WITH asked <- kind, answer <- result,
         up <- Present, leaving <- Departing, spoiled <- Spoiled

AnswersAreTrue == Control!Spec

===============================================================================
