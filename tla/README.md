# Verification of the Radio Control System

TLA+ models of the radio control server, its client and its daemon, checked
with TLC, with theorems checked by TLAPS. `PROJECT.json` lists the components,
runs, mutants, source lines, findings, hazards and theorems; this file explains
them. Source paths are relative to `src/`.

## 1. The system

A daemon (`radio-server`) runs a `Server`, which keeps the radio parameters and
a simulated monitoring subsystem in one `SystemData`. Users run `radio-client`,
which sends one-line commands through shared memory and two semaphores.

| Component | State | Operations | Talks to |
| --- | --- | --- | --- |
| `SystemData` (`Protocol`) | radio parameters; sensors with flags and thresholds; alarm vector, counters, `alarms_mutex` | `updateMonitoringSensors`, `checkMonitoringThresholds`, `addAlarm`, `acknowledgeAlarm`, `clearAcknowledgedAlarms`, `getActiveAlarms` | called by both threads of the server |
| `System`, `SET`, `GET` (`Protocol`), `ALARM` (`System`) | none of their own | `execute`, `updateSimulation`, `checkAllAlarms`, `isValidNumber`, `isValidBoolean` | read and write `SystemData`, main thread only |
| `MONITOR` (`System`) | none of its own | the `handle...` functions | `SystemData`, main thread only |
| `Server` (`System`) | IPC objects, `monitoring_running`, the thread | `initializeSharedMemory`, `run`, `processCommand`, `monitoringLoop`, `stopMonitoring`, `cleanup` | clients by shared memory, monitoring thread by shared state |
| `Client` (`System`, `ClientApp`) | its handles, the command being entered | `initializeSharedMemory`, `run`, `cleanup` | server |
| `DaemonBase`, `ServerDaemon` (`DaemonLib`, `System`), `DaemonApp` | `isRunning_`, the PID file | `parseCommandLine`, `start`, `stop`, `status`, `mainLoop`, signal handlers | each other by PID file and signals; runs `Server` |
| `main.cpp` | none | runs one `Server` or one `Client`; it is in no build file | |

What is hard here, and what correctness means:

* **Two threads, one lock, much unlocked state.** The mutex covers the alarm
  vector inside four functions; sensors, flags, a counter, a `size()` and the
  published snapshot are outside it. Alarms must not get lost, change order or
  record a value nobody saw; the destructor must not unmap memory in use.
* **Processes, two semaphores, no transaction.** Any number of clients share one
  buffer; clients time out, exit and are interrupted; servers time out, crash,
  are replaced, and may run side by side. A client must get the reply to its own
  command, in time; a command must be executed once at most.
* **Processes that know each other by a file.** Calls of `radio-server` overlap
  with each other, with a daemon that takes two seconds to come up, and with
  daemons that die. There must be one daemon, and stop must end it; a daemon
  that would end by itself should be given the time to.
* **Texts and chains of comparisons.** `isValidNumber` and `stod` must mean the
  same by a number; limits in SET and ALARM must agree with each other.

`PROJECT.json` lists the hazards one by one, at the line where each bites, with
the properties that cover it or the reason why none does.

## 2. Modules

| Module | Models | Used by |
| --- | --- | --- |
| `AlarmLog` | what the alarm store promises, each call one step | refined by `Monitoring` |
| `Monitoring` | monitoring thread, main thread, `SystemData::monitoring`, the snapshot, `~Server` | `MCMonitoring`, `MonitoringProofs` |
| `Service` | what the server promises a user who has it to himself | refined by `CommandChannel` |
| `CommandChannel` | `Server::run` and its set-up and clean-up, `Client`, kernel names and objects, time; servers one after the other or side by side | `MCCommandChannel`, `CommandChannelProofs`, `SoleUserProofs` |
| `DaemonControl` | what start, stop and status promise those who call them one after the other | refined by `DaemonTime` |
| `Daemon` | the control program with `start`, `stop`, `status`; PID file, signals, `ServerDaemon::mainLoop` | `MCDaemon`, extended by `DaemonTime` |
| `DaemonTime` | the same with every sleep: of stop, of start-up, of `run`, of the wait between two servers, of the monitoring thread that the destructor joins | `MCDaemonTime`, `DaemonProofs`, `DaemonControlProofs` |
| `Text` | `isValidNumber`, `isValidBoolean`, and what `stod` and `stoi` read of a text | extended by `RadioControl` |
| `RadioControl` | SET, GET, ALARM, STATUS on the radio parameters | extended by `CommandLine` |
| `CommandLine` | `processCommand`, `MONITOR::execute`, CONFIG GET, CONFIG SET, SERVICE | `MCCommandLine`, `RadioControlProofs` |
| `MonitoringProofs`, `CommandChannelProofs`, `SoleUserProofs`, `DaemonProofs`, `DaemonControlProofs`, `RadioControlProofs` | theorems | |

The names of variables and actions are those of the code where TLA+ allows.
An operator whose name has an underscore after the name of an action
(`Lock_Unguarded`) is a mutant of that action: the code with a plausible bug,
which the property named in `PROJECT.json` catches. No specification uses them.

How the models fit together: the three parts of a running server meet in few
places, and each module keeps what it needs of its neighbour. `Monitoring` has
the commands that touch what the monitoring thread touches, and `CommandLine` the
others, so that together they are all the main thread does between two waits of
`CommandChannel`. `Daemon` keeps of `Server` when `run` returns and who owns the
IPC names; `DaemonTime` adds the thread that the destructor waits for.

### Monitoring

`pc` and `frame` are the program counters and locals of the two threads. A
function that both threads run (`DrawSensor` ... `PushBack`) is written once,
with the thread as its parameter. Every unlocked load or store of shared data is
a step; inside the mutex a function is split where the other thread could see
the halves if the lock were missing. `StampId`/`PushBack` are the halves of
`addAlarm`, `RemoveIf`/`Erase` those of `clearAcknowledgedAlarms`.

* The vector `active_alarms` is a function from push ordinals to alarms, so
  that `erase` need not renumber; order in the vector is order of ordinals.
  The text `ALM<n>` is the number n.
* Reals are integers; what a distribution can draw is a constant set, given by
  the configuration at, below, between and beyond the thresholds.
* An unlocked `size()` returns the size or, while the other thread is inside
  `push_back` or `erase`, possibly `TornSize`, a value with no meaning.
* `total_sensor_updates++` is `CountRead` and `CountWrite`; `updates` is a history
  variable that counts what was done, so that the two can be compared.
* `enabled` of a sensor is never cleared and is left out, and so are the
  polling interval (see `DaemonTime`), time stamps and the messages of alarms.

### CommandChannel

Servers are numbered (`generation`), and each kernel object carries the number
of the server that created it. `names` says what the three names lead to;
`handles[c]` what a client has opened. Unlinking or rebinding a name does not
touch a handle: clients of a dead server keep talking to dead objects until
they time out. A text is known by who sent it and its number; the reply to it
by the command it answers.

Nothing but the semaphores keeps one process from copying into a buffer while
another copies into or out of it. A `Buffer` has a `head` and a `tail`, and each
copy is two steps: `EnterCommand` and `EnterRest` (the client's `strncpy`),
`CopyCommand` and `CopyRest` (the conversion of the command to a `std::string`),
`WriteResponse` and `WriteRest` (the server's `strncpy`, before whose first part
the command is executed), `PrintResponse` and `PrintRest`, `ZeroMemory` and
`ZeroRest` (the `memset`). Whatever any other process does may come in between.
`Joined` is what a reader has read: a whole text when both parts are of one, a
text `Cut` short when its end was zeroed, and `Mixed` when the parts are of
different texts. The head stands for the first byte of a copy and the tail for
the last. Finer interleavings, of the bytes between them or of the two passes of a
copy that measures first (`strlen`) and copies then, put together other
mixtures; all are `Mixed` to the model, which neither looks into one nor claims
anything of it. A mixture that happens to spell a command is still a mixture.

With `Overlap` a server may start while others are anywhere in their set-up,
loop or clean-up, as two daemons or `main.cpp` beside a daemon make them.
`sem_open` has `O_EXCL` and fails when the name has been made meanwhile; the
constructor ignores that, and `Die` is the end of such a server. `shm_open` has
not: `OpenOrCreateMemory` maps the memory of another server, and `ZeroMemory`
wipes it.

Time passes in seconds (`Tick`): sleepers wake, `idle` and `waited` advance.
With `Prompt`, no second passes while a process could run; without, processes
are arbitrarily slow. `Crash` is SIGKILL for a server, `Interrupt` is Ctrl-C for
a client, which has no handler.

`orphans[g]` is a history variable: answers of server g that those who posted to
it will not take. A client whose two semaphores are of different servers takes
an answer that another server owes, so that one debt grows and the other
shrinks.

### Daemon and DaemonTime

Calls of the control program are numbered and make daemon processes with their
number as PID. A call is made with a set of options (`Invocations`); `main`
acts when exactly one action is among them. `pidFile` is what the name leads to;
`writers` are daemons between the creation of the file and the write, who lose
it when somebody removes the name. A read of an empty file leaves the PID
variable uninitialized, and the model takes any (`Garbage`): the PID of nobody,
of a `Foreign` process or of a living daemon. The process groups that `kill`
reads into 0 and negative numbers are left out. `SigTerm` says what the signal
does at each point of a daemon's life: deadly before the handlers, only logged
by the handler of `DaemonBase`, a stop request in `mainLoop`.
`waitWithInterrupt` is translated as it is written, with the negation. `Serial`
lets a call begin only when the one before has ended, `MayFail` lets a fork,
`setsid` or the creation of the PID file fail, `MayCrash` lets others kill a
daemon.

`DaemonTime` extends `Daemon`: every step of `TimedSpec` is a step of `Daemon` or
changes clocks only, except `Abandon`, the Ctrl-C of a user who waits for stop.
A second passes (`Tick`) when nobody has anything left to do in it. Calls are at
least a second apart. `nap` is what is left of the sleep of the monitoring
thread and `slept` its whole length; a new polling interval takes effect with
the next sleep. `WakeUp` may come late although stop was requested: the handler
notifies without the mutex, and the notification can fall between the test of
the predicate and the wait. `ignored` is a history variable: how long a stop
request for a daemon that nobody uses has been pending.

`DaemonControl` has no files, PIDs or signals: a call looks at the daemons
themselves. `up` are those that answer to a signal, `leaving` those that have
done all but exit, and `spoiled` says that a daemon was killed between the
creation of its PID file and the write, which leaves a file that names nobody.
`AnswersAreTrue` is that `DaemonTime` implements it: start succeeds only when no
daemon is there and refuses only when something is or a resource fails, stop succeeds only when
none is left, status says ok only when something is there and failed only when
there is none.

### Text, RadioControl and CommandLine

A text is a sequence of symbols, a symbol being a character or, as no letter is
ever looked at alone, a run of letters. `isValidNumber` is the scan of the code;
`stod` and `stoi` are the longest beginning of the text that is a number, and
its value. Megahertz and dBm are integers in ten-thousandths. A line is the
words that `>>` takes from it and the rest that `getline` takes. Each command is
one step: no other thread touches this state. `asked`, `reply` and `messages`
are the last command and what came of it. `confirmed` and `configured` are
history variables: what a client that remembers the answers to its commands
believes the settings and the configuration to be.

## 3. Runs

Every property of a passing run has a mutant that breaks it under the same
configuration.

| Run | Question | Bounds |
| --- | --- | --- |
| `MonitoringStore` | does the store stay consistent, and implement `AlarmLog`, when both threads update sensors and add alarms? do commands and shutdown complete, each step nearer? is no update counted that was not made? | 1 sensor always across a limit, 2 updates, 2 alarms |
| `MonitoringQuiet` | without UPDATE and CHECK, are alarms justified, snapshots coherent? | 2 sensors, 6 readings, 2 updates, 2 alarms |
| `MonitoringRace` | (violation) are alarms justified with UPDATE and CHECK? | 2 sensors, 1 update |
| `ChannelSoleUser` | does a single user get the own reply, in time, from what is to him the abstract `Service`? are the copies of the buffers kept apart? does the server end and the client never hang, each step and second nearer to its prompt? | 1 client, 2 servers one after the other, 3 commands, crashes |
| `ChannelTwoUsers` | are commands and replies conserved, whatever is mixed up with whatever? are those that are whole real? | 2 clients with 1 command each, 2 servers in any overlap, interrupts, crashes |
| `ChannelStaleReply` | (violation) does a client get its own reply after another was interrupted? | 1 server, 2 commands |
| `DaemonTimed` | for calls a second apart: one daemon, named by its file and reachable? are the answers of start, stop and status true? does a daemon that was asked to stop end in bounded time, and before stop kills it? | 3 calls, failures, crashes, abandoned calls, lost wake-ups |
| `DaemonConcurrent` | does a successful stop stop, do calls and stopped daemons end, are resources freed? | 3 calls in any overlap, failures, crashes |
| `DaemonTwoStarts` | (violation) is there one daemon after two starts in a row? | 2 calls |
| `DaemonRestart` | (violation) does the daemon leave its loop only when asked? | 1 call |
| `RadioCommands` | ranges, read-back, numbers read to their end, mode, agreement of the limits of ALARM | lines of every command, whole, cut short, with values at and beyond the limits; 7 temperatures, 2 powers |
| `RadioStep` | (violation) is the frequency on the 0.1 MHz step? | the same |

What the properties say:

* Store: `AlarmIdsOrdered`, `CountersAgree`, `AlarmsLeaveAcknowledged`,
  `ClearReplyHonest`, `ImplementsAlarmLog`, `NoWriteAfterUnmap`,
  `ShutdownCompletes`, `CommandCompletes`, `EveryStepNears`; sensors:
  `AlarmJustified`, `PublishedCoherent`, `UpdatesCounted` (the count STATUS shows
  is never too high; that the two threads lose increments when a client sends
  UPDATE is what the code does, and permitted).
* Channel: `ReplyIsOwn`, `AnsweredInTime`, `ImplementsService`,
  `ClientNeverHangs`, `EveryStepNears`, `InactivityShutdown` for a single user,
  and `CopiesApart`: the semaphores keep him from writing a command while a server
  copies it, and from reading a reply while one is written or wiped, so that he
  is never the victim of a mixture. `RepliesMatchCommands` for everybody, and
  `RepliesAreReal`: a command that is executed whole was entered, and a reply that
  is shown whole is to a command that was executed whole. With several users
  mixtures are executed and shown (section 6), and the property excepts them.
* Daemon: `AtMostOneDaemon`, `PidFileNamesDaemon`, `ServerReachable`,
  `KilledOnlyWhenLate`, `EndsInTime`, `AnswersAreTrue` for calls that are spaced;
  `StopMeansStopped`, `ResourcesFreed`, `CallsEnd`, `StoppedDaemonEnds` for calls
  in any overlap, where the first three do not hold (section 6).
* Radio: `TypeOK` (SET keeps the ranges), `RangeErrorImpliesDeviation`,
  `TemperatureLevelExact`, `ReadBack`, `NumbersAreRead`, `ManualStateKept`.

Why the bounds are enough. Two alarms make every pair of the store: one
acknowledged and one not, one pushed while the other is being cleared; the
theorems of section 5 lift the bound. The two threads are all there are.
Two servers in a row make every mix of current and stale objects the handles of a
client can be; three commands let a reply be late by one and by two. Two clients
are enough for a post of one to be taken by the other, and two servers for one to
unlink, map or wipe what is the other's; the run is about what is mixed up, not
about sequences of commands, and one command for each client suffices, as the
other client's makes the second. The theorems lift these bounds, too.

The timeouts are scaled (client 3 seconds in place of 5, idle 5 in place of 90;
attempts 2 in place of 10). What the properties depend on is kept: the client
waits longer than the second the server sleeps, and the server stays longer than
the client waits, or `AnsweredInTime` would say nothing. `ChannelTwoUsers` has
`Prompt`, which leaves out schedules in which a process that could run does not
for a second; an interruption, which may come at any moment of the wait, has there
the effect of the timeout that such a schedule would bring, and the theorems
about its two properties assume no promptness. `DaemonTimed` has 1 second of start-up in place of 2,
2 of `waitWithInterrupt` in place of 5, 5 looks of stop in place of 10, 6 of
idle limit in place of 90, and polling intervals of 2 and 6 seconds. Kept is
that the wait and a short polling interval together are less than the patience
of stop, by the one second that decides (section 6), that this patience is less
than the idle limit, and that a client may set an interval longer than it. In `DaemonConcurrent` time is absent, and
`PollLimit` matters only in being finite. Three calls allow a start, a stop or
status and another start, or two stops of one daemon, in any order; the theorems
lift this bound.

`MaxUpdates` and `MaxAlarms` are guards of the steps that begin a round, so that
a round that has begun always ends. The first bounds the updates made, not the
updates counted, which may be fewer.

`CHECK_DEADLOCK FALSE` is set for `Monitoring`, `CommandChannel` and the daemons,
whose programs may stop: users leave, servers and daemons end, and the bounds end
the rest. `CommandLine` must always be able to take a command, and its runs
check for deadlock.

## 4. Fairness

* `Monitoring`: both threads are run by the operating system (WF). `Lock` has
  strong fairness: the mutex is free again and again, as the monitoring thread
  sleeps between two rounds and the main thread a second between two commands,
  so the waiting thread finds it free. No fairness for clients: nobody has to
  send a command or end the server.
* `CommandChannel`: processes that can run do, and time passes. Users need not
  type, exit or start a server, and a server whose set-up failed need not die.
* `Daemon`: processes run, sleeps end. `RunReturns` has no fairness: a server
  in use never leaves `run`, which is why `StoppedDaemonEnds` rests on the
  SIGKILL of `stop`.
* `DaemonTime` has none: what it says about time is said by bounds on clocks
  (`KilledOnlyWhenLate`, `EndsInTime`), which are safety properties.

## 5. Proofs

Everything below is checked by `tlapm` to the last leaf, for every value of the
constants that satisfies the named `ASSUME` of the module, and the further
condition where one is named.

`MonitoringProofs` proves `TypeOK` and every safety property of
`MonitoringStore` from one inductive invariant, `StoreInv`. None of these
properties is inductive alone. That ids are ordered needs `IdIsOrdinal` (an
alarm's id is the ordinal of its push), which needs `CountersInStep` (between
the two halves of `addAlarm` the counters are one further apart, and the id in
hand is the next ordinal), which needs that only one thread is in between:
`MutexHeld` (the mutex is held by exactly the thread that is inside a locked
function). That clearing loses nothing needs `SurvivorsCurrent` (what
`remove_if` has found is still right when `erase` installs it), and the reply of
CLEAR needs `NothingAcknowledged` (only the main thread acknowledges, so
nothing new is acknowledged between the two critical sections). Each action
has a lemma; actions outside the mutex share `OutsideStep`.

* `IdsOrdered`, `CountersCorrect`, `ClearHonest` follow from `StoreInv`;
  `AlarmsKept` is an action property from the same invariant.
* `StoreImplementsLog`: refinement of `AlarmLog`. `PushBack` is `Raise`,
  `AcknowledgeAlarm` is `Acknowledge` or a stutter, `Erase` is
  `ClearAcknowledged`, the rest stutters. By `IdIsOrdinal` the abstract log is
  the column of flags of the vector.
* `UnmapSafe`: from `StopInv`, the position of the two threads at shutdown.
* `AlarmsJustified`: under `QuietCommands` (neither UPDATE nor CHECK is sent).
  `JustifiedInv` says that the sensor keeps, from comparison to `addAlarm`, the
  value that crossed. `MonitoringRace` shows that the condition is needed.
* `UpdatesCorrect`: `UpdatesCounted`, from `CountsReached`: what a thread has loaded
  and will store increased is a count that was reached, so the shown count never
  passes `updates`, also when a thread writes an old count back.
* `StepsNear`: `EveryStepNears`. `StepsLeft` is a natural number for each thread:
  how many steps it has, at most, to the end of the command or the round, over
  all branches and the sensors still to come (`Distance`). Each lemma looks at
  one part of the path: a visit of a sensor (`NextVisit`), the functions both
  threads share (`SharedNears`), the loop (`LoopNears`), the end of a command
  (`FinishNears`).
* `SnapshotCorrect`: `PublishedCoherent` under `QuietCommands` and without
  CLEAR. `CoherentInv` follows the loop that publishes: the sensors before the
  one it is at are published as they are, nobody draws new ones meanwhile, and
  nobody changes the size of the vector between the count and the next round.
  The run sends none of the three either.

`CommandChannelProofs` is about any number of clients, servers that overlap,
crashes and interrupts.

* `TypeCorrect`: `TypeOK` with `Opening`, how far a client that is still
  connecting has counted and opened.
* `RepliesCorrect`: `RepliesMatchCommands`, in the form that what the
  semaphores, the server and the history hold of the answers of g (`Held`) is
  the number of clients that wait for them. Each action moves one command from
  one of these places to the next; a starting server finds nothing of its own,
  which needs `Unstarted` (a server that was not started is off).

* `RealCorrect`: `RepliesAreReal`, from `Real`, which says of every place a part of
  a command passes through (head and tail of the buffer, the copy of a server)
  that the command it is of was entered, and of every place of a part of a reply
  that its command was executed. The places are those of clients and servers that
  overwrite, wipe and share each other's memory in the middle of a copy; a text
  that is read whole has both parts of one command (`JoinedText`), and that this
  one was entered, or executed, survives all of it. That it is one's own does not.
* `StepsNear`: `EveryStepNears`, with `StepsLeft` counting the attempts, steps and
  seconds a client has left.

`SoleUserProofs` adds a condition, `SoleUser(u)`: u is the only user and does not
interrupt his client, servers do not overlap, processes get the processor within
the second, and the client waits for more than one. Crashes of servers and
restarts stay. The invariant `SoleInv` has two parts. `Ordered`: names are
unlinked and made in one order, and objects opened in the same order, so the
handles of a client never get older from the first to the last; a client with
the first semaphore of the living server therefore has its second and its memory,
too (`HandlesInOrder`). `Conversation`: the living server holds the one command
that the client waits for and nothing else (`Owed`); an answer given is one the
client will take (`Answered`); a server that slept when the command was posted
looks within the second (`Soon`); wherever a part of a command or an answer of
this user is, it is of the last (`Contents`), and it is executed at most once
(`Once`). `Contents` goes along the copies: what he has entered is his last command
or wiped (`Commanded`), what a server has in hand is that or its beginning
(`InHand`), and both parts of the response he prints are of one text and stay so
while he does (`Printed`), as no server that shares the memory is still setting up
(`Starting`).

* `ReplyCorrect`, `AnsweredCorrect` and `CopiesCorrect` follow; `ChannelStaleReply`
  shows that the condition about interrupts is needed.
* `ServiceImplemented`: `EnterCommand` is `Ask`, `WriteResponse` is `Execute`
  or, for a command that was wiped or cut, a stutter; `PrintResponse` is `Tell` or
  `Forget`; the end of the client is `Forget`.

`DaemonProofs`, for any number of calls, failures and crashes. The steps of
`Daemon` and of `DaemonTime` are both steps of one relation (`Steps`), about which
the first two are proved.

* `ResourcesCorrect` and `StopCorrect`, for calls in any overlap. `Stopped`
  says of a PID that somebody read, or that is in the file, that its daemon is
  past its write, so that what stop has killed does not write its PID again.
* `OneDaemonCorrect`, `PidFileCorrect`, `ReachableCorrect`, for `TimedSpec` with
  `Serial`. `OneDaemon` is inductive: when a call begins, a second after the last
  one, the daemon of that one has written its PID (`SerialCalls`); the file then
  names the one daemon until it ends (`FileNames`), so a call that goes on to
  remove or replace the file has seen that there is none (`CallsKnow`).
  `DaemonTwoStarts` shows that the second is needed.
* `TimedTypeCorrect`, and `EndCorrect`: a stop request that nobody's use delays is
  obeyed within the idle limit and one sleep of the monitoring thread. `Pending`
  bounds, for each place of the main loop, what has passed by what is left.
* `PatienceCorrect`: `KilledOnlyWhenLate`, when stop waits no longer than the idle
  limit (10 seconds and 90 in the code). `GivenTime` holds for each stop and the
  daemon it has asked: either the daemon has not been idle for longer than stop
  has waited, or what it still has to wait for, added to the seconds of stop, or
  to its own idle time, stays within a bound of its place in the main loop.

`DaemonControlProofs`, for `TimedSpec` with `Serial`, on top of `OneDaemon`:

* `AnswersCorrect`: `AnswersAreTrue`, the refinement of `DaemonControl`. It needs
  that the file a call reads is the file of the one daemon there is
  (`FileNames`, `CallsKnow`), and two facts more (`Honest`): a call has its answer
  only when it is about to return, and a call that probes an arbitrary PID has
  it from a file that is spoiled still (`Stranger`), for nobody mends or
  replaces a file during another's call. `Fork`, `SendTerm`, `Verify` and the
  probes are the answers; the removal of a file is `Mend` or a stutter; daemons
  that end or are killed are `Vanish` and `Depart`. With `MayFail`, as
  in the run, a start may be refused for want of resources at any time, so the
  run says little about when it is refused; the theorem holds for both values,
  and without failures a start is refused only when somebody is there.

`RadioControlProofs`, for all texts and lines in the domain of `Text` (no
exponents, four digits of a fraction) and for all draws in the ranges of the
distributions.

* `TypeCorrect`, `ManualStateCorrect`; `RangeErrorCorrect`, where the range of
  the nominal power, an invariant, meets arithmetic about two limits.
* `ReadBackCorrect`, from the invariant that the settings are what the
  confirmed commands add up to. It is about numbers of up to four decimals, which
  `std::to_string` shows whole; of more than six the code shows a rounded one.
* `NumbersCorrect`: that `isValidNumber` accepts a text implies that it is a
  decimal of `stod` to its last symbol (`ValidIsDecimal` and the lemmas after
  it), so that no part of an accepted text is left unread.
* `TemperatureCorrect`: over every temperature that can be drawn, the messages
  of the chain of comparisons are at most one, of the level the limits imply.

Only model-checked: the liveness properties (`ShutdownCompletes`,
`CommandCompletes`, `InactivityShutdown`, `ClientNeverHangs`, `CallsEnd`,
`StoppedDaemonEnds`): liveness under fairness and ENABLED are out of the prover's
reach. Of three of them the part that does not depend on fairness is proved, as
`EveryStepNears` of the two modules: `ShutdownCompletes` and `CommandCompletes`
(a thread on its way has a bounded number of steps left, and nothing sends it
back) and `ClientNeverHangs`. What TLC adds is that the steps are taken: that no
thread waits for ever for the mutex, the join or a semaphore. No module uses RECURSIVE operators, and no
induction over data is needed: numbers are sums over the positions of a text.

## 6. Where code and documentation disagree

Five runs show a violation:

| Run | Code | Effect |
| --- | --- | --- |
| `DaemonRestart` | `DaemonBase.h:39` | `waitWithInterrupt` is negated: the daemon ends after the first inactivity timeout instead of restarting the server |
| `DaemonTwoStarts` | `DaemonBase.cpp:38` | start returns before the PID file exists; a second start makes a second daemon |
| `MonitoringRace` | `SystemData.cpp:158` | the value is loaded again after the comparison; an alarm records a harmless value |
| `ChannelStaleReply` | `Client.cpp:170` | after an interrupted client all replies come one command late |
| `RadioStep` | `Set.cpp:59` | 25.0004 MHz passes the check of the 0.1 MHz step |

The models contain further behaviour a reader of the documentation would not
expect, for which there is no run of its own:

* Two clients overwrite each other's command in the one buffer
  (`Client.cpp:156`), so `ReplyIsOwn` needs the single user of
  `ChannelSoleUser`; `RepliesMatchCommands` is what remains with two.
* Nor is there a lock around the copies: a command that one client writes while
  the server copies another's (`Server.cpp:270`), or while the other client writes
  its own, is executed as a mixture that nobody entered, and a reply that a server
  writes (`Server.cpp:193`) while a client prints the last (`Client.cpp:172`) is
  shown as a mixture of the two. `ChannelTwoUsers` contains all of these;
  `RepliesAreReal` is what remains for texts that are whole.
* With two servers at once, the second maps the memory of the first where the
  semaphores are its own (`Server.cpp:61`). A client with the semaphores of one
  and the memory of both is answered by whichever is faster to read the buffer,
  and two clients can have one command executed by both servers.
* A server whose `sem_open` fails because another has made the name meanwhile
  goes on with uninitialized `data` (`Server.cpp:48`), and dies (`Die`).
* A server that ends unlinks the names of its successor (`Server.cpp:310`): the
  successor runs on, and no new client can reach it.
* A command posted in the second before the idle timeout is never looked at
  (`Server.cpp:266`): `LoopHead` tests the clock before `Poll`.
* A client is connected before the memory is zeroed (`Server.cpp:80`), and a
  command entered at once may be wiped, or cut short: the reply is then that to an
  empty command, or to the beginning of one, which `ReplyIsOwn` lets pass, and the
  command is not executed.
* `run` ignores the stop request, so stop kills a daemon whose server is in use,
  and the shared memory and semaphores stay behind (`DaemonBase.cpp:122`):
  `ResourcesFreed` excepts exactly this case.
* A polling interval of minutes makes the join of `stopMonitoring` last as long
  (`Server.cpp:228`), and stop kills a daemon that is about to end:
  `KilledOnlyWhenLate` is about shorter intervals. How much shorter matters: stop
  looks ten times, a lost wake-up costs five seconds, and with an interval of
  five seconds the last look and the end of the join fall into the same second,
  so that either may come first. The property therefore asks for less than that.
* `SET automatic_modulation on`, as the client's help says (`Client.cpp:91`), is
  refused (`System.cpp:55`): `isValidBoolean` takes true, false, 1 and 0.
* `MONITOR CONFIG SET polling_interval 5x` is taken for 5 (`MONITOR.cpp:206`):
  `stoi` reads a beginning, and nothing tests the rest, as `isValidNumber` does
  for SET.
* At the end of its input the client loops for ever: `getline` fails and leaves
  an empty command, which is skipped (`Client.cpp:141`). In the model such a
  client stays at the prompt.

## 7. Not modelled

* The window between `shm_open` and `ftruncate` of the server, in which a client
  that maps the memory gets SIGBUS; failures of `shm_open`, `ftruncate` and
  `mmap`, which need a full or missing `/dev/shm`.
* The lengths of texts: the cut of commands at 255 and of replies at 1023
  characters. What is inside a mixture of texts (`Mixed`), and inside one that was
  cut (`Cut`): neither counts as a command, whatever its bytes spell, so what the
  server does on executing one is not followed.
* Exponents and overflow in `stod` and `stoi`; digits after the fourth of a
  fraction, and the rounding to six by `std::to_string`.
* The growth of `active_alarms` while a sensor stays across a threshold: the
  vector is as long as memory allows, and `MaxAlarms` bounds it in the model.
* The state of the random generator that both threads use; the copy of
  `service_enabled` in the shared memory, which is not updated when the service
  is switched off and which nobody reads.
* A second `sem_close` of the same semaphore in the client after a failed
  attempt (`Client.cpp:194`): the process ends right after it.
* The reuse of a PID by another program, except for the arbitrary PID of an
  empty file.
* `clearAllAlarms`, `getSensorConfig`: no caller. Exceptions in `mainLoop`:
  nothing in `Server` throws but failures of allocation and thread creation.
* Vendored GoogleTest, the generated `build` directory, IDE files; the unit
  tests, which were read as a reference for SET, GET and ALARM.

## 8. Plan

Done: all modules of section 2 and their proofs. What is left, in order of
importance:

1. `MonitoringQuiet` with CLEAR: what then holds of the published count is that
   it was the size at some moment of the round, or torn (`Server.cpp:216`).
2. For the daemon what `EveryStepNears` is for the threads and the client: a
   variant for stop, whose looks are counted, and for the end of a daemon.
3. A step for the memory that has a name but no size yet, and for a client that
   dies of it (`Server.cpp:69`); the reuse of a PID (`DaemonBase.cpp:107`). No
   property covers either yet.
4. Larger instances of `ChannelTwoUsers` (two commands for each client, three
   servers), beyond what a run of minutes can hold.
