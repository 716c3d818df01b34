------------------------------- MODULE Daemon -------------------------------
(***************************************************************************)
(* The server daemon and the calls of its control program: start, stop and *)
(* status of DaemonBase, the signals they send, the PID file they all read *)
(* and remove, and the main loop of ServerDaemon, which runs one Server    *)
(* after the other.                                                        *)
(*                                                                         *)
(* Calls are numbered in the order they begin.  A start that gets as far   *)
(* as forking makes the daemon process of the same number, and the number  *)
(* is its PID; a PID is not used twice.                                    *)
(***************************************************************************)
EXTENDS Naturals, FiniteSets

CONSTANTS
    MaxCalls,    \* bound: how many calls are made
    Invocations, \* the options the control program is run with, and "?" for
                 \*   what is none
    Serial,      \* does each call begin when the one before has ended?
    PollLimit,   \* how often stop looks again before it kills
    MayCrash,    \* can a daemon be killed by others than stop?
    MayFail      \* can fork, setsid and the creation of the PID file fail?

ASSUME DaemonAssumption ==
    /\ MaxCalls \in Nat
    /\ Invocations \subseteq SUBSET {"start", "stop", "status", "help", "?"}
    /\ PollLimit \in Nat
    /\ Serial \in BOOLEAN /\ MayCrash \in BOOLEAN /\ MayFail \in BOOLEAN

Calls     == 1..MaxCalls
NoFile    == MaxCalls + 1        \* there is no PID file
NoPid     == MaxCalls + 2        \* a PID file without a PID
Foreign   == MaxCalls + 3        \* the PID of some other program
NoProcess == MaxCalls + 4        \* a PID nobody has
Pids      == Calls \cup {Foreign, NoProcess}
Nobody    == 0

VARIABLES
    pidFile,    \* NoFile, or what the file holds
    writers,    \* the daemons whose stream is open on that file
    begun,      \* how many calls have begun
    kind,       \* what each call is
    call,       \* where it is
    seen,       \* the PID it read
    count,      \* how often stop has looked
    result,     \* what it returned
    daemon,     \* where each daemon is
    running,    \* its isRunning_
    objects     \* the daemon whose Server the IPC names lead to

fileVars   == <<pidFile, writers>>
callVars   == <<begun, kind, call, seen, count, result>>
daemonVars == <<daemon, running, objects>>
vars       == <<fileVars, callVars, daemonVars>>

Init ==
    /\ pidFile = NoFile
    /\ writers = {}
    /\ begun = 0
    /\ kind = [i \in Calls |-> "none"]
    /\ call = [i \in Calls |-> "unborn"]
    /\ seen = [i \in Calls |-> NoProcess]
    /\ count = [i \in Calls |-> 0]
    /\ result = [i \in Calls |-> "none"]
    /\ daemon = [i \in Calls |-> "unborn"]
    /\ running = [i \in Calls |-> FALSE]
    /\ objects = Nobody

-----------------------------------------------------------------------------
(* Processes and files.                                                     *)

Alive(p) == p = Foreign \/ (p \in Calls /\ daemon[p] \notin {"unborn", "dead", "killed"})

\* remove(pidFile): open streams keep the file, not its name.
RemoveFile == pidFile' = NoFile /\ writers' = {}

\* The handler of DaemonBase only logs, the one of ServerDaemon requests the
\* stop, and before there is a handler the signal is deadly.
SigTerm(p) ==
    IF p \notin Calls \/ ~Alive(p) THEN UNCHANGED daemonVars
    ELSE /\ daemon' = IF daemon[p] \in {"create", "write", "install"}
                      THEN [daemon EXCEPT ![p] = "dead"] ELSE daemon
         /\ running' = IF daemon[p] \in {"create", "write", "install", "sleep", "hook"}
                       THEN running ELSE [running EXCEPT ![p] = FALSE]
         /\ UNCHANGED objects

\* What a variable may hold that nobody has assigned a PID to.
Garbage == {p \in Pids : p = NoProcess \/ Alive(p)}

CallAt(i, here, there) == call[i] = here /\ call' = [call EXCEPT ![i] = there]

Return(i, value) == result' = [result EXCEPT ![i] = value]

\* kill(pid, 0) and the file are looked at by every call; what a number
\* read from an empty file holds is left to chance.
Probed(i) == Alive(seen[i])

-----------------------------------------------------------------------------
(* All calls: begin, and read the PID file.                                 *)

MayBegin == Serial => \A j \in 1..begun : call[j] = "done"

Begin(k) ==
    LET i == begun + 1
    IN  /\ begun < MaxCalls /\ MayBegin
        /\ begun' = i
        /\ kind' = [kind EXCEPT ![i] = k]
        /\ call' = [call EXCEPT ![i] = "read"]
        /\ UNCHANGED <<seen, count, result, fileVars, daemonVars>>

\* main of the control program: one action, or nothing is done but to print.
Actions == {"start", "stop", "status"}

parseCommandLine(options) ==
    /\ options \subseteq Actions \cup {"help"}
    /\ Cardinality(options \cap Actions) <= 1

main(options) ==
    /\ parseCommandLine(options) /\ "help" \notin options
    /\ \E k \in options \cap Actions : Begin(k)

ReadPid(i) ==
    \/ /\ pidFile # NoFile
       /\ CallAt(i, "read", "probe")
       /\ \E p \in IF pidFile = NoPid THEN Garbage ELSE {pidFile} :
             seen' = [seen EXCEPT ![i] = p]
       /\ UNCHANGED <<begun, kind, count, result, fileVars, daemonVars>>
    \/ /\ pidFile = NoFile /\ kind[i] = "start"
       /\ CallAt(i, "read", "fork")
       /\ UNCHANGED <<begun, kind, seen, count, result, fileVars, daemonVars>>
    \/ /\ pidFile = NoFile /\ kind[i] # "start"
       /\ CallAt(i, "read", "done")
       /\ Return(i, "failed")
       /\ UNCHANGED <<begun, kind, seen, count, fileVars, daemonVars>>

-----------------------------------------------------------------------------
(* start                                                                    *)

\* Mutant: the answer of kill is taken for its opposite.
ProbeStart_Inverted(i) ==
    /\ kind[i] = "start"
    /\ \/ ~Probed(i) /\ CallAt(i, "probe", "done") /\ Return(i, "failed")
       \/ Probed(i) /\ CallAt(i, "probe", "stale") /\ UNCHANGED result
    /\ UNCHANGED <<begun, kind, seen, count, fileVars, daemonVars>>

ProbeStart(i) ==
    /\ kind[i] = "start"
    /\ \/ Probed(i) /\ CallAt(i, "probe", "done") /\ Return(i, "failed")
       \/ ~Probed(i) /\ CallAt(i, "probe", "stale") /\ UNCHANGED result
    /\ UNCHANGED <<begun, kind, seen, count, fileVars, daemonVars>>

RemoveStale(i) ==
    /\ CallAt(i, "stale", "fork")
    /\ RemoveFile
    /\ UNCHANGED <<begun, kind, seen, count, result, daemonVars>>

\* The caller returns true as soon as the first fork has succeeded, whether or
\* not setsid and the second fork do.
Fork(i) ==
    /\ CallAt(i, "fork", "done")
    /\ \/ /\ Return(i, "ok")
          /\ daemon' = [daemon EXCEPT ![i] = "create"]
       \/ /\ MayFail
          /\ Return(i, "failed") \/ Return(i, "ok")
          /\ UNCHANGED daemon
    /\ UNCHANGED <<begun, kind, seen, count, running, objects, fileVars>>

DaemonAt(i, here, there) ==
    daemon[i] = here /\ daemon' = [daemon EXCEPT ![i] = there]

CreateFile(i) ==
    /\ \/ /\ DaemonAt(i, "create", "write")
          /\ pidFile' = NoPid
          /\ writers' = writers \cup {i}
       \/ /\ MayFail
          /\ DaemonAt(i, "create", "dead")
          /\ UNCHANGED fileVars
    /\ UNCHANGED <<callVars, running, objects>>

WritePid(i) ==
    /\ DaemonAt(i, "write", "install")
    /\ pidFile' = IF i \in writers THEN i ELSE pidFile
    /\ writers' = writers \ {i}
    /\ UNCHANGED <<callVars, running, objects>>

InstallHandler(i) ==
    /\ DaemonAt(i, "install", "sleep")
    /\ running' = [running EXCEPT ![i] = TRUE]
    /\ UNCHANGED <<callVars, objects, fileVars>>

SleepTwoSeconds(i) ==
    /\ DaemonAt(i, "sleep", "hook")
    /\ UNCHANGED <<callVars, running, objects, fileVars>>

\* remove, after mainLoop has returned, and then the end of the process.
Finish(i) ==
    /\ DaemonAt(i, "exit", "end")
    /\ RemoveFile
    /\ UNCHANGED <<callVars, running, objects>>

End(i) ==
    /\ DaemonAt(i, "end", "dead")
    /\ UNCHANGED <<callVars, running, objects, fileVars>>

-----------------------------------------------------------------------------
(* ServerDaemon::mainLoop                                                   *)

HookSignals(i) ==
    /\ DaemonAt(i, "hook", "head")
    /\ UNCHANGED <<callVars, running, objects, fileVars>>

\* Mutant: for (;;), so that only the break leaves the loop.
LoopHead_Endless(i) ==
    /\ DaemonAt(i, "head", "run")
    /\ objects' = i
    /\ UNCHANGED <<callVars, running, fileVars>>

\* while (isDaemonRunning()) { Server server; ... }
LoopHead(i) ==
    /\ \/ running[i] /\ DaemonAt(i, "head", "run") /\ objects' = i
       \/ ~running[i] /\ DaemonAt(i, "head", "exit") /\ UNCHANGED objects
    /\ UNCHANGED <<callVars, running, fileVars>>

\* Server::run returns after 90 seconds without a command, and not earlier
\* when a stop was requested.
RunReturns(i) ==
    /\ DaemonAt(i, "run", "ran")
    /\ UNCHANGED <<callVars, running, objects, fileVars>>

TestRestart(i) ==
    /\ \/ running[i] /\ DaemonAt(i, "ran", "wait")
       \/ ~running[i] /\ DaemonAt(i, "ran", "loop")
    /\ UNCHANGED <<callVars, running, objects, fileVars>>

\* wait_for returns its predicate shouldStop(), after five seconds or when the
\* stop is requested, and waitWithInterrupt returns the negation.
shouldStop(i) == ~running[i]
waitWithInterrupt(i) == ~shouldStop(i)

WaitReturns(i) ==
    /\ \/ waitWithInterrupt(i) /\ DaemonAt(i, "wait", "break")
       \/ ~waitWithInterrupt(i) /\ DaemonAt(i, "wait", "loop")
    /\ UNCHANGED <<callVars, running, objects, fileVars>>

\* Mutant: a server on the heap, which the break leaks.
DestroyServer_NotOnBreak(i) ==
    /\ \/ DaemonAt(i, "loop", "head") /\ objects' = Nobody
       \/ DaemonAt(i, "break", "exit") /\ UNCHANGED objects
    /\ UNCHANGED <<callVars, running, fileVars>>

\* The server goes out of scope, by the end of the loop body or by the break,
\* and unlinks the names whoever's objects they lead to.
DestroyServer(i) ==
    /\ DaemonAt(i, "loop", "head") \/ DaemonAt(i, "break", "exit")
    /\ objects' = Nobody
    /\ UNCHANGED <<callVars, running, fileVars>>

Crash(i) ==
    /\ MayCrash /\ Alive(i)
    /\ daemon' = [daemon EXCEPT ![i] = "killed"]
    /\ UNCHANGED <<callVars, running, objects, fileVars>>

-----------------------------------------------------------------------------
(* stop                                                                     *)

SendTerm(i) ==
    /\ kind[i] = "stop"
    /\ \/ Probed(i) /\ CallAt(i, "probe", "poll") /\ UNCHANGED result
       \/ ~Probed(i) /\ CallAt(i, "probe", "remove") /\ Return(i, "failed")
    /\ SigTerm(seen[i])
    /\ UNCHANGED <<begun, kind, seen, count, fileVars>>

\* Mutant: count <= 10, so that stop looks once too often.
PollStopped_OnceMore(i) ==
    /\ \/ /\ Probed(i) /\ count[i] <= PollLimit
          /\ count' = [count EXCEPT ![i] = @ + 1]
          /\ CallAt(i, "poll", "poll")
       \/ /\ ~Probed(i) \/ count[i] > PollLimit
          /\ CallAt(i, "poll", "verify")
          /\ UNCHANGED count
    /\ UNCHANGED <<begun, kind, seen, result, fileVars, daemonVars>>

\* Mutant: stop waits for as long as the daemon lives.
PollStopped_Patient(i) ==
    /\ \/ Probed(i) /\ UNCHANGED call
       \/ ~Probed(i) /\ CallAt(i, "poll", "verify")
    /\ UNCHANGED <<begun, kind, seen, count, result, fileVars, daemonVars>>

\* Mutant: if for while, stop looks once and kills.
PollStopped_LooksOnce(i) ==
    /\ \/ /\ Probed(i) /\ count[i] < 1
          /\ count' = [count EXCEPT ![i] = @ + 1]
          /\ CallAt(i, "poll", "poll")
       \/ /\ ~Probed(i) \/ count[i] = 1
          /\ CallAt(i, "poll", "verify")
          /\ UNCHANGED count
    /\ UNCHANGED <<begun, kind, seen, result, fileVars, daemonVars>>

PollStopped(i) ==
    /\ \/ /\ Probed(i) /\ count[i] < PollLimit
          /\ count' = [count EXCEPT ![i] = @ + 1]
          /\ CallAt(i, "poll", "poll")
       \/ /\ ~Probed(i) \/ count[i] = PollLimit
          /\ CallAt(i, "poll", "verify")
          /\ UNCHANGED count
    /\ UNCHANGED <<begun, kind, seen, result, fileVars, daemonVars>>

\* Mutant: stop does not kill a daemon that did not stop gracefully.
Verify_Merciful(i) ==
    /\ CallAt(i, "verify", "remove")
    /\ Return(i, "ok")
    /\ UNCHANGED <<begun, kind, seen, count, daemonVars, fileVars>>

\* The last look: the process is gone, or it is killed.
Verify(i) ==
    /\ CallAt(i, "verify", "remove")
    /\ Return(i, "ok")
    /\ daemon' = IF Probed(i) /\ seen[i] \in Calls
                 THEN [daemon EXCEPT ![seen[i]] = "killed"] ELSE daemon
    /\ UNCHANGED <<begun, kind, seen, count, running, objects, fileVars>>

-----------------------------------------------------------------------------
(* status                                                                   *)

\* Mutant: status removes the file of a daemon that runs, too.
ProbeStatus_Removes(i) ==
    /\ kind[i] = "status"
    /\ CallAt(i, "probe", "remove")
    /\ Return(i, IF Probed(i) THEN "ok" ELSE "failed")
    /\ UNCHANGED <<begun, kind, seen, count, fileVars, daemonVars>>

ProbeStatus(i) ==
    /\ kind[i] = "status"
    /\ \/ Probed(i) /\ CallAt(i, "probe", "done") /\ Return(i, "ok")
       \/ ~Probed(i) /\ CallAt(i, "probe", "remove") /\ Return(i, "failed")
    /\ UNCHANGED <<begun, kind, seen, count, fileVars, daemonVars>>

\* stop and status remove the file they have read a PID from.
RemovePidFile(i) ==
    /\ CallAt(i, "remove", "done")
    /\ RemoveFile
    /\ UNCHANGED <<begun, kind, seen, count, result, daemonVars>>

-----------------------------------------------------------------------------

start(i)  == ProbeStart(i) \/ RemoveStale(i) \/ Fork(i)
stop(i)   == SendTerm(i) \/ PollStopped(i) \/ Verify(i)
callStep(i) ==
    ReadPid(i) \/ start(i) \/ stop(i) \/ ProbeStatus(i) \/ RemovePidFile(i)

daemonStep(i) ==
    \/ CreateFile(i) \/ WritePid(i) \/ InstallHandler(i) \/ SleepTwoSeconds(i)
    \/ HookSignals(i) \/ LoopHead(i) \/ TestRestart(i) \/ WaitReturns(i)
    \/ DestroyServer(i) \/ Finish(i) \/ End(i)

Next ==
    \/ \E options \in Invocations : main(options)
    \/ \E i \in Calls : callStep(i) \/ daemonStep(i) \/ RunReturns(i) \/ Crash(i)

Spec == Init /\ [][Next]_vars

\* Every process that can run does.  A server need not run out of commands.
Fairness ==
    \A i \in Calls : WF_vars(callStep(i)) /\ WF_vars(daemonStep(i))

FairSpec == Spec /\ Fairness

-----------------------------------------------------------------------------
(* Properties *)

Up == {"head", "run", "ran", "wait", "loop", "break"}

TypeOK ==
    /\ pidFile \in Calls \cup {NoFile, NoPid}
    /\ writers \subseteq Calls
    /\ begun \in 0..MaxCalls
    /\ kind \in [Calls -> {"none", "start", "stop", "status"}]
    /\ call \in [Calls -> {"unborn", "read", "probe", "stale", "fork", "poll",
                           "verify", "remove", "done"}]
    /\ seen \in [Calls -> Pids]
    /\ count \in [Calls -> 0..PollLimit]
    /\ result \in [Calls -> {"none", "ok", "failed"}]
    /\ daemon \in [Calls -> Up \cup {"unborn", "create", "write", "install",
                                     "sleep", "hook", "exit", "end", "dead",
                                     "killed"}]
    /\ running \in [Calls -> BOOLEAN]
    /\ objects \in Calls \cup {Nobody}
    /\ \A i \in Calls : daemon[i] # "unborn" => kind[i] = "start"

\* The process is there, and has not removed its PID file yet.
Blocking(i) == daemon[i] \notin {"unborn", "dead", "killed", "end"}

\* There is one daemon at most, but for a process about to end that has removed
\* its PID file: start refuses while another one runs.
AtMostOneDaemon == \A i, j \in Calls : Blocking(i) /\ Blocking(j) => i = j

\* While a daemon is in its main loop the PID file names it, so that stop and
\* status find it.
PidFileNamesDaemon ==
    \A i \in Calls : daemon[i] \in Up => pidFile = i

\* When stop has returned true, the daemon it was about is gone, and with it
\* its PID file.
StopMeansStopped ==
    \A i \in Calls :
        kind[i] = "stop" /\ result[i] = "ok" /\ seen[i] \in Calls =>
            /\ ~Alive(seen[i])
            /\ call[i] = "done" => pidFile # seen[i]

\* A daemon leaves its main loop only when it was asked to stop: after 90
\* seconds of inactivity it restarts the server.
LeavesWhenAsked == \A i \in Calls : daemon[i] = "exit" => ~running[i]

\* While a server runs, the names of its shared memory and semaphores lead to
\* its own objects: no other daemon has created them anew or unlinked them.
ServerReachable == \A i \in Calls : daemon[i] = "run" => objects = i

\* The shared memory and the semaphores outlive no daemon but one that was
\* killed, whichever way the others end, and in whatever order.
ResourcesFreed ==
    objects # Nobody => Alive(objects) \/ daemon[objects] = "killed"

\* A call ends; stop, in particular, does not wait for ever for a daemon.
CallsEnd == \A i \in Calls : call[i] = "read" ~> call[i] = "done"

\* A daemon that stop was called for ends, even when its server is in use.
StoppedDaemonEnds ==
    \A i \in Calls :
        kind[i] = "stop" /\ call[i] = "poll" /\ seen[i] \in Calls
            ~> seen[i] \in Calls /\ ~Alive(seen[i])

=============================================================================
