---------------------------- MODULE DaemonProofs ----------------------------
(***************************************************************************)
(* Theorems about Daemon and DaemonTime, for any number of calls and any   *)
(* length of the sleeps.                                                   *)
(***************************************************************************)
EXTENDS DaemonTime, TLAPS

\* The steps of either specification: those of Daemon, and a user who loses
\* patience with stop.
Leave(i) ==
    /\ CallAt(i, "poll", "done")
    /\ UNCHANGED <<begun, kind, seen, count, result, fileVars, daemonVars>>

Step == Next \/ \E i \in Calls : Leave(i)

Steps == Init /\ [][Step]_vars

\* A timed step is a step, or the clocks alone have changed.
LEMMA TimedIsStep == [TimedNext]_timedVars => [Step]_vars
  <1> SUFFICES ASSUME [TimedNext]_timedVars PROVE [Step]_vars
    OBVIOUS
  <1>1. ASSUME NEW options \in Invocations, MakeCall(options) PROVE Step
    BY <1>1 DEF MakeCall, Step, Next
  <1>2. ASSUME NEW i \in Calls, CallGoesOn(i) PROVE Step
    BY <1>2 DEF CallGoesOn, Look, Step, Next, callStep, stop
  <1>3. ASSUME NEW i \in Calls, Abandon(i) PROVE Step
    BY <1>3 DEF Abandon, Step, Leave
  <1>4. ASSUME NEW i \in Calls, daemonGoesOn(i) PROVE Step \/ UNCHANGED vars
    BY <1>4
       DEF daemonGoesOn, Prepare, EnterLoop, LeaveRun, Restart, WakeUp,
           JoinAndDestroy, Depart, NextRound, Step, Next, daemonStep
  <1>5. ASSUME NEW i \in Calls, Serve(i) PROVE UNCHANGED vars
    BY <1>5 DEF Serve
  <1>6. ASSUME NEW i \in Calls, KilledByOthers(i) PROVE Step
    BY <1>6 DEF KilledByOthers, Step, Next
  <1>7. Tick => UNCHANGED vars
    BY DEF Tick
  <1>8. UNCHANGED timedVars => UNCHANGED vars
    BY DEF timedVars
  <1> QED
    BY <1>1, <1>2, <1>3, <1>4, <1>5, <1>6, <1>7, <1>8 DEF TimedNext

LEMMA SpecIsSteps == Spec => Steps
  <1>1. [Next]_vars => [Step]_vars
    BY DEF Step
  <1> QED
    BY <1>1, PTL DEF Spec, Steps

LEMMA TimedSpecIsSteps == TimedSpec => Steps
  <1>1. TimedInit => Init
    BY DEF TimedInit
  <1> QED
    BY <1>1, TimedIsStep, PTL DEF TimedSpec, Steps

-----------------------------------------------------------------------------
(* Types                                                                    *)

LEMMA CallsAreNumbers ==
    ASSUME NEW i \in Calls
    PROVE  i \in Nat /\ i # Nobody /\ i # NoFile /\ i # NoPid /\ i \in Pids
  BY DaemonAssumption DEF Calls, Nobody, NoFile, NoPid, Pids

LEMMA TypeInit == Init => TypeOK
  BY DaemonAssumption DEF Init, TypeOK, Pids, Up

\* TypeOK is not inductive by itself: what a call is tells how far it can have
\* got, and the calls to come have left no trace.
Progress ==
    /\ \A i \in Calls : i > begun => call[i] = "unborn" /\ result[i] = "none"
    /\ \A i \in Calls : call[i] \in {"unborn", "read", "probe", "stale", "fork"}
                           => daemon[i] = "unborn"
    /\ \A i \in Calls : call[i] \in {"stale", "fork"} => kind[i] = "start"
    /\ \A i \in Calls : call[i] \in {"poll", "verify"} => kind[i] = "stop"
    /\ \A i \in Calls : kind[i] = "stop" /\ result[i] = "ok" =>
                           call[i] \in {"remove", "done"}
    /\ \A i \in Calls : kind[i] = "stop" /\ call[i] # "done" /\ call[i] # "remove"
                           => result[i] = "none"

TypeInv == TypeOK /\ Progress

DaemonLabels == Up \cup {"create", "write", "install", "sleep", "hook", "exit",
                         "end", "dead", "killed"}

\* SIGTERM may kill a daemon that has no handler yet, and may end a main loop.
LEMMA SigTermEffect ==
    ASSUME TypeInv, NEW p \in Pids, SigTerm(p)
    PROVE  /\ daemon' = daemon \/ (/\ p \in Calls
                                   /\ daemon[p] \in {"create", "write", "install"}
                                   /\ daemon' = [daemon EXCEPT ![p] = "dead"])
           /\ running' \in [Calls -> BOOLEAN]
           /\ objects' = objects
  BY DEF SigTerm, daemonVars, TypeInv, TypeOK

\* A call begins.
LEMMA BeginType ==
    ASSUME TypeInv, NEW options \in Invocations, main(options)
    PROVE  TypeInv'
  <1>1. PICK k \in Actions : Begin(k)
    BY DEF main
  <1>2. begun + 1 \in Calls
    BY <1>1, DaemonAssumption DEF Begin, Calls, TypeInv, TypeOK
  <1>3. TypeOK'
    BY <1>1, <1>2, DaemonAssumption
       DEF Begin, Actions, TypeInv, TypeOK, Progress, Calls, fileVars, daemonVars
  <1>4. Progress'
    BY <1>1, <1>2, DaemonAssumption
       DEF Begin, Actions, TypeInv, TypeOK, Progress, Calls, fileVars, daemonVars
  <1> QED
    BY <1>3, <1>4 DEF TypeInv

\* A call goes on.
LEMMA CallType ==
    ASSUME TypeInv, NEW i \in Calls, callStep(i) \/ Leave(i)
    PROVE  TypeInv'
  <1> USE DaemonAssumption, CallsAreNumbers
      DEF TypeInv, TypeOK, Progress, CallAt, Return, fileVars, daemonVars
  <1>1. CASE ReadPid(i)
    BY <1>1 DEF ReadPid, Garbage, Pids
  <1>2. CASE ProbeStart(i)
    BY <1>2 DEF ProbeStart
  <1>3. CASE RemoveStale(i)
    BY <1>3 DEF RemoveStale, RemoveFile
  <1>4. CASE Fork(i)
    BY <1>4 DEF Fork
  <1>5. CASE SendTerm(i)
    <2>1. seen[i] \in Pids /\ SigTerm(seen[i])
      BY <1>5 DEF SendTerm
    <2> QED
      BY <1>5, <2>1, SigTermEffect DEF SendTerm
  <1>6. CASE PollStopped(i)
    BY <1>6 DEF PollStopped
  <1>7. CASE Verify(i)
    <2>1. CASE Probed(i) /\ seen[i] \in Calls
      <3>1. /\ call[i] = "verify" /\ call' = [call EXCEPT ![i] = "remove"]
            /\ result' = [result EXCEPT ![i] = "ok"]
            /\ daemon' = [daemon EXCEPT ![seen[i]] = "killed"]
            /\ daemon[seen[i]] # "unborn"
            /\ UNCHANGED <<begun, kind, seen, count, running, objects, pidFile, writers>>
        BY <1>7, <2>1 DEF Verify, Probed, Alive, Calls, Foreign
      <3> QED
        BY <2>1, <3>1
    <2>2. CASE ~(Probed(i) /\ seen[i] \in Calls)
      <3>1. /\ call[i] = "verify" /\ call' = [call EXCEPT ![i] = "remove"]
            /\ result' = [result EXCEPT ![i] = "ok"]
            /\ UNCHANGED <<begun, kind, seen, count, daemon, running, objects, pidFile,
                           writers>>
        BY <1>7, <2>2 DEF Verify
      <3> QED
        BY <3>1
    <2> QED
      BY <2>1, <2>2
  <1>8. CASE ProbeStatus(i)
    BY <1>8 DEF ProbeStatus
  <1>9. CASE RemovePidFile(i)
    BY <1>9 DEF RemovePidFile, RemoveFile
  <1>10. CASE Leave(i)
    BY <1>10 DEF Leave
  <1> QED
    BY <1>1, <1>2, <1>3, <1>4, <1>5, <1>6, <1>7, <1>8, <1>9, <1>10
       DEF callStep, start, stop

\* A daemon goes on, or is killed.
LEMMA DaemonType ==
    ASSUME TypeInv, NEW i \in Calls, daemonStep(i) \/ RunReturns(i) \/ Crash(i)
    PROVE  TypeInv'
  <1>1. ASSUME NEW here \in DaemonLabels, NEW there \in DaemonLabels,
               DaemonAt(i, here, there), UNCHANGED callVars,
               running' \in [Calls -> BOOLEAN], objects' \in Calls \cup {Nobody},
               pidFile' \in Calls \cup {NoFile, NoPid}, writers' \subseteq Calls
        PROVE  TypeInv'
    BY <1>1
       DEF TypeInv, TypeOK, Progress, DaemonAt, callVars, DaemonLabels, Up
  <1> USE DEF DaemonLabels, Up
  <1>2. CASE CreateFile(i)
    BY <1>1, <1>2 DEF CreateFile, fileVars, TypeInv, TypeOK
  <1>3. CASE WritePid(i)
    BY <1>1, <1>3 DEF WritePid, TypeInv, TypeOK
  <1>4. CASE InstallHandler(i)
    BY <1>1, <1>4 DEF InstallHandler, fileVars, TypeInv, TypeOK
  <1>5. CASE Finish(i)
    BY <1>1, <1>5 DEF Finish, RemoveFile, TypeInv, TypeOK
  <1>6. CASE LoopHead(i)
    BY <1>1, <1>6 DEF LoopHead, fileVars, TypeInv, TypeOK
  <1>7. CASE DestroyServer(i)
    BY <1>1, <1>7 DEF DestroyServer, fileVars, TypeInv, TypeOK
  <1>8. CASE SleepTwoSeconds(i) \/ HookSignals(i) \/ RunReturns(i)
             \/ TestRestart(i) \/ WaitReturns(i) \/ End(i)
    BY <1>1, <1>8
       DEF SleepTwoSeconds, HookSignals, RunReturns, TestRestart, WaitReturns, End,
           fileVars, TypeInv, TypeOK
  <1>9. CASE Crash(i)
    <2>1. daemon[i] \in DaemonLabels /\ DaemonAt(i, daemon[i], "killed")
      BY <1>9, DaemonAssumption
         DEF Crash, Alive, DaemonAt, Calls, Foreign, TypeInv, TypeOK
    <2> QED
      BY <1>1, <1>9, <2>1 DEF Crash, fileVars, TypeInv, TypeOK
  <1> QED
    BY <1>2, <1>3, <1>4, <1>5, <1>6, <1>7, <1>8, <1>9 DEF daemonStep

\* TypeInv is inductive.
LEMMA TypeNext == TypeInv /\ [Step]_vars => TypeInv'
  <1>1. TypeInv /\ UNCHANGED vars => TypeInv'
    BY DEF TypeInv, TypeOK, Progress, vars, fileVars, callVars, daemonVars
  <1> QED
    BY <1>1, BeginType, CallType, DaemonType DEF Step, Next

LEMMA TypeInvCorrect == Steps => []TypeInv
  <1>1. Init => TypeInv
    BY TypeInit DEF TypeInv, Progress, Init
  <1> QED
    BY <1>1, TypeNext, PTL DEF Steps

-----------------------------------------------------------------------------
(* The resources of a daemon                                                *)

\* The names lead to a server that exists, or whose daemon was killed.
Owned ==
    objects # Nobody =>
        daemon[objects] \in {"run", "ran", "wait", "loop", "break", "killed"}

LEMMA OwnedCorrect == Steps => []Owned
  <1>1. Init => Owned
    BY DEF Init, Owned
  <1>2. TypeInv /\ Owned /\ [Step]_vars => Owned'
    <2> SUFFICES ASSUME TypeInv, Owned, [Step]_vars PROVE Owned'
      OBVIOUS
    <2> USE CallsAreNumbers DEF Owned, TypeInv, TypeOK
    <2>1. ASSUME NEW i \in Calls, callStep(i) PROVE Owned'
      <3>1. CASE SendTerm(i)
        <4>1. seen[i] \in Pids /\ SigTerm(seen[i])
          BY <3>1 DEF SendTerm
        <4> QED
          BY <4>1, SigTermEffect
      <3>2. CASE Verify(i)
        BY <3>2 DEF Verify
      <3>3. CASE Fork(i)
        BY <3>3 DEF Fork, CallAt, Progress
      <3> QED
        BY <2>1, <3>1, <3>2, <3>3
           DEF callStep, ReadPid, start, ProbeStart, RemoveStale, stop, PollStopped,
               ProbeStatus, RemovePidFile, daemonVars
    <2>3. ASSUME NEW i \in Calls, daemonStep(i) \/ RunReturns(i) \/ Crash(i)
          PROVE  Owned'
      BY <2>3
         DEF daemonStep, CreateFile, WritePid, InstallHandler, SleepTwoSeconds,
             HookSignals, LoopHead, TestRestart, WaitReturns, DestroyServer, Finish,
             End, RunReturns, Crash, DaemonAt
    <2> QED
      BY <2>1, <2>3
         DEF Step, Next, main, Begin, Leave, daemonVars, vars
  <1> QED
    BY <1>1, <1>2, TypeInvCorrect, PTL DEF Steps

\* The shared memory and the semaphores outlive no daemon but one that was
\* killed, in any overlap of any number of calls.
THEOREM ResourcesCorrect == Spec => []ResourcesFreed
  <1>1. TypeInv /\ Owned => ResourcesFreed
    BY CallsAreNumbers DEF TypeInv, TypeOK, Owned, ResourcesFreed, Alive
  <1> QED
    BY <1>1, SpecIsSteps, TypeInvCorrect, OwnedCorrect, PTL

-----------------------------------------------------------------------------
(* What stop promises                                                       *)

\* A PID that was read or is in the file was given to a process; and of a
\* successful stop, the process is gone and does not write its PID again.
Stopped ==
    /\ pidFile \in Calls => daemon[pidFile] \notin {"unborn", "create", "write"}
    /\ \A i \in Calls : seen[i] \in Calls => daemon[seen[i]] # "unborn"
    /\ \A i \in Calls :
          kind[i] = "stop" /\ result[i] = "ok" /\ seen[i] \in Calls =>
              /\ daemon[seen[i]] \in {"dead", "killed"}
              /\ call[i] = "done" => pidFile # seen[i]

\* A step after which the daemons are at most further on, the file is at most
\* removed, and the results are the same keeps this.
LEMMA StoppedKept ==
    ASSUME TypeInv, Stopped,
           \A p \in Calls :
              \/ daemon'[p] = daemon[p]
              \/ /\ daemon[p] \notin {"dead", "killed"}
                 /\ daemon'[p] \notin {"unborn", "create", "write"},
           pidFile' \in {pidFile, NoFile},
           UNCHANGED <<kind, seen, result>>,
           \A i \in Calls :
              /\ call'[i] = "done" /\ call[i] # "done"
              /\ result[i] = "ok" /\ seen[i] \in Calls
              => pidFile' # seen[i]
    PROVE  Stopped'
  BY CallsAreNumbers DEF Stopped

LEMMA CallKeepsStopped ==
    ASSUME TypeInv, Stopped, NEW i \in Calls, callStep(i) \/ Leave(i)
    PROVE  Stopped'
  <1> USE CallsAreNumbers DEF CallAt, TypeInv, TypeOK
  <1>1. CASE ReadPid(i)
    <2>1. CASE pidFile # NoFile
      <3>1. PICK p \in IF pidFile = NoPid THEN Garbage ELSE {pidFile} :
               seen' = [seen EXCEPT ![i] = p]
        BY <1>1, <2>1 DEF ReadPid
      <3>2. p \in Calls => daemon[p] # "unborn"
        BY DaemonAssumption DEF Garbage, Alive, Stopped, Calls, Foreign, NoProcess
      <3>3. /\ call[i] = "read" /\ call' = [call EXCEPT ![i] = "probe"]
            /\ UNCHANGED <<kind, result, pidFile, daemon>>
        BY <1>1, <2>1 DEF ReadPid, fileVars, daemonVars
      <3> QED
        BY <3>1, <3>2, <3>3 DEF Stopped, Progress
    <2>2. CASE pidFile = NoFile
      BY <1>1, <2>2 DEF ReadPid, Stopped, Return, fileVars, daemonVars
    <2> QED
      BY <2>1, <2>2
  <1>2. CASE ProbeStart(i)
    BY <1>2 DEF ProbeStart, Stopped, Progress, Return, fileVars, daemonVars
  <1>3. CASE RemoveStale(i)
    BY <1>3, StoppedKept DEF RemoveStale, RemoveFile, daemonVars
  <1>4. CASE Fork(i)
    BY <1>4 DEF Fork, Stopped, Progress, Return, fileVars
  <1>5. CASE SendTerm(i)
    BY <1>5, SigTermEffect DEF SendTerm, Stopped, Progress, Return, fileVars
  <1>6. CASE PollStopped(i)
    BY <1>6, StoppedKept DEF PollStopped, fileVars, daemonVars
  <1>7. CASE Verify(i)
    BY <1>7 DEF Verify, Probed, Alive, Stopped, Return, fileVars
  <1>8. CASE ProbeStatus(i)
    BY <1>8 DEF ProbeStatus, Stopped, Return, fileVars, daemonVars
  <1>9. CASE RemovePidFile(i)
    BY <1>9, StoppedKept DEF RemovePidFile, RemoveFile, daemonVars
  <1>10. CASE Leave(i)
    BY <1>10, StoppedKept DEF Leave, Progress, fileVars, daemonVars
  <1> QED
    BY <1>1, <1>2, <1>3, <1>4, <1>5, <1>6, <1>7, <1>8, <1>9, <1>10
       DEF callStep, start, stop

LEMMA DaemonKeepsStopped ==
    ASSUME TypeInv, Stopped, NEW i \in Calls,
           daemonStep(i) \/ RunReturns(i) \/ Crash(i)
    PROVE  Stopped'
  <1> USE CallsAreNumbers DEF DaemonAt, TypeInv, TypeOK
  <1>1. CASE CreateFile(i)
    BY <1>1 DEF CreateFile, Stopped, fileVars, callVars
  <1>2. CASE WritePid(i)
    BY <1>2 DEF WritePid, Stopped, callVars
  <1>3. CASE Crash(i)
    BY <1>3, StoppedKept, DaemonAssumption
       DEF Crash, Alive, Calls, Foreign, fileVars, callVars
  <1>4. CASE \/ InstallHandler(i) \/ SleepTwoSeconds(i) \/ HookSignals(i)
             \/ LoopHead(i) \/ RunReturns(i) \/ TestRestart(i) \/ WaitReturns(i)
             \/ DestroyServer(i) \/ Finish(i) \/ End(i)
    BY <1>4, StoppedKept
       DEF InstallHandler, SleepTwoSeconds, HookSignals, LoopHead, RunReturns,
           TestRestart, WaitReturns, DestroyServer, Finish, End, RemoveFile,
           fileVars, callVars
  <1> QED
    BY <1>1, <1>2, <1>3, <1>4 DEF daemonStep

LEMMA StoppedCorrect == Steps => []Stopped
  <1>1. Init => Stopped
    BY DaemonAssumption
       DEF Init, Stopped, NoFile, NoProcess, Calls
  <1>2. TypeInv /\ Stopped /\ [Step]_vars => Stopped'
    <2> SUFFICES ASSUME TypeInv, Stopped, [Step]_vars PROVE Stopped'
      OBVIOUS
    <2>1. ASSUME NEW options \in Invocations, main(options) PROVE Stopped'
      <3>1. PICK k \in Actions : Begin(k)
        BY <2>1 DEF main
      <3> QED
        BY <3>1, DaemonAssumption
           DEF Begin, Stopped, TypeInv, TypeOK, Progress, Calls, fileVars, daemonVars
    <2>2. CASE UNCHANGED vars
      BY <2>2 DEF Stopped, vars, fileVars, callVars, daemonVars
    <2> QED
      BY <2>1, <2>2, CallKeepsStopped, DaemonKeepsStopped DEF Step, Next
  <1> QED
    BY <1>1, <1>2, TypeInvCorrect, PTL DEF Steps

\* When stop has returned true, the daemon it was about is gone and with it its
\* PID file, in any overlap of any number of calls.
THEOREM StopCorrect == Spec => []StopMeansStopped
  <1>1. TypeInv /\ Stopped => StopMeansStopped
    BY CallsAreNumbers, DaemonAssumption
       DEF Stopped, StopMeansStopped, Alive, Calls, Foreign
  <1> QED
    BY <1>1, StoppedCorrect, SpecIsSteps, TypeInvCorrect, PTL

-----------------------------------------------------------------------------
(* One daemon                                                               *)

\* One call at a time, and none before the daemon of the last one has written its
\* PID; the file names the one daemon from then on; a call that is under way has
\* read its PID, and removes or replaces the file only when it is gone; and the
\* names lead to its server.
SerialCalls ==
    /\ \A i \in Calls : i < begun => call[i] = "done"
    /\ rested => \A i \in 1..begun : call[i] = "done"
    /\ \A i \in Calls : daemon[i] \in {"create", "write"} =>
                           i = begun /\ call[i] = "done" /\ ~rested

FileNames ==
    /\ \A i \in Calls : Blocking(i) /\ daemon[i] \notin {"create", "write"} =>
                           pidFile = i
    /\ \A i \in Calls : daemon[i] = "write" => i \in writers

CallsKnow ==
    \A i, j \in Calls :
        Blocking(i) => /\ call[j] \in {"probe", "poll", "verify"} => seen[j] = i
                       /\ call[j] \notin {"stale", "fork", "remove"}

Serving ==
    \A i \in Calls : daemon[i] \in {"run", "ran", "wait", "loop", "break"} =>
                         objects = i

OneDaemon == SerialCalls /\ AtMostOneDaemon /\ FileNames /\ CallsKnow /\ Serving

\* What the clocks leave of a timed step.
LEMMA TimedCases ==
    ASSUME TimedNext
    PROVE  \/ \E options \in Invocations : rested /\ main(options) /\ rested' = FALSE
           \/ \E i \in Calls : /\ \/ callStep(i) \/ Leave(i) \/ daemonStep(i)
                                   \/ RunReturns(i) \/ Crash(i)
                                /\ rested' = rested
           \/ UNCHANGED <<vars, rested>>
           \/ Tick
  <1>1. ASSUME NEW i \in Calls, CallGoesOn(i)
        PROVE  callStep(i) /\ rested' = rested
    BY <1>1 DEF CallGoesOn, Look, callStep, stop, clocks
  <1>2. ASSUME NEW i \in Calls, Abandon(i) PROVE Leave(i) /\ rested' = rested
    BY <1>2 DEF Abandon, Leave, clocks
  <1>3. ASSUME NEW i \in Calls, daemonGoesOn(i)
        PROVE  /\ daemonStep(i) \/ RunReturns(i) \/ UNCHANGED vars
               /\ rested' = rested
    BY <1>3
       DEF daemonGoesOn, Prepare, EnterLoop, LeaveRun, Restart, WakeUp,
           JoinAndDestroy, Depart, NextRound, daemonStep, clocks
  <1>4. ASSUME NEW i \in Calls, Serve(i) PROVE UNCHANGED <<vars, rested>>
    BY <1>4 DEF Serve
  <1>5. ASSUME NEW i \in Calls, KilledByOthers(i)
        PROVE  Crash(i) /\ rested' = rested
    BY <1>5 DEF KilledByOthers, clocks
  <1>6. ASSUME NEW options \in Invocations, MakeCall(options)
        PROVE  rested /\ main(options) /\ rested' = FALSE
    BY <1>6 DEF MakeCall
  <1> QED
    BY <1>1, <1>2, <1>3, <1>4, <1>5, <1>6 DEF TimedNext

\* The call that is under way is the last one, and no daemon is young.
LEMMA LastCall ==
    ASSUME TypeInv, SerialCalls, NEW i \in Calls,
           call[i] \notin {"unborn", "done"}
    PROVE  /\ i = begun /\ ~rested
           /\ \A j \in Calls : daemon[j] \notin {"create", "write"}
           /\ \A j \in Calls : j # i => call[j] \in {"unborn", "done"}
  BY DaemonAssumption DEF TypeInv, TypeOK, Progress, SerialCalls, Calls

\* A call begins only when all others are done and no daemon is young.
LEMMA BeginKeepsOne ==
    ASSUME Serial, TypeInv, OneDaemon, NEW options \in Invocations, rested,
           main(options), rested' = FALSE
    PROVE  OneDaemon'
  <1>1. PICK k \in Actions : Begin(k)
    BY DEF main
  <1>2. /\ begun' = begun + 1 /\ begun + 1 \in Calls
        /\ call' = [call EXCEPT ![begun + 1] = "read"]
        /\ UNCHANGED <<seen, pidFile, writers, daemon, objects>>
    BY <1>1, DaemonAssumption
       DEF Begin, Calls, TypeInv, TypeOK, fileVars, daemonVars
  <1>3. \A i \in Calls : daemon[i] \notin {"create", "write"}
    BY DEF OneDaemon, SerialCalls
  <1>4. \A i \in Calls : i < begun + 1 => call[i] = "done"
    BY DEF OneDaemon, SerialCalls, TypeInv, TypeOK, Calls
  <1>5. SerialCalls'
    BY <1>2, <1>3, <1>4, rested' = FALSE DEF SerialCalls, TypeInv, TypeOK, Calls
  <1>6. AtMostOneDaemon' /\ FileNames' /\ Serving'
    BY <1>2 DEF OneDaemon, AtMostOneDaemon, FileNames, Serving, Blocking
  <1>7. CallsKnow'
    BY <1>2 DEF OneDaemon, CallsKnow, Blocking, TypeInv, TypeOK
  <1> QED
    BY <1>5, <1>6, <1>7 DEF OneDaemon

\* A step of a call that makes no daemon, and leaves one only where it was or
\* ends it.
LEMMA OneKept ==
    ASSUME TypeInv, OneDaemon, NEW i \in Calls,
           call[i] \notin {"unborn", "done"},
           call' = [call EXCEPT ![i] = call'[i]],
           seen' = [seen EXCEPT ![i] = seen'[i]],
           \A j \in Calls : daemon'[j] = daemon[j] \/ daemon'[j] \in {"dead", "killed"},
           UNCHANGED <<begun, objects, rested>>,
           \/ UNCHANGED <<pidFile, writers>>
           \/ \A j \in Calls : ~Blocking(j),
           \A j \in Calls : Blocking(j)' =>
              /\ call'[i] \in {"probe", "poll", "verify"} => seen'[i] = j
              /\ call'[i] \notin {"stale", "fork", "remove"}
    PROVE  OneDaemon'
  <1> USE DEF TypeInv, TypeOK
  <1>1. \A j \in Calls : Blocking(j)' => Blocking(j) /\ daemon'[j] = daemon[j]
    BY DEF Blocking
  <1>2. /\ i = begun /\ ~rested
        /\ \A j \in Calls : daemon[j] \notin {"create", "write"}
    BY LastCall DEF OneDaemon
  <1>3. SerialCalls'
    BY <1>2, DaemonAssumption DEF OneDaemon, SerialCalls, Calls
  <1>4. AtMostOneDaemon'
    BY <1>1 DEF OneDaemon, AtMostOneDaemon
  <1>5. FileNames'
    BY <1>1, <1>2 DEF OneDaemon, FileNames
  <1>6. CallsKnow'
    BY <1>1 DEF OneDaemon, CallsKnow
  <1>7. Serving'
    BY <1>1, <1>2 DEF OneDaemon, Serving
  <1> QED
    BY <1>3, <1>4, <1>5, <1>6, <1>7 DEF OneDaemon

LEMMA CallKeepsOne ==
    ASSUME TypeInv, OneDaemon, NEW i \in Calls, callStep(i) \/ Leave(i),
           rested' = rested
    PROVE  OneDaemon'
  <1> USE CallsAreNumbers DEF CallAt, TypeInv, TypeOK
  <1>0. call[i] \notin {"unborn", "done"}
    BY DEF callStep, Leave, ReadPid, start, ProbeStart, RemoveStale, Fork, stop,
           SendTerm, PollStopped, Verify, ProbeStatus, RemovePidFile, Progress
  <1>1. /\ i = begun /\ ~rested
        /\ \A j \in Calls : daemon[j] \notin {"create", "write"}
        /\ \A j \in Calls : j # i => call[j] \in {"unborn", "done"}
    BY <1>0, LastCall DEF OneDaemon
  <1>2. \A j \in Calls : Blocking(j) => /\ Alive(j) /\ pidFile = j
                                        /\ call[i] \in {"probe", "poll", "verify"}
                                              => seen[i] = j
                                        /\ call[i] \notin {"stale", "fork", "remove"}
    BY <1>1 DEF OneDaemon, CallsKnow, FileNames, Blocking, Alive
  <1>3. CASE ReadPid(i)
    <2>1. CASE pidFile # NoFile
      <3>1. PICK p \in IF pidFile = NoPid THEN Garbage ELSE {pidFile} :
               seen' = [seen EXCEPT ![i] = p]
        BY <1>3, <2>1 DEF ReadPid
      <3>2. /\ call' = [call EXCEPT ![i] = call'[i]] /\ call'[i] = "probe"
            /\ UNCHANGED <<begun, objects, pidFile, writers, daemon>>
        BY <1>3, <2>1 DEF ReadPid, fileVars, daemonVars
      <3>3. seen' = [seen EXCEPT ![i] = seen'[i]] /\ seen'[i] = p
        BY <3>1
      <3>4. \A j \in Calls : Blocking(j)' => seen'[i] = j
        BY <1>2, <2>1, <3>1, <3>2, <3>3 DEF Blocking
      <3> QED
        BY <1>0, <3>2, <3>3, <3>4, OneKept
    <2>2. CASE pidFile = NoFile
      <3>1. \A j \in Calls : ~Blocking(j)
        BY <1>2, <2>2
      <3>2. /\ call' = [call EXCEPT ![i] = call'[i]]
            /\ call'[i] \in {"fork", "done"}
            /\ UNCHANGED <<begun, seen, objects, pidFile, writers, daemon>>
        BY <1>3, <2>2 DEF ReadPid, fileVars, daemonVars
      <3> QED
        BY <1>0, <3>1, <3>2, OneKept DEF Blocking
    <2> QED
      BY <2>1, <2>2
  <1>4. CASE ProbeStart(i)
    <2>1. \A j \in Calls : Blocking(j) => Probed(i)
      BY <1>2, <1>4 DEF ProbeStart, Probed
    <2>2. /\ call' = [call EXCEPT ![i] = call'[i]]
          /\ call'[i] = IF Probed(i) THEN "done" ELSE "stale"
          /\ UNCHANGED <<begun, seen, objects, pidFile, writers, daemon>>
      BY <1>4 DEF ProbeStart, fileVars, daemonVars
    <2> QED
      BY <1>0, <2>1, <2>2, OneKept DEF Blocking
  <1>5. CASE RemoveStale(i)
    <2>1. \A j \in Calls : ~Blocking(j)
      BY <1>2, <1>5 DEF RemoveStale
    <2>2. /\ call' = [call EXCEPT ![i] = call'[i]] /\ call'[i] = "fork"
          /\ UNCHANGED <<begun, seen, objects, daemon>>
      BY <1>5 DEF RemoveStale, daemonVars
    <2> QED
      BY <1>0, <2>1, <2>2, OneKept DEF Blocking
  <1>6. CASE Fork(i)
    <2>1. \A j \in Calls : ~Blocking(j)
      BY <1>2, <1>6 DEF Fork
    <2>2. /\ call' = [call EXCEPT ![i] = call'[i]] /\ call'[i] = "done"
          /\ daemon' = [daemon EXCEPT ![i] = daemon'[i]]
          /\ daemon'[i] \in {daemon[i], "create"}
          /\ UNCHANGED <<begun, seen, objects, pidFile, writers>>
      BY <1>6 DEF Fork, fileVars
    <2>3. \A j \in Calls : Blocking(j)' => j = i /\ daemon'[j] = "create"
      BY <2>1, <2>2 DEF Blocking
    <2>4. \A j \in Calls : call'[j] \in {"unborn", "done"}
      BY <1>1, <2>2
    <2>5. SerialCalls'
      BY <1>1, <2>2, <2>3, DaemonAssumption
         DEF OneDaemon, SerialCalls, Calls, Blocking
    <2>6. AtMostOneDaemon' /\ FileNames' /\ CallsKnow' /\ Serving'
      BY <1>1, <2>2, <2>3, <2>4
         DEF AtMostOneDaemon, FileNames, CallsKnow, Serving, Blocking
    <2> QED
      BY <2>5, <2>6 DEF OneDaemon
  <1>7. CASE SendTerm(i)
    <2>1. seen[i] \in Pids /\ SigTerm(seen[i])
      BY <1>7 DEF SendTerm
    <2>2. /\ \A j \in Calls : daemon'[j] = daemon[j] \/ daemon'[j] \in {"dead", "killed"}
          /\ objects' = objects
      BY <2>1, SigTermEffect
    <2>3. \A j \in Calls : Blocking(j) => Probed(i) /\ seen[i] = j
      BY <1>2, <1>7 DEF SendTerm, Probed
    <2>4. /\ call' = [call EXCEPT ![i] = call'[i]]
          /\ call'[i] = IF Probed(i) THEN "poll" ELSE "remove"
          /\ UNCHANGED <<begun, seen, pidFile, writers>>
      BY <1>7 DEF SendTerm, fileVars
    <2>5. \A j \in Calls : Blocking(j)' => Blocking(j)
      BY <2>2 DEF Blocking
    <2> QED
      BY <1>0, <2>2, <2>3, <2>4, <2>5, OneKept
  <1>8. CASE PollStopped(i)
    <2>1. /\ call[i] = "poll"
          /\ call' = [call EXCEPT ![i] = call'[i]]
          /\ call'[i] \in {"poll", "verify"}
          /\ UNCHANGED <<begun, seen, objects, pidFile, writers, daemon>>
      BY <1>8 DEF PollStopped, fileVars, daemonVars
    <2> QED
      BY <1>0, <1>2, <2>1, OneKept DEF Blocking
  <1>9. CASE Verify(i)
    <2>1. /\ call[i] = "verify"
          /\ call' = [call EXCEPT ![i] = call'[i]] /\ call'[i] = "remove"
          /\ UNCHANGED <<begun, seen, objects, pidFile, writers>>
      BY <1>9 DEF Verify, fileVars
    <2>2. \A j \in Calls : Blocking(j) => Probed(i) /\ seen[i] = j
      BY <1>2, <2>1 DEF Probed
    <2>3. \A j \in Calls : daemon'[j] = daemon[j] \/ daemon'[j] = "killed"
      BY <1>9 DEF Verify
    <2>4. \A j \in Calls : ~Blocking(j)'
      BY <1>9, <2>2, <2>3 DEF Verify, Blocking
    <2> QED
      BY <1>0, <2>1, <2>3, <2>4, OneKept
  <1>10. CASE ProbeStatus(i)
    <2>1. \A j \in Calls : Blocking(j) => Probed(i)
      BY <1>2, <1>10 DEF ProbeStatus, Probed
    <2>2. /\ call' = [call EXCEPT ![i] = call'[i]]
          /\ call'[i] = IF Probed(i) THEN "done" ELSE "remove"
          /\ UNCHANGED <<begun, seen, objects, pidFile, writers, daemon>>
      BY <1>10 DEF ProbeStatus, fileVars, daemonVars
    <2> QED
      BY <1>0, <2>1, <2>2, OneKept DEF Blocking
  <1>11. CASE RemovePidFile(i)
    <2>1. \A j \in Calls : ~Blocking(j) /\ ~Blocking(j)'
      BY <1>2, <1>11 DEF RemovePidFile, daemonVars, Blocking
    <2>2. /\ call' = [call EXCEPT ![i] = call'[i]] /\ call'[i] = "done"
          /\ UNCHANGED <<begun, seen, objects, daemon>>
      BY <1>11 DEF RemovePidFile, daemonVars
    <2> QED
      BY <1>0, <2>1, <2>2, OneKept DEF Blocking
  <1>12. CASE Leave(i)
    <2>1. /\ call' = [call EXCEPT ![i] = call'[i]] /\ call'[i] = "done"
          /\ UNCHANGED <<begun, seen, objects, pidFile, writers, daemon>>
      BY <1>12 DEF Leave, fileVars, daemonVars
    <2> QED
      BY <1>0, <2>1, OneKept DEF Blocking
  <1> QED
    BY <1>3, <1>4, <1>5, <1>6, <1>7, <1>8, <1>9, <1>10, <1>11, <1>12
       DEF callStep, start, stop

\* A daemon goes on by itself, or is killed by others.
LEMMA DaemonKeepsOne ==
    ASSUME TypeInv, OneDaemon, NEW i \in Calls,
           daemonStep(i) \/ RunReturns(i) \/ Crash(i), rested' = rested
    PROVE  OneDaemon'
  <1> USE CallsAreNumbers DEF DaemonAt, TypeInv, TypeOK
  <1>1. ASSUME NEW there \in DaemonLabels, daemon[i] \notin {"unborn", "dead", "killed"},
               daemon' = [daemon EXCEPT ![i] = there],
               there # "unborn",
               Blocking(i)' => Blocking(i),
               there = "create" => daemon[i] = "create",
               there = "write" => daemon[i] \in {"create", "write"} /\ i \in writers',
               \/ pidFile' = pidFile
               \/ Blocking(i) /\ there \in {"write", "end"}
               \/ Blocking(i) /\ pidFile' = i,
               Blocking(i)' /\ there \notin {"create", "write"} => pidFile' = i,
               writers' = writers \/ Blocking(i),
               objects' = objects \/ Blocking(i),
               there \in {"run", "ran", "wait", "loop", "break"} => objects' = i,
               UNCHANGED callVars
        PROVE  OneDaemon'
    <2>1. /\ \A j \in Calls : Blocking(j)' => Blocking(j)
          /\ \A j \in Calls : j # i => daemon'[j] = daemon[j]
          /\ daemon'[i] = there
      BY <1>1 DEF Blocking
    <2>2. \A j \in Calls : Blocking(i) /\ Blocking(j) => j = i
      BY DEF OneDaemon, AtMostOneDaemon
    <2>3. \A j \in Calls : daemon[j] \in {"run", "ran", "wait", "loop", "break",
                                          "create", "write"} => Blocking(j)
      BY DEF Blocking
    <2>4. SerialCalls'
      BY <1>1, <2>1 DEF OneDaemon, SerialCalls, callVars
    <2>5. AtMostOneDaemon'
      BY <2>1 DEF OneDaemon, AtMostOneDaemon
    <2>6. FileNames'
      BY <1>1, <2>1, <2>2, <2>3 DEF OneDaemon, FileNames
    <2>7. CallsKnow'
      BY <1>1, <2>1 DEF OneDaemon, CallsKnow, callVars
    <2>8. Serving'
      BY <1>1, <2>1, <2>2, <2>3 DEF OneDaemon, Serving
    <2> QED
      BY <2>4, <2>5, <2>6, <2>7, <2>8 DEF OneDaemon
  <1>2. /\ Blocking(i) /\ daemon[i] \notin {"create", "write"} => pidFile = i
        /\ daemon[i] = "write" => i \in writers
        /\ daemon[i] \in {"run", "ran", "wait", "loop", "break"} => objects = i
    BY DEF OneDaemon, FileNames, Serving
  <1> USE DEF DaemonLabels, Up
  <1>3. CASE CreateFile(i)
    BY <1>1, <1>2, <1>3 DEF CreateFile, fileVars, Blocking
  <1>4. CASE WritePid(i)
    BY <1>1, <1>2, <1>4 DEF WritePid, Blocking
  <1>5. CASE InstallHandler(i) \/ SleepTwoSeconds(i) \/ HookSignals(i)
    BY <1>1, <1>2, <1>5
       DEF InstallHandler, SleepTwoSeconds, HookSignals, fileVars, Blocking
  <1>6. CASE LoopHead(i)
    BY <1>1, <1>2, <1>6 DEF LoopHead, fileVars, Blocking
  <1>7. CASE RunReturns(i) \/ TestRestart(i) \/ WaitReturns(i)
    BY <1>1, <1>2, <1>7
       DEF RunReturns, TestRestart, WaitReturns, fileVars, Blocking
  <1>8. CASE DestroyServer(i)
    BY <1>1, <1>2, <1>8 DEF DestroyServer, fileVars, Blocking
  <1>9. CASE Finish(i)
    BY <1>1, <1>2, <1>9 DEF Finish, RemoveFile, Blocking
  <1>10. CASE End(i)
    BY <1>1, <1>2, <1>10 DEF End, fileVars, Blocking
  <1>11. CASE Crash(i)
    <2>1. daemon[i] \notin {"unborn", "dead", "killed"}
      BY <1>11, DaemonAssumption DEF Crash, Alive, Calls, Foreign
    <2> QED
      BY <1>1, <1>2, <1>11, <2>1 DEF Crash, fileVars, Blocking
  <1> QED
    BY <1>3, <1>4, <1>5, <1>6, <1>7, <1>8, <1>9, <1>10, <1>11 DEF daemonStep

\* A second passes only when no daemon is young.
LEMMA TickKeepsOne ==
    ASSUME TypeInv, OneDaemon, Tick
    PROVE  OneDaemon'
  <1>1. /\ \A i \in Calls : daemon[i] \notin {"create", "write"}
        /\ rested' = \A i \in 1..begun : call[i] = "done"
        /\ UNCHANGED <<begun, call, seen, pidFile, writers, daemon, objects>>
    BY DEF Tick, DaemonDue, vars, fileVars, callVars, daemonVars
  <1>2. SerialCalls'
    BY <1>1 DEF OneDaemon, SerialCalls
  <1>3. AtMostOneDaemon' /\ FileNames' /\ CallsKnow' /\ Serving'
    BY <1>1 DEF OneDaemon, AtMostOneDaemon, FileNames, CallsKnow, Serving, Blocking
  <1> QED
    BY <1>2, <1>3 DEF OneDaemon

LEMMA OneDaemonAlways == ASSUME Serial PROVE TimedSpec => []OneDaemon
  <1>1. TimedInit => OneDaemon
    <2> SUFFICES ASSUME TimedInit PROVE OneDaemon
      OBVIOUS
    <2>1. begun = 0 /\ \A i \in Calls : daemon[i] = "unborn"
      BY DEF TimedInit, Init
    <2>2. SerialCalls
      BY <2>1 DEF SerialCalls, Calls
    <2> QED
      BY <2>1, <2>2
         DEF OneDaemon, AtMostOneDaemon, FileNames, CallsKnow, Serving, Blocking
  <1>2. TypeInv /\ OneDaemon /\ [TimedNext]_timedVars => OneDaemon'
    <2> SUFFICES ASSUME TypeInv, OneDaemon, [TimedNext]_timedVars PROVE OneDaemon'
      OBVIOUS
    <2>1. CASE UNCHANGED <<vars, rested>>
      BY <2>1
         DEF OneDaemon, SerialCalls, AtMostOneDaemon, FileNames, CallsKnow, Serving,
             Blocking, vars, fileVars, callVars, daemonVars
    <2>2. CASE UNCHANGED timedVars
      BY <2>1, <2>2 DEF timedVars, clocks
    <2> QED
      BY <2>1, <2>2, TimedCases, BeginKeepsOne, CallKeepsOne, DaemonKeepsOne,
         TickKeepsOne, Serial
  <1> QED
    BY <1>1, <1>2, TimedSpecIsSteps, TypeInvCorrect, PTL DEF TimedSpec

\* When calls are made one after the other, each a second after the one before
\* has ended, there is one daemon at most, but for a process about to end that
\* has removed its PID file: however many calls, whatever fails, and whoever is
\* killed.
THEOREM OneDaemonCorrect == ASSUME Serial PROVE TimedSpec => []AtMostOneDaemon
  <1>1. OneDaemon => AtMostOneDaemon
    BY DEF OneDaemon
  <1> QED
    BY <1>1, OneDaemonAlways, PTL

\* Then the PID file names the daemon while it is in its main loop.
THEOREM PidFileCorrect == ASSUME Serial PROVE TimedSpec => []PidFileNamesDaemon
  <1>1. OneDaemon => PidFileNamesDaemon
    BY DEF OneDaemon, FileNames, Blocking, PidFileNamesDaemon, Up
  <1> QED
    BY <1>1, OneDaemonAlways, PTL

\* Then no other daemon takes the names of its shared memory and semaphores
\* from a server that runs.
THEOREM ReachableCorrect == ASSUME Serial PROVE TimedSpec => []ServerReachable
  <1>1. OneDaemon => ServerReachable
    BY DEF OneDaemon, Serving, ServerReachable
  <1> QED
    BY <1>1, OneDaemonAlways, PTL

-----------------------------------------------------------------------------
(* The clocks                                                               *)

\* A sleep is bounded by the longest interval.
LEMMA NapBound ==
    ASSUME ClocksOK, NEW i \in Calls
    PROVE  /\ nap[i] \in Nat /\ slept[i] \in Nat /\ interval[i] \in Nat
           /\ nap[i] <= slept[i] /\ slept[i] <= LongestNap
           /\ nap[i] <= LongestNap /\ interval[i] <= LongestNap
  <1>1. /\ slept[i] \in Intervals \cup {DefaultInterval, 0}
        /\ interval[i] \in Intervals \cup {DefaultInterval}
        /\ nap[i] \in Nat /\ nap[i] <= slept[i]
    BY DEF ClocksOK
  <1>2. \A n \in Intervals \cup {DefaultInterval, 0} : n \in Nat /\ n <= LongestNap
    BY TimeAssumption
  <1>3. /\ slept[i] \in Nat /\ slept[i] <= LongestNap
        /\ interval[i] \in Nat /\ interval[i] <= LongestNap
    BY <1>1, <1>2, Zenon
  <1> QED
    BY <1>1, <1>3, TimeAssumption

\* Every step leaves the clocks in their ranges.
LEMMA ClocksNext == ClocksOK /\ [TimedNext]_timedVars => ClocksOK'
  <1> SUFFICES ASSUME ClocksOK, [TimedNext]_timedVars PROVE ClocksOK'
    OBVIOUS
  <1> USE TimeAssumption DEF ClocksOK
  <1>1. CASE UNCHANGED clocks
    BY <1>1 DEF clocks
  <1>2. ASSUME NEW options \in Invocations, MakeCall(options) PROVE ClocksOK'
    BY <1>2 DEF MakeCall
  <1>3. ASSUME NEW i \in Calls, CallGoesOn(i) \/ Abandon(i) \/ KilledByOthers(i)
        PROVE  ClocksOK'
    BY <1>1, <1>3 DEF CallGoesOn, Look, Abandon, KilledByOthers
  <1>4. ASSUME NEW i \in Calls, Serve(i) PROVE ClocksOK'
    BY <1>4 DEF Serve
  <1>5. ASSUME NEW i \in Calls, daemonGoesOn(i) PROVE ClocksOK'
    <2>1. CASE Prepare(i)
      BY <1>1, <2>1 DEF Prepare
    <2>2. CASE EnterLoop(i)
      BY <2>2 DEF EnterLoop
    <2>3. CASE LeaveRun(i) \/ JoinAndDestroy(i) \/ Depart(i)
      BY <1>1, <2>3 DEF LeaveRun, JoinAndDestroy, Depart
    <2>4. CASE Restart(i) \/ WakeUp(i)
      BY <2>4 DEF Restart, WakeUp
    <2>5. CASE NextRound(i)
      <3>1. interval[i] \in Intervals \cup {DefaultInterval} /\ interval[i] \in Nat
        BY NapBound
      <3> QED
        BY <2>5, <3>1 DEF NextRound
    <2> QED
      BY <1>5, <2>1, <2>2, <2>3, <2>4, <2>5 DEF daemonGoesOn
  <1>6. CASE Tick
    <2> SUFFICES ASSUME NEW i \in Calls
                 PROVE  /\ timer'[i] \in 0..(IF WaitSeconds > StartupDelay
                                             THEN WaitSeconds ELSE StartupDelay)
                        /\ idle'[i] \in Nat /\ ignored'[i] \in Nat
                        /\ interval'[i] \in Intervals \cup {DefaultInterval}
                        /\ slept'[i] \in Intervals \cup {DefaultInterval, 0}
                        /\ nap'[i] \in Nat /\ nap'[i] <= slept'[i]
      BY <1>6 DEF Tick
    <2>1. /\ timer'[i] = Down(timer[i])
          /\ nap'[i] = IF Alive(i) THEN Down(nap[i]) ELSE 0
          /\ slept'[i] = IF Alive(i) THEN slept[i] ELSE 0
          /\ interval'[i] = IF Alive(i) THEN interval[i] ELSE DefaultInterval
          /\ idle'[i] = IF daemon[i] \in Up THEN idle[i] + 1 ELSE 0
          /\ ignored'[i] = IF daemon[i] \in Up /\ shouldStop(i)
                           THEN ignored[i] + 1 ELSE 0
      BY <1>6 DEF Tick
    <2>2. Down(nap[i]) \in Nat /\ Down(nap[i]) <= slept[i]
      BY NapBound DEF Down
    <2>3. Down(timer[i]) \in 0..(IF WaitSeconds > StartupDelay
                                 THEN WaitSeconds ELSE StartupDelay)
      BY DEF Down
    <2> QED
      BY <2>1, <2>2, <2>3
  <1>7. UNCHANGED timedVars => UNCHANGED clocks
    BY DEF timedVars
  <1> QED
    BY <1>1, <1>2, <1>3, <1>4, <1>5, <1>6, <1>7 DEF TimedNext

\* The types of the daemon in time, and that no sleep of the monitoring thread is
\* longer than the interval it was begun with.
THEOREM TimedTypeCorrect == TimedSpec => []TimedTypeOK
  <1>1. TimedInit => ClocksOK
    BY TimeAssumption DEF TimedInit, ClocksOK
  <1>2. TypeInv /\ ClocksOK => TimedTypeOK
    BY DEF TypeInv, TimedTypeOK
  <1> QED
    BY <1>1, <1>2, ClocksNext, TimedSpecIsSteps, TypeInvCorrect, PTL DEF TimedSpec

\* For how long a request can have been pending, by where the daemon is: none is
\* while running; a server that is not used returns at the idle limit; the wait of
\* five seconds was begun without a request; and then the thread is joined.
Young == {"unborn", "create", "write", "install", "sleep", "hook"}

PendingOf(i) ==
    /\ running[i] \/ daemon[i] \in Young => ignored[i] = 0
    /\ daemon[i] = "run" => ignored[i] <= idle[i] /\ idle[i] <= IdleLimit
    /\ daemon[i] = "ran" => ignored[i] <= IdleLimit
    /\ daemon[i] = "wait" => ignored[i] + timer[i] <= WaitSeconds
    /\ daemon[i] \in Joining => ignored[i] + nap[i] <= IdleLimit + LongestNap
    /\ ignored[i] <= IdleLimit + LongestNap

Pending == \A i \in Calls : PendingOf(i)

\* A call makes a daemon, ends one, or asks it to stop.
LEMMA CallOnDaemons ==
    ASSUME TypeInv, NEW i \in Calls, callStep(i)
    PROVE  \A j \in Calls :
              /\ running'[j] => running[j]
              /\ \/ daemon'[j] = daemon[j]
                 \/ daemon'[j] \in {"dead", "killed"}
                 \/ daemon[j] = "unborn" /\ daemon'[j] = "create"
  <1> USE DEF TypeInv, TypeOK
  <1>1. CASE SendTerm(i)
    BY <1>1 DEF SendTerm, SigTerm, daemonVars
  <1>2. CASE Verify(i)
    BY <1>2 DEF Verify
  <1>3. CASE Fork(i)
    BY <1>3 DEF Fork, CallAt, Progress
  <1> QED
    BY <1>1, <1>2, <1>3
       DEF callStep, ReadPid, start, ProbeStart, RemoveStale, stop, PollStopped,
           ProbeStatus, RemovePidFile, daemonVars

LEMMA PendingNext == TypeInv /\ ClocksOK /\ Pending /\ [TimedNext]_timedVars => Pending'
  <1> SUFFICES ASSUME TypeInv, ClocksOK, Pending, [TimedNext]_timedVars PROVE Pending'
    OBVIOUS
  <1>1. ASSUME UNCHANGED <<timer, idle, nap, ignored>>,
               \A j \in Calls :
                  /\ running'[j] => running[j]
                  /\ \/ daemon'[j] = daemon[j]
                     \/ daemon'[j] \in {"dead", "killed"}
                     \/ daemon[j] = "unborn" /\ daemon'[j] = "create"
        PROVE  Pending'
    BY <1>1 DEF Pending, PendingOf, Young, Joining
  <1>2. CASE UNCHANGED <<timer, idle, nap, ignored, daemon, running>>
    BY <1>1, <1>2
  <1>3. ASSUME NEW options \in Invocations, MakeCall(options) PROVE Pending'
    BY <1>2, <1>3 DEF MakeCall, main, Begin, daemonVars
  <1>4. ASSUME NEW i \in Calls, CallGoesOn(i) PROVE Pending'
    <2>1. callStep(i) /\ UNCHANGED <<timer, idle, nap, ignored>>
      BY <1>4 DEF CallGoesOn, Look, callStep, stop, clocks
    <2> QED
      BY <1>1, <2>1, CallOnDaemons
  <1>5. ASSUME NEW i \in Calls, Abandon(i) PROVE Pending'
    BY <1>2, <1>5 DEF Abandon, daemonVars, clocks
  <1>6. ASSUME NEW i \in Calls, KilledByOthers(i) PROVE Pending'
    BY <1>1, <1>6 DEF KilledByOthers, Crash, clocks, TypeInv, TypeOK
  <1>7. ASSUME NEW i \in Calls, Serve(i) PROVE Pending'
    <2>1. UNCHANGED <<daemon, running, timer, nap>>
      BY <1>7 DEF Serve, vars, daemonVars
    <2> QED
      BY <1>7, <2>1, TimeAssumption
         DEF Serve, Pending, PendingOf, Young, Joining, ClocksOK
  <1>8. ASSUME NEW i \in Calls, daemonGoesOn(i) PROVE Pending'
    <2> USE TimeAssumption
        DEF DaemonAt, TypeInv, TypeOK, ClocksOK, Pending, PendingOf, Young, Joining
    <2>1. CASE Prepare(i)
      BY <1>8, <2>1
         DEF Prepare, CreateFile, WritePid, InstallHandler, SleepTwoSeconds,
             HookSignals, clocks
    <2>2. CASE EnterLoop(i)
      BY <1>8, <2>2 DEF EnterLoop, LoopHead
    <2>3. CASE LeaveRun(i)
      BY <1>8, <2>3 DEF LeaveRun, RunReturns, clocks
    <2>4. nap[i] <= LongestNap
      BY NapBound
    <2>5. CASE Restart(i)
      BY <1>8, <2>4, <2>5 DEF Restart, TestRestart
    <2>6. CASE WakeUp(i)
      BY <1>8, <2>4, <2>6 DEF WakeUp, WaitReturns
    <2>7. CASE JoinAndDestroy(i)
      BY <1>8, <2>7 DEF JoinAndDestroy, DestroyServer, clocks
    <2>8. CASE Depart(i)
      BY <1>8, <2>8 DEF Depart, Finish, End, clocks
    <2>9. CASE NextRound(i)
      <3>1. UNCHANGED <<daemon, running, timer, idle, ignored>>
        BY <2>9 DEF NextRound, vars, daemonVars
      <3> QED
        BY <2>9, <3>1 DEF NextRound, Monitored
    <2> QED
      BY <1>8, <2>1, <2>2, <2>3, <2>5, <2>6, <2>7, <2>8, <2>9 DEF daemonGoesOn
  <1>9. CASE Tick
    <2>1. UNCHANGED <<daemon, running>>
      BY <1>9 DEF Tick, vars, daemonVars
    <2> SUFFICES ASSUME NEW i \in Calls PROVE PendingOf(i)'
      BY DEF Pending
    <2>2. /\ ~DaemonDue(i)
          /\ timer'[i] = Down(timer[i])
          /\ nap'[i] = IF Alive(i) THEN Down(nap[i]) ELSE 0
          /\ idle'[i] = IF daemon[i] \in Up THEN idle[i] + 1 ELSE 0
          /\ ignored'[i] = IF daemon[i] \in Up /\ shouldStop(i)
                           THEN ignored[i] + 1 ELSE 0
      BY <1>9 DEF Tick
    <2>3. /\ timer[i] \in Nat /\ nap[i] \in Nat /\ idle[i] \in Nat
          /\ ignored[i] \in Nat /\ PendingOf(i)
          /\ nap[i] <= LongestNap
      BY NapBound DEF ClocksOK, Pending
    <2>4. CASE daemon[i] \notin Up \/ running[i]
      BY <2>1, <2>2, <2>3, <2>4, TimeAssumption
         DEF PendingOf, DaemonDue, Down, Up, Alive, Joining, Young, shouldStop
    <2>5. CASE daemon[i] \in Up /\ ~running[i]
      BY <2>1, <2>2, <2>3, <2>5, TimeAssumption
         DEF PendingOf, DaemonDue, Down, Up, Alive, Joining, Monitored, Young, shouldStop
    <2> QED
      BY <2>4, <2>5
  <1>10. UNCHANGED timedVars => UNCHANGED <<timer, idle, nap, ignored, daemon, running>>
    BY DEF timedVars, clocks, vars, daemonVars
  <1> QED
    BY <1>2, <1>3, <1>4, <1>5, <1>6, <1>7, <1>8, <1>9, <1>10 DEF TimedNext

LEMMA ClocksCorrect == TimedSpec => []ClocksOK
  <1>1. TimedInit => ClocksOK
    BY TimeAssumption DEF TimedInit, ClocksOK
  <1> QED
    BY <1>1, ClocksNext, PTL DEF TimedSpec

LEMMA PendingCorrect == TimedSpec => []Pending
  <1>1. TimedInit => Pending
    BY TimeAssumption
       DEF TimedInit, Init, Pending, PendingOf, Joining
  <1> QED
    BY <1>1, PendingNext, ClocksCorrect, TimedSpecIsSteps, TypeInvCorrect, PTL
       DEF TimedSpec

\* Asked to stop and not used any more, a daemon ends by itself within the idle
\* limit of run and one sleep of the monitoring thread.
THEOREM EndCorrect == TimedSpec => []EndsInTime
  <1>1. Pending => EndsInTime
    BY DEF Pending, PendingOf, EndsInTime
  <1> QED
    BY <1>1, PendingCorrect, PTL

-----------------------------------------------------------------------------
(* The patience of stop                                                     *)

\* The seconds that have passed since stop has sent its signal.
Waited(i) == IF resting[i] THEN count[i] - 1 ELSE count[i]

\* On its way from the server to its end.
Closing == Joining \cup {"head", "exit", "end"}

\* What a daemon p that is alive has done with the seconds that stop i has waited:
\* the signal was lost, or a command came since, and it has not been idle for
\* longer; or it is in run; or it was in the wait between two servers, and closes
\* down after that wait or at once after run.
GivenTime(i, p) ==
    /\ running[p] => idle[p] <= Waited(i)
    /\ \/ idle[p] <= Waited(i)
       \/ daemon[p] \in {"run", "ran"}
       \/ daemon[p] = "wait" /\ Waited(i) + timer[p] <= WaitSeconds
       \/ daemon[p] \in Closing /\ Waited(i) + nap[p] <= WaitSeconds + slept[p]
       \/ daemon[p] \in Closing /\ idle[p] + nap[p] <= IdleLimit + slept[p]

\* A daemon is not idle before it runs a server, and no longer than the limit
\* while it does.
IdleOK ==
    \A p \in Calls : /\ daemon[p] \in Young => idle[p] = 0
                     /\ daemon[p] \in {"run", "ran"} => idle[p] <= IdleLimit

\* stop counts its looks from zero, rests after each, and kills after the last.
CountOK ==
    \A i \in Calls :
        /\ call[i] \in {"unborn", "read", "probe"} => count[i] = 0 /\ ~resting[i]
        /\ resting[i] => count[i] > 0
        /\ call[i] = "verify" =>
              /\ ~resting[i]
              /\ seen[i] \in Calls /\ Alive(seen[i]) => count[i] = PollLimit

Asking(i, p) == call[i] \in {"poll", "verify"} /\ seen[i] = p /\ Alive(p)

Patience == \A i, p \in Calls : Asking(i, p) => GivenTime(i, p)

LEMMA WaitedIsNat ==
    ASSUME TypeInv, ClocksOK, CountOK, NEW i \in Calls
    PROVE  Waited(i) \in Nat /\ Waited(i) <= count[i] /\ count[i] \in 0..PollLimit
  BY DaemonAssumption DEF Waited, CountOK, TypeInv, TypeOK, ClocksOK

LEMMA IdleNext ==
    TypeInv /\ ClocksOK /\ Pending /\ IdleOK /\ [TimedNext]_timedVars => IdleOK'
  <1> SUFFICES ASSUME TypeInv, ClocksOK, Pending, IdleOK, [TimedNext]_timedVars
               PROVE  IdleOK'
    OBVIOUS
  <1>1. ASSUME idle' = idle,
               \A j \in Calls :
                  \/ daemon'[j] = daemon[j]
                  \/ daemon'[j] \in {"dead", "killed"}
                  \/ daemon[j] = "unborn" /\ daemon'[j] = "create"
        PROVE  IdleOK'
    BY <1>1 DEF IdleOK, Young
  <1>2. CASE UNCHANGED <<idle, daemon>>
    BY <1>1, <1>2
  <1>3. ASSUME NEW options \in Invocations, MakeCall(options) PROVE IdleOK'
    BY <1>2, <1>3 DEF MakeCall, main, Begin, daemonVars
  <1>4. ASSUME NEW i \in Calls, CallGoesOn(i) PROVE IdleOK'
    <2>1. callStep(i) /\ idle' = idle
      BY <1>4 DEF CallGoesOn, Look, callStep, stop, clocks
    <2> QED
      BY <1>1, <2>1, CallOnDaemons
  <1>5. ASSUME NEW i \in Calls, Abandon(i) PROVE IdleOK'
    BY <1>2, <1>5 DEF Abandon, daemonVars, clocks
  <1>6. ASSUME NEW i \in Calls, KilledByOthers(i) PROVE IdleOK'
    BY <1>1, <1>6 DEF KilledByOthers, Crash, clocks, TypeInv, TypeOK
  <1>7. ASSUME NEW i \in Calls, Serve(i) PROVE IdleOK'
    BY <1>7, TimeAssumption DEF Serve, IdleOK, vars, daemonVars, ClocksOK
  <1>8. ASSUME NEW i \in Calls, daemonGoesOn(i) PROVE IdleOK'
    <2> USE TimeAssumption DEF DaemonAt, TypeInv, TypeOK, ClocksOK, IdleOK, Young
    <2>1. CASE Prepare(i)
      BY <1>8, <2>1
         DEF Prepare, CreateFile, WritePid, InstallHandler, SleepTwoSeconds,
             HookSignals, clocks
    <2>2. CASE EnterLoop(i)
      BY <1>8, <2>2 DEF EnterLoop, LoopHead
    <2>3. CASE LeaveRun(i)
      BY <1>8, <2>3 DEF LeaveRun, RunReturns, clocks
    <2>4. CASE Restart(i)
      BY <1>8, <2>4 DEF Restart, TestRestart
    <2>5. CASE WakeUp(i)
      BY <1>8, <2>5 DEF WakeUp, WaitReturns
    <2>6. CASE JoinAndDestroy(i) \/ Depart(i)
      BY <1>8, <2>6 DEF JoinAndDestroy, DestroyServer, Depart, Finish, End, clocks
    <2>7. CASE NextRound(i)
      BY <1>2, <2>7 DEF NextRound, vars, daemonVars
    <2> QED
      BY <1>8, <2>1, <2>2, <2>3, <2>4, <2>5, <2>6, <2>7 DEF daemonGoesOn
  <1>9. CASE Tick
    <2> SUFFICES ASSUME NEW p \in Calls
                 PROVE  /\ daemon[p] \in Young => idle'[p] = 0
                        /\ daemon[p] \in {"run", "ran"} => idle'[p] <= IdleLimit
      BY <1>9 DEF Tick, IdleOK, vars, daemonVars
    <2>1. /\ ~DaemonDue(p)
          /\ idle'[p] = IF daemon[p] \in Up THEN idle[p] + 1 ELSE 0
          /\ idle[p] \in Nat
      BY <1>9 DEF Tick, ClocksOK
    <2> QED
      BY <2>1, TimeAssumption DEF DaemonDue, Up, Young
  <1>10. UNCHANGED timedVars => UNCHANGED <<idle, daemon>>
    BY DEF timedVars, clocks, vars, daemonVars
  <1> QED
    BY <1>2, <1>3, <1>4, <1>5, <1>6, <1>7, <1>8, <1>9, <1>10 DEF TimedNext

\* Daemons do not rise again.
LEMMA AliveBefore ==
    ASSUME TypeInv, Stopped, [TimedNext]_timedVars, NEW i \in Calls,
           seen[i] \in Calls, Alive(seen[i])'
    PROVE  seen'[i] = seen[i] => Alive(seen[i])
  <1> DEFINE p == seen[i]
  <1> SUFFICES ASSUME seen'[i] = p PROVE Alive(p)
    OBVIOUS
  <1>1. p \in Calls /\ p # Foreign /\ daemon[p] # "unborn"
    BY DaemonAssumption DEF Stopped, Calls, Foreign
  <1>2. daemon'[p] \notin {"unborn", "dead", "killed"}
    BY <1>1 DEF Alive
  <1> HIDE DEF p
  <1> USE DEF TypeInv, TypeOK
  <1>3. ASSUME NEW j \in Calls, callStep(j) PROVE Alive(p)
    BY <1>1, <1>2, <1>3, CallOnDaemons DEF Alive
  <1>4. ASSUME NEW j \in Calls, daemonStep(j) \/ RunReturns(j) PROVE Alive(p)
    BY <1>1, <1>2, <1>4
       DEF Alive, daemonStep, DaemonAt, CreateFile, WritePid, InstallHandler,
           SleepTwoSeconds, HookSignals, LoopHead, RunReturns, TestRestart,
           WaitReturns, DestroyServer, Finish, End
  <1>5. ASSUME NEW j \in Calls, Crash(j) PROVE Alive(p)
    BY <1>1, <1>2, <1>5 DEF Alive, Crash
  <1>6. CASE UNCHANGED daemon
    BY <1>1, <1>2, <1>6 DEF Alive
  <1>7. ASSUME NEW options \in Invocations, main(options) PROVE Alive(p)
    BY <1>6, <1>7 DEF main, Begin, daemonVars
  <1>8. ASSUME NEW j \in Calls, Leave(j) PROVE Alive(p)
    BY <1>6, <1>8 DEF Leave, daemonVars
  <1>9. UNCHANGED vars => UNCHANGED daemon
    BY DEF vars, daemonVars
  <1> QED
    BY <1>3, <1>4, <1>5, <1>6, <1>7, <1>8, <1>9, TimedIsStep DEF Step, Next

\* What a step of a call is to the looks of the calls.
LEMMA CallOnCounts ==
    ASSUME TypeInv, NEW j \in Calls, CallGoesOn(j)
    PROVE  \/ Look(j)
           \/ /\ UNCHANGED <<count, resting>>
              /\ \A i \in Calls : i # j => call'[i] = call[i] /\ seen'[i] = seen[i]
              /\ \/ call'[j] \in {"probe", "stale", "fork", "remove", "done"}
                 \/ SendTerm(j) /\ call[j] = "probe" /\ call'[j] = "poll"
              /\ call'[j] = "probe" => call[j] = "read"
  <1> USE DEF TypeInv, TypeOK, CallAt
  <1>1. CASE Look(j)
    BY <1>1
  <1>2. CASE call[j] # "poll" /\ callStep(j) /\ UNCHANGED clocks
    <2>1. ~PollStopped(j)
      BY <1>2 DEF PollStopped
    <2>2. CASE SendTerm(j)
      BY <1>2, <2>2 DEF SendTerm, clocks
    <2>3. CASE ReadPid(j)
      BY <1>2, <2>3 DEF ReadPid, clocks
    <2> QED
      BY <1>2, <2>1, <2>2, <2>3
         DEF callStep, start, stop, ProbeStart, RemoveStale, Fork, Verify,
             ProbeStatus, RemovePidFile, clocks
  <1> QED
    BY <1>1, <1>2 DEF CallGoesOn

LEMMA CountNext ==
    TypeInv /\ Stopped /\ CountOK /\ ClocksOK /\ [TimedNext]_timedVars => CountOK'
  <1> SUFFICES ASSUME TypeInv, Stopped, CountOK, ClocksOK, [TimedNext]_timedVars
               PROVE  CountOK'
    OBVIOUS
  <1>1. ASSUME NEW i \in Calls, seen'[i] = seen[i], call'[i] = call[i],
               count'[i] = count[i], resting'[i] = resting[i]
        PROVE  /\ call'[i] \in {"unborn", "read", "probe"} =>
                     count'[i] = 0 /\ ~resting'[i]
               /\ resting'[i] => count'[i] > 0
               /\ call'[i] = "verify" =>
                     /\ ~resting'[i]
                     /\ seen'[i] \in Calls /\ Alive(seen[i])' => count'[i] = PollLimit
    BY <1>1, AliveBefore DEF CountOK
  <1>2. CASE UNCHANGED <<seen, call, count, resting>>
    BY <1>1, <1>2 DEF CountOK
  <1>3. ASSUME NEW options \in Invocations, MakeCall(options) PROVE CountOK'
    <2>1. PICK k \in Actions : Begin(k)
      BY <1>3 DEF MakeCall, main
    <2>2. /\ UNCHANGED <<seen, count, resting>>
          /\ call' = [call EXCEPT ![begun + 1] = "read"]
          /\ begun + 1 \in Calls
      BY <1>3, <2>1, DaemonAssumption DEF MakeCall, Begin, Calls, TypeInv, TypeOK
    <2>3. call[begun + 1] = "unborn"
      BY <2>2, DaemonAssumption DEF Calls, TypeInv, TypeOK, Progress
    <2>4. call'[begun + 1] = "read" /\ count'[begun + 1] = 0 /\ ~resting'[begun + 1]
      BY <2>2, <2>3 DEF CountOK, TypeInv, TypeOK
    <2>5. \A i \in Calls : i # begun + 1 => call'[i] = call[i]
      BY <2>2 DEF TypeInv, TypeOK
    <2> QED
      BY <1>1, <2>2, <2>4, <2>5 DEF CountOK
  <1>4. ASSUME NEW j \in Calls, CallGoesOn(j) PROVE CountOK'
    <2>1. CASE Look(j)
      <3>1. \A i \in Calls : i # j =>
               /\ call'[i] = call[i] /\ count'[i] = count[i]
               /\ resting'[i] = resting[i] /\ seen'[i] = seen[i]
        BY <2>1, DaemonAssumption
           DEF Look, PollStopped, CallAt, TypeInv, TypeOK, ClocksOK
      <3>2. \/ call'[j] = "poll" /\ count'[j] > 0
            \/ /\ call'[j] = "verify" /\ ~resting'[j] /\ count'[j] = count[j]
               /\ ~Alive(seen[j]) \/ count[j] = PollLimit
        BY <2>1, DaemonAssumption
           DEF Look, PollStopped, CallAt, Probed, TypeInv, TypeOK, ClocksOK
      <3>3. Alive(seen[j])' => Alive(seen[j])
        BY <2>1 DEF Look, PollStopped, daemonVars, Alive
      <3>4. /\ call'[j] \notin {"unborn", "read", "probe"}
            /\ resting'[j] => count'[j] > 0
        BY <2>1, <3>2, DaemonAssumption
           DEF Look, PollStopped, CallAt, TypeInv, TypeOK, ClocksOK, CountOK
      <3> QED
        BY <1>1, <3>1, <3>2, <3>3, <3>4 DEF CountOK
    <2>2. CASE ~Look(j)
      <3>1. count' = count /\ resting' = resting
        BY <1>4, <2>2, CallOnCounts
      <3>2. /\ call'[j] \notin {"unborn", "read", "verify"}
            /\ call'[j] = "probe" => call[j] = "read"
        BY <1>4, <2>2, CallOnCounts
      <3>3. \A i \in Calls : i # j => call'[i] = call[i] /\ seen'[i] = seen[i]
        BY <1>4, <2>2, CallOnCounts
      <3> QED
        BY <1>1, <3>1, <3>2, <3>3 DEF CountOK
    <2> QED
      BY <2>1, <2>2
  <1>5. ASSUME NEW j \in Calls, Abandon(j) PROVE CountOK'
    <2>1. /\ UNCHANGED <<seen, count, resting>>
          /\ call'[j] = "done"
          /\ \A i \in Calls : i # j => call'[i] = call[i]
      BY <1>5 DEF Abandon, CallAt, clocks, TypeInv, TypeOK
    <2> QED
      BY <1>1, <2>1 DEF CountOK
  <1>6. CASE Tick
    <2>1. /\ UNCHANGED <<seen, call, count, daemon>>
          /\ \A i \in Calls : ~resting'[i]
      BY <1>6 DEF Tick, vars, callVars, daemonVars
    <2> QED
      BY <2>1 DEF CountOK, Alive
  <1>7. ASSUME NEW j \in Calls, daemonGoesOn(j) \/ Serve(j) \/ KilledByOthers(j)
        PROVE  UNCHANGED <<seen, call, count, resting>>
    BY <1>7
       DEF daemonGoesOn, Prepare, EnterLoop, LeaveRun, Restart, WakeUp,
           JoinAndDestroy, Depart, NextRound, CreateFile, WritePid, InstallHandler,
           SleepTwoSeconds, HookSignals, LoopHead, RunReturns, TestRestart,
           WaitReturns, DestroyServer, Finish, End, Serve, KilledByOthers, Crash,
           clocks, vars, callVars
  <1>8. UNCHANGED timedVars => UNCHANGED <<seen, call, count, resting>>
    BY DEF timedVars, clocks, vars, callVars
  <1> QED
    BY <1>2, <1>3, <1>4, <1>5, <1>6, <1>7, <1>8 DEF TimedNext

\* A daemon that is alive and is asked to stop has had no time yet.
LEMMA JustAsked ==
    ASSUME TypeInv, ClocksOK, Pending, IdleOK, CountOK, NEW i \in Calls,
           NEW p \in Calls, SendTerm(i), UNCHANGED clocks, call[i] = "probe",
           seen[i] = p, Alive(p)'
    PROVE  GivenTime(i, p)'
  <1>1. p # Foreign /\ daemon'[p] \notin {"unborn", "dead", "killed"}
    BY DaemonAssumption DEF Alive, Calls, Foreign
  <1>2. SigTerm(p) /\ count' = count
    BY DEF SendTerm
  <1>3. /\ daemon'[p] = daemon[p]
        /\ running'[p] => daemon[p] \in Young
    BY <1>1, <1>2 DEF SigTerm, Alive, Young, TypeInv, TypeOK, daemonVars
  <1>4. Waited(i)' = 0
    BY <1>2 DEF Waited, CountOK, clocks
  <1>5. UNCHANGED <<idle, timer, nap, slept>>
    BY DEF clocks
  <1>6. /\ idle[p] \in Nat /\ timer[p] \in Nat /\ ignored[p] \in Nat
        /\ nap[p] \in Nat /\ slept[p] \in Nat /\ nap[p] <= slept[p]
    BY NapBound, TimeAssumption DEF ClocksOK
  <1>7. daemon[p] \in Young \cup {"run", "ran", "wait"} \cup Closing
    BY <1>1, <1>3 DEF Young, Closing, Joining, TypeInv, TypeOK, Up
  <1>8. /\ daemon[p] \in Young => idle[p] = 0
        /\ daemon[p] = "wait" => timer[p] <= WaitSeconds
    BY <1>6, TimeAssumption DEF IdleOK, Pending, PendingOf
  <1>9. running'[p] => idle[p] <= Waited(i)'
    BY <1>3, <1>6, <1>8, <1>4
  <1> QED
    BY <1>3, <1>5, <1>6, <1>7, <1>8, <1>9, <1>4, TimeAssumption DEF GivenTime

LEMMA PatienceNext ==
    /\ TypeInv /\ Stopped /\ CountOK /\ ClocksOK /\ Pending /\ IdleOK
    /\ Patience /\ [TimedNext]_timedVars
    => Patience'
  <1> SUFFICES ASSUME TypeInv, Stopped, CountOK, ClocksOK, Pending, IdleOK,
                      Patience, [TimedNext]_timedVars,
                      NEW i \in Calls, NEW p \in Calls, Asking(i, p)'
               PROVE  GivenTime(i, p)'
    BY DEF Patience
  <1>1. seen'[i] = seen[i] => seen[i] = p /\ Alive(p)
    BY AliveBefore DEF Asking
  <1>2. Waited(i) \in Nat /\ Waited(i) <= count[i] /\ count[i] \in 0..PollLimit
    BY WaitedIsNat
  <1>3. p # Foreign /\ daemon'[p] \notin {"unborn", "dead", "killed"}
    BY DaemonAssumption DEF Asking, Alive, Calls, Foreign
  \* What leaves the clocks of p alone, and ends it at most.
  <1>4. ASSUME Asking(i, p), Waited(i)' = Waited(i),
               timer'[p] = timer[p], idle'[p] = idle[p],
               nap'[p] = nap[p], slept'[p] = slept[p],
               \/ daemon'[p] = daemon[p]
               \/ daemon'[p] \in {"dead", "killed"}
               \/ daemon[p] = "unborn" /\ daemon'[p] = "create",
               running'[p] => running[p]
        PROVE  GivenTime(i, p)'
    <2>1. daemon'[p] = daemon[p]
      BY <1>4, <1>3 DEF Asking, Alive
    <2>2. GivenTime(i, p)
      BY <1>4 DEF Patience
    <2> QED
      BY <1>4, <2>1, <2>2 DEF GivenTime
  <1>5. ASSUME NEW options \in Invocations, MakeCall(options)
        PROVE  GivenTime(i, p)'
    <2>1. PICK k \in Actions : Begin(k)
      BY <1>5 DEF MakeCall, main
    <2>2. /\ UNCHANGED <<seen, count, resting, timer, idle, nap, slept>>
          /\ UNCHANGED <<daemon, running>>
          /\ call' = [call EXCEPT ![begun + 1] = "read"]
      BY <1>5, <2>1 DEF MakeCall, Begin, daemonVars
    <2>3. call'[i] = call[i]
      BY <2>2 DEF Asking, TypeInv, TypeOK
    <2> QED
      BY <1>1, <1>4, <2>2, <2>3 DEF Asking, Waited
  <1>6. ASSUME NEW j \in Calls, CallGoesOn(j) PROVE GivenTime(i, p)'
    <2>1. /\ callStep(j) /\ UNCHANGED <<timer, idle, nap, slept>>
          /\ ~Look(j) => UNCHANGED clocks
      BY <1>6 DEF CallGoesOn, Look, callStep, stop, clocks
    <2>2. /\ \/ daemon'[p] = daemon[p]
             \/ daemon'[p] \in {"dead", "killed"}
             \/ daemon[p] = "unborn" /\ daemon'[p] = "create"
          /\ running'[p] => running[p]
      BY <2>1, CallOnDaemons
    <2>3. CASE Look(j)
      <3>1. seen' = seen
        BY <2>3 DEF Look, PollStopped
      <3>2. call[i] \in {"poll", "verify"}
        BY <2>3 DEF Look, PollStopped, CallAt, Asking, TypeInv, TypeOK
      <3>3. i # j => count'[i] = count[i] /\ resting'[i] = resting[i]
        BY <2>3 DEF Look, PollStopped, TypeInv, TypeOK, ClocksOK
      <3>4. i = j => /\ ~resting[i]
                     /\ count'[i] = count[i] + 1 \/ count'[i] = count[i]
        BY <2>3 DEF Look, PollStopped, TypeInv, TypeOK
      <3>5. i = j => (resting'[i] <=> count'[i] # count[i])
        BY <2>3, Zenon DEF Look, ClocksOK
      <3>6. Waited(i)' = Waited(i)
        BY <1>2, <3>3, <3>4, <3>5 DEF Waited
      <3> QED
        BY <1>1, <1>4, <2>1, <2>2, <3>1, <3>2, <3>6 DEF Asking
    <2>4. CASE ~Look(j) /\ i # j
      <3>1. /\ call'[i] = call[i] /\ seen'[i] = seen[i]
            /\ UNCHANGED <<count, resting>>
        BY <1>6, <2>4, CallOnCounts
      <3> QED
        BY <1>1, <1>4, <2>1, <2>2, <3>1 DEF Asking, Waited
    <2>5. CASE ~Look(j) /\ i = j
      <3>1. SendTerm(i) /\ call[i] = "probe"
        BY <1>6, <2>5, CallOnCounts DEF Asking
      <3>2. seen[i] = p
        BY <3>1 DEF SendTerm, Asking
      <3> QED
        BY <2>1, <2>5, <3>1, <3>2, JustAsked DEF Asking
    <2> QED
      BY <2>3, <2>4, <2>5
  <1>7. ASSUME NEW j \in Calls, Abandon(j) PROVE GivenTime(i, p)'
    <2>1. /\ UNCHANGED <<seen, count, resting, timer, idle, nap, slept>>
          /\ UNCHANGED <<daemon, running>>
          /\ call' = [call EXCEPT ![j] = "done"]
      BY <1>7 DEF Abandon, CallAt, clocks, daemonVars
    <2>2. call'[i] = call[i]
      BY <2>1 DEF Asking, TypeInv, TypeOK
    <2> QED
      BY <1>1, <1>4, <2>1, <2>2 DEF Asking, Waited
  \* The steps of daemons and of the clock.
  <1>8. ASSUME seen'[i] = seen[i], call'[i] = call[i]
        PROVE  Asking(i, p) /\ GivenTime(i, p)
    BY <1>1, <1>8 DEF Asking, Patience
  <1>9. ASSUME NEW j \in Calls, KilledByOthers(j) PROVE GivenTime(i, p)'
    <2>1. /\ UNCHANGED <<seen, call, count, resting, timer, idle, nap, slept, running>>
          /\ daemon'[p] = daemon[p] \/ daemon'[p] = "killed"
      BY <1>9 DEF KilledByOthers, Crash, clocks, callVars, TypeInv, TypeOK
    <2> QED
      BY <1>4, <1>8, <2>1 DEF Waited
  <1>10. ASSUME NEW j \in Calls, Serve(j) PROVE GivenTime(i, p)'
    <2>1. /\ UNCHANGED <<seen, call, count, daemon, running>>
          /\ UNCHANGED <<resting, timer, nap, slept>>
          /\ idle'[p] = idle[p] \/ idle'[p] = 0
      BY <1>10 DEF Serve, vars, callVars, daemonVars, ClocksOK
    <2>2. CASE idle'[p] = 0
      BY <1>2, <2>1, <2>2 DEF GivenTime, Waited
    <2> QED
      BY <1>4, <1>8, <2>1, <2>2 DEF Waited
  <1>11. ASSUME NEW j \in Calls, daemonGoesOn(j) PROVE GivenTime(i, p)'
    <2>1. UNCHANGED <<seen, call, count, resting>>
      BY <1>11
         DEF daemonGoesOn, Prepare, EnterLoop, LeaveRun, Restart, WakeUp,
             JoinAndDestroy, Depart, NextRound, CreateFile, WritePid,
             InstallHandler, SleepTwoSeconds, HookSignals, LoopHead, RunReturns,
             TestRestart, WaitReturns, DestroyServer, Finish, End, clocks, vars,
             callVars
    <2>2. Waited(i)' = Waited(i) /\ Asking(i, p) /\ GivenTime(i, p)
      BY <1>8, <2>1 DEF Waited
    <2>3. CASE j # p
      <3>1. /\ daemon'[p] = daemon[p] /\ running'[p] = running[p]
            /\ timer'[p] = timer[p] /\ idle'[p] = idle[p]
            /\ nap'[p] = nap[p] /\ slept'[p] = slept[p]
        BY <1>11, <2>3
           DEF daemonGoesOn, Prepare, EnterLoop, LeaveRun, Restart, WakeUp,
               JoinAndDestroy, Depart, NextRound, CreateFile, WritePid,
               InstallHandler, SleepTwoSeconds, HookSignals, LoopHead, RunReturns,
               TestRestart, WaitReturns, DestroyServer, Finish, End, DaemonAt,
               clocks, vars, daemonVars, TypeInv, TypeOK, ClocksOK
      <3> QED
        BY <1>4, <2>2, <3>1
    <2>4. CASE j = p
      <3>1. /\ idle[p] \in Nat /\ timer[p] \in Nat /\ nap[p] \in Nat
            /\ slept[p] \in Nat /\ nap[p] <= slept[p]
            /\ IdleLimit \in Nat /\ WaitSeconds \in Nat
        BY NapBound, TimeAssumption DEF ClocksOK
      <3> USE <2>4 DEF TypeInv, TypeOK, ClocksOK, DaemonAt, Closing, Joining
      <3>2. CASE Prepare(p)
        <4>1. /\ idle'[p] = idle[p] /\ idle[p] = 0
          BY <3>2
             DEF Prepare, CreateFile, WritePid, InstallHandler, SleepTwoSeconds,
                 HookSignals, clocks, IdleOK, Young
        <4> QED
          BY <1>2, <2>2, <4>1 DEF GivenTime
      <3>3. CASE EnterLoop(p)
        BY <1>2, <2>2, <3>1, <3>3 DEF EnterLoop, LoopHead, GivenTime
      <3>4. CASE LeaveRun(p)
        BY <2>2, <3>4 DEF LeaveRun, RunReturns, clocks, GivenTime
      <3>5. CASE Restart(p)
        BY <1>2, <2>2, <3>1, <3>5 DEF Restart, TestRestart, GivenTime, IdleOK
      <3>6. CASE WakeUp(p)
        BY <1>2, <2>2, <3>1, <3>6 DEF WakeUp, WaitReturns, GivenTime
      <3>7. CASE JoinAndDestroy(p)
        BY <2>2, <3>7 DEF JoinAndDestroy, DestroyServer, clocks, GivenTime
      <3>8. CASE Depart(p)
        BY <1>3, <2>2, <3>8 DEF Depart, Finish, End, clocks, GivenTime
      <3>9. CASE NextRound(p)
        BY <2>2, <3>9
           DEF NextRound, Monitored, vars, daemonVars, GivenTime
      <3> QED
        BY <1>11, <3>2, <3>3, <3>4, <3>5, <3>6, <3>7, <3>8, <3>9 DEF daemonGoesOn
    <2> QED
      BY <2>3, <2>4
  <1>12. CASE Tick
    <2>1. /\ UNCHANGED <<seen, call, count, daemon, running>>
          /\ ~DaemonDue(p) /\ ~CallDue(i)
          /\ timer'[p] = Down(timer[p])
          /\ nap'[p] = IF Alive(p) THEN Down(nap[p]) ELSE 0
          /\ slept'[p] = IF Alive(p) THEN slept[p] ELSE 0
          /\ idle'[p] = IF daemon[p] \in Up THEN idle[p] + 1 ELSE 0
          /\ ~resting'[i]
      BY <1>12 DEF Tick, vars, callVars, daemonVars
    <2>2. Asking(i, p) /\ GivenTime(i, p)
      BY <1>8, <2>1
    <2>3. Waited(i)' = Waited(i) + 1
      BY <1>2, <2>1, <2>2 DEF Waited, CallDue, Asking
    <2>4. /\ idle[p] \in Nat /\ timer[p] \in Nat /\ nap[p] \in Nat
          /\ slept[p] \in Nat /\ IdleLimit \in Nat /\ WaitSeconds \in Nat
      BY NapBound, TimeAssumption DEF ClocksOK
    <2>5. Alive(p)
      BY <2>2 DEF Asking
    <2> QED
      BY <1>2, <2>1, <2>2, <2>3, <2>4, <2>5
         DEF GivenTime, DaemonDue, Down, Up, Joining, Monitored, Closing
  <1>13. CASE UNCHANGED timedVars
    <2>1. /\ UNCHANGED <<seen, call, count, daemon, running>>
          /\ UNCHANGED <<resting, timer, idle, nap, slept>>
      BY <1>13 DEF timedVars, clocks, vars, callVars, daemonVars
    <2> QED
      BY <1>4, <1>8, <2>1 DEF Waited
  <1> QED
    BY <1>5, <1>6, <1>7, <1>9, <1>10, <1>11, <1>12, <1>13 DEF TimedNext

\* A daemon that stop kills was in use within the idle limit and one sleep of the
\* monitoring thread, when stop waits no longer than the idle limit.
THEOREM PatienceCorrect ==
    ASSUME PollLimit <= IdleLimit PROVE TimedSpec => []KilledOnlyWhenLate
  <1>1. TimedInit => IdleOK /\ CountOK /\ Patience
    BY TimeAssumption
       DEF TimedInit, Init, IdleOK, Young, CountOK, Patience, Asking
  <1>2. TypeInv /\ ClocksOK /\ IdleOK /\ CountOK /\ Patience => KilledOnlyWhenLate
    <2> SUFFICES ASSUME TypeInv, ClocksOK, IdleOK, CountOK, Patience, NEW i \in Calls,
                        call[i] = "verify", seen[i] \in Calls, Alive(seen[i]),
                        WaitSeconds + slept[seen[i]] < PollLimit
                 PROVE  idle[seen[i]] <= IdleLimit + slept[seen[i]]
      BY DEF KilledOnlyWhenLate
    <2> DEFINE p == seen[i]
    <2>1. Waited(i) = PollLimit /\ GivenTime(i, p)
      BY DEF CountOK, Patience, Asking, Waited
    <2>2. /\ idle[p] \in Nat /\ slept[p] \in Nat /\ nap[p] \in Nat /\ timer[p] \in Nat
          /\ PollLimit \in Nat
      BY NapBound, DaemonAssumption DEF ClocksOK
    <2> HIDE DEF p
    <2> QED
      BY <2>1, <2>2, TimeAssumption DEF GivenTime, IdleOK, p
  <1> QED
    BY <1>1, <1>2, IdleNext, CountNext, PatienceNext, PendingCorrect, ClocksCorrect,
       StoppedCorrect, TimedSpecIsSteps, TypeInvCorrect, PTL DEF TimedSpec

=============================================================================
