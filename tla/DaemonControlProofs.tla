------------------------- MODULE DaemonControlProofs -------------------------
(***************************************************************************)
(* The control program, called as DaemonTime spaces its calls, implements  *)
(* DaemonControl: for any number of calls and any length of the sleeps.    *)
(***************************************************************************)
EXTENDS DaemonProofs

\* A call that has not answered is of the kind it was made with; and a PID that
\* is no daemon's comes from a file that is spoiled still.
Unanswered ==
    /\ \A i \in Calls : call[i] = "unborn" <=> kind[i] = "none"
    /\ \A i \in Calls : call[i] \notin {"remove", "done"} => result[i] = "none"

Stranger ==
    \A i \in Calls : call[i] = "probe" /\ seen[i] = Foreign => Spoiled

Honest == Unanswered /\ Stranger

-----------------------------------------------------------------------------
(* The invariant                                                            *)

LEMMA UnansweredNext ==
    ASSUME TypeInv, Unanswered, [Step]_vars
    PROVE  Unanswered'
  <1> USE DEF Unanswered, TypeInv, TypeOK, CallAt
  <1>1. ASSUME NEW options \in Invocations, main(options) PROVE Unanswered'
    <2>1. PICK k \in Actions : Begin(k)
      BY <1>1 DEF main
    <2>2. /\ kind' = [kind EXCEPT ![begun + 1] = k] /\ k # "none"
          /\ call' = [call EXCEPT ![begun + 1] = "read"]
          /\ begun + 1 \in Calls /\ result' = result
      BY <2>1, DaemonAssumption DEF Begin, Calls, Actions
    <2>3. result[begun + 1] = "none"
      BY <2>2, DaemonAssumption DEF Progress, Calls
    <2> QED
      BY <2>2, <2>3
  <1>2. ASSUME NEW i \in Calls, callStep(i) \/ Leave(i) PROVE Unanswered'
    <2>1. /\ call[i] # "unborn"
          /\ call' = [call EXCEPT ![i] = call'[i]] /\ call'[i] # "unborn"
          /\ kind' = kind
          /\ \A j \in Calls : j # i => result'[j] = result[j]
          /\ call'[i] \in {"remove", "done"} \/ result'[i] = result[i]
          /\ call[i] \notin {"remove", "done"} \/ call'[i] = "done"
      BY <1>2
         DEF callStep, Leave, ReadPid, start, ProbeStart, RemoveStale, Fork, stop,
             SendTerm, PollStopped, Verify, ProbeStatus, RemovePidFile, Return
    <2> QED
      BY <2>1
  <1>3. ASSUME NEW i \in Calls, daemonStep(i) \/ RunReturns(i) \/ Crash(i)
        PROVE  Unanswered'
    <2>1. UNCHANGED callVars
      BY <1>3
         DEF daemonStep, CreateFile, WritePid, InstallHandler, SleepTwoSeconds,
             HookSignals, LoopHead, TestRestart, WaitReturns, DestroyServer,
             Finish, End, RunReturns, Crash
    <2> QED
      BY <2>1 DEF callVars
  <1>4. CASE UNCHANGED vars
    BY <1>4 DEF vars, callVars
  <1> QED
    BY <1>1, <1>2, <1>3, <1>4 DEF Step, Next

\* Nobody is there who writes while a call is under way.
LEMMA NoWriter ==
    ASSUME TypeInv, OneDaemon, NEW i \in Calls, call[i] \notin {"unborn", "done"}
    PROVE  /\ \A p \in Calls : daemon[p] \notin {"create", "write"}
           /\ \A p \in Calls : Blocking(p) => pidFile = p
           /\ Spoiled <=> pidFile = NoPid
  BY LastCall DEF OneDaemon, FileNames, Spoiled

\* What a daemon that goes on by itself, or is killed by others, can do to what
\* DaemonControl sees of it.
LEMMA DaemonMoves ==
    ASSUME TypeInv, NEW i \in Calls, daemonStep(i) \/ RunReturns(i) \/ Crash(i)
    PROVE  /\ UNCHANGED callVars
           /\ \A p \in Calls : p # i => daemon'[p] = daemon[p]
           /\ daemon[i] \notin {"unborn", "dead", "killed"}
           /\ daemon'[i] # "unborn"
           /\ ~Blocking(i) => ~Blocking(i)' /\ daemon'[i] # "end" /\ pidFile' = pidFile
           /\ ~Blocking(i)' => pidFile' = pidFile \/ daemon[i] = "exit"
           /\ pidFile' = NoPid => pidFile = NoPid \/ daemon'[i] = "write"
           /\ daemon[i] = "write" /\ daemon'[i] # "write" =>
                 pidFile' # NoPid \/ ~Blocking(i)' \/ i \notin writers
           /\ daemon[i] = "write" /\ ~Blocking(i)' => MayCrash
  <1> USE DEF DaemonAt, TypeInv, TypeOK, Blocking, fileVars
  <1> USE CallsAreNumbers
  <1>1. CASE CreateFile(i)
    BY <1>1 DEF CreateFile
  <1>2. CASE WritePid(i)
    BY <1>2 DEF WritePid
  <1>3. CASE InstallHandler(i) \/ SleepTwoSeconds(i) \/ HookSignals(i)
    BY <1>3 DEF InstallHandler, SleepTwoSeconds, HookSignals
  <1>4. CASE LoopHead(i)
    BY <1>4 DEF LoopHead
  <1>5. CASE RunReturns(i) \/ TestRestart(i) \/ WaitReturns(i)
    BY <1>5 DEF RunReturns, TestRestart, WaitReturns
  <1>6. CASE DestroyServer(i)
    BY <1>6 DEF DestroyServer
  <1>7. CASE Finish(i)
    BY <1>7, DaemonAssumption DEF Finish, RemoveFile, NoFile, NoPid
  <1>8. CASE End(i)
    BY <1>8 DEF End
  <1>9. CASE Crash(i)
    BY <1>9, DaemonAssumption DEF Crash, Alive, Calls, Foreign
  <1> QED
    BY <1>1, <1>2, <1>3, <1>4, <1>5, <1>6, <1>7, <1>8, <1>9 DEF daemonStep

LEMMA StrangerNext ==
    ASSUME Serial, TypeInv, OneDaemon, Stranger, [TimedNext]_timedVars
    PROVE  Stranger'
  <1> USE DEF Stranger, TypeInv, TypeOK, CallAt
  <1>1. ASSUME NEW options \in Invocations, main(options) PROVE Stranger'
    <2>1. PICK k \in Actions : Begin(k)
      BY <1>1 DEF main
    <2> QED
      BY <2>1 DEF Begin, fileVars, daemonVars, Spoiled
  <1>2. ASSUME NEW i \in Calls, callStep(i) \/ Leave(i) PROVE Stranger'
    <2>1. call[i] \notin {"unborn", "done"}
      BY <1>2
         DEF callStep, Leave, ReadPid, start, ProbeStart, RemoveStale, Fork, stop,
             SendTerm, PollStopped, Verify, ProbeStatus, RemovePidFile, Progress
    <2>2. \A j \in Calls : j # i => call'[j] # "probe"
      <3>1. \A j \in Calls : j # i => call[j] \in {"unborn", "done"}
        BY <2>1, LastCall DEF OneDaemon
      <3>2. \A j \in Calls : j # i => call'[j] = call[j]
        BY <1>2
           DEF callStep, Leave, ReadPid, start, ProbeStart, RemoveStale, Fork, stop,
               SendTerm, PollStopped, Verify, ProbeStatus, RemovePidFile
      <3> QED
        BY <3>1, <3>2
    <2>3. CASE call'[i] = "probe"
      <3>1. ReadPid(i) /\ pidFile # NoFile
        BY <1>2, <2>3
           DEF callStep, Leave, ReadPid, start, ProbeStart, RemoveStale, Fork, stop,
               SendTerm, PollStopped, Verify, ProbeStatus, RemovePidFile
      <3>2. PICK p \in IF pidFile = NoPid THEN Garbage ELSE {pidFile} :
               seen' = [seen EXCEPT ![i] = p]
        BY <3>1 DEF ReadPid
      <3>3. UNCHANGED <<pidFile, daemon>>
        BY <3>1 DEF ReadPid, fileVars, daemonVars
      <3>4. seen'[i] = Foreign => pidFile = NoPid
        BY <3>1, <3>2, DaemonAssumption DEF Calls, Foreign, NoFile
      <3>5. seen'[i] = Foreign => Spoiled'
        BY <2>1, <3>3, <3>4, NoWriter DEF Spoiled
      <3> QED
        BY <2>2, <3>5
    <2> QED
      BY <2>2, <2>3
  <1>3. ASSUME NEW i \in Calls, daemonStep(i) \/ RunReturns(i) \/ Crash(i),
               NEW j \in Calls, call'[j] = "probe", seen'[j] = Foreign
        PROVE  Spoiled'
    <2>1. call[j] = "probe" /\ seen[j] = Foreign
      BY <1>3, DaemonMoves DEF callVars
    <2>2. Spoiled /\ ~Blocking(i)
      BY <2>1, NoWriter, CallsAreNumbers
    <2>3. pidFile' = pidFile /\ \A p \in Calls : daemon'[p] # "write"
      BY <1>3, <2>2, DaemonMoves DEF Spoiled, Blocking
    <2> QED
      BY <2>2, <2>3 DEF Spoiled
  <1>4. CASE UNCHANGED vars
    BY <1>4 DEF vars, callVars, fileVars, daemonVars, Spoiled
  <1>5. Tick => UNCHANGED vars
    BY DEF Tick
  <1>6. UNCHANGED timedVars => UNCHANGED vars
    BY DEF timedVars
  <1> QED
    BY <1>1, <1>2, <1>3, <1>4, <1>5, <1>6, TimedCases

LEMMA HonestAlways == ASSUME Serial PROVE TimedSpec => []Honest
  <1>1. TimedInit => Honest
    BY DEF TimedInit, Init, Honest, Unanswered, Stranger
  <1>2. TypeInv /\ OneDaemon /\ Honest /\ [TimedNext]_timedVars => Honest'
    BY UnansweredNext, StrangerNext, TimedIsStep, Serial DEF Honest
  <1> QED
    BY <1>1, <1>2, TimedSpecIsSteps, TypeInvCorrect, OneDaemonAlways, Serial, PTL
       DEF TimedSpec

-----------------------------------------------------------------------------
(* The refinement: every step is one of DaemonControl, or is not seen there. *)

LEMMA DaemonRefines ==
    ASSUME TypeInv, OneDaemon, NEW i \in Calls,
           daemonStep(i) \/ RunReturns(i) \/ Crash(i)
    PROVE  [Control!Next]_Control!vars
  <1> USE DEF Present, Departing
  <1>1. /\ kind' = kind /\ result' = result
        /\ \A p \in Calls : p # i => daemon'[p] = daemon[p]
    BY DaemonMoves DEF callVars
  <1>2. \A p \in Calls : p # i => (Blocking(p)' <=> Blocking(p))
    BY <1>1 DEF Blocking
  <1>3. Spoiled' => Spoiled \/ (daemon[i] = "write" /\ ~Blocking(i)')
    BY <1>1, DaemonMoves DEF OneDaemon, FileNames, Spoiled
  <1>4. CASE Blocking(i) /\ Blocking(i)'
    <2>1. Present' = Present /\ Departing' = Departing
      BY <1>1, <1>2, <1>4 DEF Blocking
    <2>2. Spoiled' = Spoiled \/ Spoiled' = FALSE
      BY <1>3, <1>4 DEF Spoiled
    <2> QED
      BY <1>1, <2>1, <2>2 DEF Control!vars, Control!Next, Control!Mend
  <1>5. CASE Blocking(i) /\ ~Blocking(i)'
    <2>1. Present' = Present \ {i}
      BY <1>2, <1>5
    <2>2. Departing' \in {Departing, Departing \cup {i}}
      BY <1>1, <1>5 DEF Blocking
    <2>3. daemon[i] = "exit" => pidFile = i
      BY DEF OneDaemon, FileNames, Blocking
    <2>4. Spoiled => Spoiled'
      BY <1>1, <1>5, <2>3, DaemonMoves, CallsAreNumbers DEF Spoiled, Blocking
    <2>5. Spoiled' => Spoiled \/ MayCrash
      BY <1>3, DaemonMoves
    <2>6. Spoiled' \in {Spoiled, MayCrash}
      BY <2>4, <2>5, DaemonAssumption DEF Spoiled
    <2>7. Control!Vanish(i)
      BY <1>1, <1>5, <2>1, <2>2, <2>6 DEF Control!Vanish
    <2> QED
      BY <2>7 DEF Control!Next
  <1>6. CASE ~Blocking(i)
    <2>1. ~Blocking(i)' /\ daemon'[i] # "end" /\ pidFile' = pidFile
      BY <1>6, DaemonMoves
    <2>2. Present' = Present /\ Departing' = Departing \ {i}
      BY <1>1, <1>2, <1>6, <2>1
    <2>3. Spoiled' = Spoiled
      BY <1>1, <1>6, <2>1 DEF Spoiled, Blocking
    <2>4. Control!Depart(i)
      BY <1>1, <2>2, <2>3 DEF Control!Depart
    <2> QED
      BY <2>4 DEF Control!Next
  <1> QED
    BY <1>4, <1>5, <1>6

\* A daemon that answers to the PID a call has read is there, or about to end, or
\* is none.
LEMMA SomebodyIsThere ==
    ASSUME TypeInv, Stranger, NEW i \in Calls, call[i] = "probe", Probed(i)
    PROVE  Control!Somebody
  BY DEF Probed, Alive, Stranger, Control!Somebody, Present, Departing, Blocking

\* When it answers no more, nobody is there.
LEMMA NobodyIsThere ==
    ASSUME TypeInv, OneDaemon, NEW i \in Calls, call[i] = "probe", ~Probed(i)
    PROVE  Present = {}
  BY DEF OneDaemon, CallsKnow, Probed, Alive, Present, Blocking

\* The steps of a call that leave the daemons and the file alone.
LEMMA LookRefines ==
    ASSUME TypeInv, OneDaemon, Honest, NEW i \in Calls,
           ReadPid(i) \/ ProbeStart(i) \/ ProbeStatus(i) \/ PollStopped(i) \/ Leave(i)
    PROVE  [Control!Next]_Control!vars
  <1> USE DEF CallAt, TypeInv, TypeOK
  <1>1. /\ UNCHANGED <<kind, pidFile, daemon>>
        /\ UNCHANGED <<Present, Departing, Spoiled>>
    BY DEF ReadPid, ProbeStart, ProbeStatus, PollStopped, Leave, fileVars,
           daemonVars, Present, Departing, Spoiled, Blocking
  <1>2. CASE UNCHANGED result
    BY <1>1, <1>2 DEF Control!vars
  <1>3. ASSUME ReadPid(i), pidFile = NoFile, kind[i] # "start"
        PROVE  Control!Stop(i) \/ Control!Status(i)
    <2>1. Present = {}
      BY <1>3, NoWriter, CallsAreNumbers DEF ReadPid, Present
    <2>2. result[i] = "none" /\ kind[i] \in {"stop", "status"}
      BY <1>3 DEF ReadPid, Honest, Unanswered
    <2>3. result' = [result EXCEPT ![i] = "failed"]
      BY <1>3 DEF ReadPid, Return
    <2> QED
      BY <1>1, <2>1, <2>2, <2>3 DEF Control!Stop, Control!Status, Control!Answer
  <1>4. ASSUME ProbeStart(i), Probed(i) PROVE Control!Start(i)
    <2>1. result[i] = "none" /\ result' = [result EXCEPT ![i] = "failed"]
      BY <1>4 DEF ProbeStart, Return, Honest, Unanswered
    <2>2. Control!Somebody
      BY <1>4, SomebodyIsThere DEF ProbeStart, Honest
    <2> QED
      BY <1>1, <1>4, <2>1, <2>2 DEF ProbeStart, Control!Start, Control!Answer
  <1>5. ASSUME ProbeStatus(i) PROVE Control!Status(i)
    <2>1. /\ result[i] = "none"
          /\ result' = [result EXCEPT ![i] = IF Probed(i) THEN "ok" ELSE "failed"]
      BY <1>5 DEF ProbeStatus, Return, Honest, Unanswered
    <2>2. IF Probed(i) THEN Control!Somebody ELSE Present = {}
      BY <1>5, SomebodyIsThere, NobodyIsThere DEF ProbeStatus, Honest
    <2> QED
      BY <1>1, <1>5, <2>1, <2>2 DEF ProbeStatus, Control!Status, Control!Answer
  <1> QED
    BY <1>2, <1>3, <1>4, <1>5
       DEF ReadPid, ProbeStart, PollStopped, Leave, Control!Next

\* A call removes a stale file.
LEMMA RemoveRefines ==
    ASSUME NEW i \in Calls, RemoveStale(i) \/ RemovePidFile(i)
    PROVE  [Control!Next]_Control!vars
  <1>1. UNCHANGED <<kind, result, daemon>> /\ pidFile' = NoFile
    BY DEF RemoveStale, RemovePidFile, RemoveFile, daemonVars
  <1>2. Spoiled' = FALSE
    BY <1>1, DaemonAssumption DEF Spoiled, NoFile, NoPid
  <1>3. Control!Mend
    BY <1>1, <1>2 DEF Control!Mend, Present, Departing, Blocking
  <1> QED
    BY <1>3 DEF Control!Next

\* Nobody is there when a start forks, and the fork makes a daemon or fails.
LEMMA ForkRefines ==
    ASSUME TypeInv, OneDaemon, Honest, NEW i \in Calls, Fork(i)
    PROVE  Control!Start(i)
  <1> USE DEF CallAt, TypeInv, TypeOK, Present, Departing
  <1>1. /\ kind[i] = "start" /\ daemon[i] = "unborn" /\ result[i] = "none"
        /\ \A p \in Calls : daemon[p] # "write"
        /\ \A p \in Calls : ~Blocking(p)
    BY NoWriter DEF Fork, Progress, Honest, Unanswered, OneDaemon, CallsKnow
  <1>2. UNCHANGED <<kind, pidFile>>
    BY DEF Fork, fileVars
  <1>3. ASSUME Return(i, "ok"), daemon' = [daemon EXCEPT ![i] = "create"]
        PROVE  Control!Start(i)
    <2>1. Present' = {i} /\ Departing' = Departing
      BY <1>1, <1>3 DEF Blocking
    <2>2. Spoiled' = Spoiled
      BY <1>1, <1>2, <1>3 DEF Spoiled
    <2> QED
      BY <1>1, <1>2, <1>3, <2>1, <2>2 DEF Return, Control!Start, Control!Answer
  <1>4. ASSUME MayFail, Return(i, "failed") \/ Return(i, "ok"), UNCHANGED daemon
        PROVE  Control!Start(i)
    <2>1. UNCHANGED <<Present, Departing, Spoiled>> /\ Present = {}
      BY <1>1, <1>2, <1>4 DEF Spoiled, Blocking
    <2> QED
      BY <1>1, <1>2, <1>4, <2>1 DEF Return, Control!Start, Control!Answer
  <1> QED
    BY <1>3, <1>4 DEF Fork

\* SIGTERM ends a daemon at most that has no handler yet.
LEMMA SendTermRefines ==
    ASSUME TypeInv, OneDaemon, Honest, NEW i \in Calls, SendTerm(i)
    PROVE  [Control!Next]_Control!vars
  <1> USE DEF CallAt, TypeInv, TypeOK, Present, Departing
  <1>1. /\ call[i] = "probe" /\ kind[i] = "stop" /\ result[i] = "none"
        /\ UNCHANGED <<kind, pidFile>>
        /\ \A p \in Calls : daemon[p] # "write"
    BY NoWriter DEF SendTerm, Honest, Unanswered, fileVars
  <1>2. CASE daemon' = daemon
    <2>1. UNCHANGED <<Present, Departing, Spoiled>>
      BY <1>1, <1>2 DEF Spoiled, Blocking
    <2>2. CASE Probed(i)
      BY <1>1, <2>1, <2>2 DEF SendTerm, Control!vars
    <2>3. CASE ~Probed(i)
      <3>1. Present = {}
        BY <1>1, <2>3, NobodyIsThere
      <3>2. result' = [result EXCEPT ![i] = "failed"]
        BY <2>3 DEF SendTerm, Return
      <3>3. Control!Stop(i)
        BY <1>1, <2>1, <3>1, <3>2 DEF Control!Stop, Control!Answer
      <3> QED
        BY <3>3 DEF Control!Next
    <2> QED
      BY <2>2, <2>3
  <1>3. CASE daemon' # daemon
    <2>1. PICK p \in Calls : /\ p = seen[i]
                             /\ daemon[p] \in {"create", "write", "install"}
                             /\ daemon' = [daemon EXCEPT ![p] = "dead"]
      BY <1>3, SigTermEffect DEF SendTerm
    <2>2. Present' = Present \ {p} /\ p \in Present /\ Departing' = Departing
      BY <2>1 DEF Blocking
    <2>3. Spoiled' = Spoiled
      BY <1>1, <2>1 DEF Spoiled
    <2>4. result' = result
      BY <1>1, <2>1 DEF SendTerm, Probed, Alive
    <2>5. Control!Vanish(p)
      BY <1>1, <2>2, <2>3, <2>4 DEF Control!Vanish
    <2> QED
      BY <2>5 DEF Control!Next
  <1> QED
    BY <1>2, <1>3

\* After the last look of stop nobody is there.
LEMMA VerifyRefines ==
    ASSUME TypeInv, OneDaemon, Honest, NEW i \in Calls, Verify(i)
    PROVE  Control!Stop(i)
  <1> USE DEF CallAt, TypeInv, TypeOK, Present, Departing
  <1>1. /\ kind[i] = "stop" /\ result[i] = "none"
        /\ result' = [result EXCEPT ![i] = "ok"]
        /\ UNCHANGED <<kind, pidFile>>
        /\ \A p \in Calls : daemon[p] # "write"
    BY NoWriter DEF Verify, Return, Progress, Honest, Unanswered, fileVars
  <1>2. \A p \in Calls : Blocking(p) => seen[i] = p /\ Probed(i)
    BY DEF Verify, OneDaemon, CallsKnow, Probed, Alive, Blocking
  <1>3. \A p \in Calls : daemon'[p] = daemon[p] \/ daemon'[p] = "killed"
    BY DEF Verify
  <1>4. Present' = {}
    BY <1>2, <1>3 DEF Verify, Blocking
  <1>5. Departing' \in SUBSET Departing
    BY <1>3
  <1>6. Spoiled' = Spoiled
    BY <1>1, <1>3 DEF Spoiled
  <1> QED
    BY <1>1, <1>4, <1>5, <1>6 DEF Control!Stop, Control!Answer

LEMMA BeginRefines ==
    ASSUME TypeInv, Honest, NEW options \in Invocations, main(options)
    PROVE  Control!Next
  <1>1. PICK k \in Actions : Begin(k)
    BY DEF main
  <1>2. /\ begun + 1 \in Calls /\ kind' = [kind EXCEPT ![begun + 1] = k]
        /\ UNCHANGED <<result, pidFile, daemon>>
    BY <1>1, DaemonAssumption
       DEF Begin, Calls, TypeInv, TypeOK, fileVars, daemonVars
  <1>3. kind[begun + 1] = "none"
    BY <1>2, DaemonAssumption
       DEF TypeInv, TypeOK, Progress, Honest, Unanswered, Calls
  <1>4. UNCHANGED <<Present, Departing, Spoiled>>
    BY <1>2 DEF Present, Departing, Spoiled, Blocking
  <1>5. Control!Ask(begun + 1, k)
    BY <1>2, <1>3, <1>4 DEF Control!Ask
  <1> QED
    BY <1>2, <1>5 DEF Control!Next, Actions

\* Whatever daemons do, whoever is killed, and whatever is left of their PID
\* files: when start, stop or status answers, the answer is so.
THEOREM AnswersCorrect == ASSUME Serial PROVE TimedSpec => AnswersAreTrue
  <1>1. TimedInit => Control!Init
    <2> SUFFICES ASSUME TimedInit PROVE Control!Init
      OBVIOUS
    <2>1. /\ pidFile = NoFile /\ \A p \in Calls : daemon[p] = "unborn"
          /\ kind = [i \in Calls |-> "none"] /\ result = [i \in Calls |-> "none"]
      BY DEF TimedInit, Init
    <2>2. Present = {} /\ Departing = {} /\ Spoiled = FALSE
      BY <2>1, DaemonAssumption DEF Present, Departing, Spoiled, Blocking, NoFile, NoPid
    <2> QED
      BY <2>1, <2>2 DEF Control!Init
  <1>2. TypeInv /\ OneDaemon /\ Honest /\ [TimedNext]_timedVars
           => [Control!Next]_Control!vars
    <2> SUFFICES ASSUME TypeInv, OneDaemon, Honest, [TimedNext]_timedVars
                 PROVE  [Control!Next]_Control!vars
      OBVIOUS
    <2>1. CASE UNCHANGED vars
      BY <2>1 DEF vars, fileVars, callVars, daemonVars, Control!vars, Present,
                  Departing, Spoiled, Blocking
    <2>2. ASSUME NEW i \in Calls, callStep(i) \/ Leave(i)
          PROVE  [Control!Next]_Control!vars
      BY <2>2, LookRefines, RemoveRefines, ForkRefines, SendTermRefines,
         VerifyRefines DEF callStep, start, stop, Control!Next
    <2>3. ASSUME NEW i \in Calls, daemonStep(i) \/ RunReturns(i) \/ Crash(i)
          PROVE  [Control!Next]_Control!vars
      BY <2>3, DaemonRefines
    <2>4. Tick => UNCHANGED vars
      BY DEF Tick
    <2>5. UNCHANGED timedVars => UNCHANGED vars
      BY DEF timedVars
    <2> QED
      BY <2>1, <2>2, <2>3, <2>4, <2>5, BeginRefines, TimedCases
  <1> QED
    BY <1>1, <1>2, TimedSpecIsSteps, TypeInvCorrect, OneDaemonAlways, HonestAlways,
       Serial, PTL DEF TimedSpec, AnswersAreTrue, Control!Spec

=============================================================================
