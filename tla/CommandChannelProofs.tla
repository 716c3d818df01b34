------------------------ MODULE CommandChannelProofs ------------------------
(***************************************************************************)
(* Theorems about CommandChannel, for any number of clients and servers,   *)
(* with and without overlap, crashes and interruptions.                    *)
(***************************************************************************)
EXTENDS CommandChannel, FiniteSetTheorems, TLAPS

\* TypeOK is not inductive by itself: how far a client has got bounds what it
\* has counted and opened.
Opening ==
    /\ \A c \in Clients : client[c] = "openServer" => attempts[c] < MaxAttempts
    /\ \A c \in Clients :
          client[c] = "openMemory" =>
              handles[c].client # Unbound /\ handles[c].server # Unbound
    /\ \A c \in Clients : client[c] = "enterRest" => sent[c] \in 1..MaxCommands

TypeInv == TypeOK /\ Opening

\* The two kinds of steps: a server's leave the clients alone.
LEMMA Generation ==
    ASSUME NEW g \in Generations
    PROVE  g \in 0..MaxServers /\ g # Unbound /\ g \in Nat
  BY ChannelAssumption DEF Generations, Unbound

\* The two parts of a buffer, and what is read of them.
LEMMA JoinedText ==
    ASSUME NEW a \in Command, NEW b \in Command
    PROVE  /\ Joined(a, b) \in Command
           /\ Joined(a, b) \in {a, Cut, Mixed}
           /\ a = b => Joined(a, b) = a
           /\ Joined(a, b) \in Sent => a = b
  <1>1. Empty \notin Sent /\ Cut \notin Sent /\ Mixed \notin Sent
    BY ChannelAssumption DEF Sent, Empty, Cut, Mixed
  <1> QED
    BY <1>1 DEF Joined, Command

LEMMA HeadSet ==
    ASSUME NEW b \in Buffer, NEW x \in Command
    PROVE  /\ [b EXCEPT !.head = x] \in Buffer
           /\ [b EXCEPT !.head = x].head = x
           /\ [b EXCEPT !.head = x].tail = b.tail
  BY DEF Buffer

LEMMA TailSet ==
    ASSUME NEW b \in Buffer, NEW x \in Command
    PROVE  /\ [b EXCEPT !.tail = x] \in Buffer
           /\ [b EXCEPT !.tail = x].tail = x
           /\ [b EXCEPT !.tail = x].head = b.head
  BY DEF Buffer

\* One part of one buffer is written.
LEMMA HeadChanged ==
    ASSUME NEW f \in [Generations -> Buffer], NEW m \in Generations, NEW x, NEW h,
           h = [f EXCEPT ![m].head = x], NEW n \in Generations
    PROVE  /\ h[n].head = IF n = m THEN x ELSE f[n].head
           /\ h[n].tail = f[n].tail
  BY DEF Buffer

LEMMA TailChanged ==
    ASSUME NEW f \in [Generations -> Buffer], NEW m \in Generations, NEW x, NEW h,
           h = [f EXCEPT ![m].tail = x], NEW n \in Generations
    PROVE  /\ h[n].tail = IF n = m THEN x ELSE f[n].tail
           /\ h[n].head = f[n].head
  BY DEF Buffer

\* The commands there are.
LEMMA Commands ==
    /\ Empty \in Command /\ Cut \in Command /\ Mixed \in Command
    /\ \A c \in Clients, n \in 1..MaxCommands :
          [client |-> c, number |-> n] \in Sent /\ [client |-> c, number |-> n] \in Command
    /\ \A b \in Buffer : b.head \in Command /\ b.tail \in Command
  BY DEF Command, Sent, Buffer

LEMMA TypeInit == Init => TypeInv
  <1> SUFFICES ASSUME Init PROVE TypeInv
    OBVIOUS
  <1> USE ChannelAssumption DEF Init
  <1>1. ObjectsOK
    BY DEF ObjectsOK, NoHandles, Handles, Unbound, Command, Buffer
  <1>2. ServersOK
    BY DEF ServersOK, ServerLabels, Command, Unbound
  <1>3. ClientsOK
    BY DEF ClientsOK, ClientLabels, NoHandles, Handles, Unbound, Command
  <1>4. HistoriesOK
    BY DEF HistoriesOK
  <1>5. Mapped /\ Opened /\ Opening
    BY DEF Mapped, Opened, Opening, RunLabels, Working
  <1> QED
    BY <1>1, <1>2, <1>3, <1>4, <1>5 DEF TypeInv, TypeOK

LEMMA MappedMemory ==
    ASSUME TypeInv, NEW g \in Generations,
           server[g] \in RunLabels \cup {"zeroMemory", "zeroRest"}
    PROVE  data[g] \in Generations
  BY ChannelAssumption
     DEF TypeInv, TypeOK, ServersOK, Mapped, Generations, Unbound

\* Handles and names, field by field.
LEMMA HandleFields ==
    ASSUME NEW h \in Handles
    PROVE  /\ h.client \in 0..MaxServers
           /\ h.server \in 0..MaxServers
           /\ h.memory \in 0..MaxServers
  BY DEF Handles

\* One handle more.
LEMMA ServerHandleSet ==
    ASSUME NEW h \in Handles, NEW n \in 0..MaxServers,
           NEW opened, opened = [h EXCEPT !.server = n]
    PROVE  opened \in Handles /\ opened.client = h.client /\ opened.server = n
  BY DEF Handles

LEMMA MemoryHandleSet ==
    ASSUME NEW h \in Handles, NEW n \in 0..MaxServers,
           NEW opened, opened = [h EXCEPT !.memory = n]
    PROVE  /\ opened \in Handles
           /\ opened.client = h.client /\ opened.server = h.server
           /\ opened.memory = n
  BY DEF Handles

LEMMA OpenedObjects ==
    ASSUME TypeInv, NEW c \in Clients,
           client[c] \in {"prompt", "enterRest", "post", "wait", "print", "printRest"}
    PROVE  /\ handles[c].client \in Generations
           /\ handles[c].server \in Generations
           /\ handles[c].memory \in Generations
  <1>1. handles[c] \in Handles
    BY DEF TypeInv, TypeOK, ClientsOK
  <1> QED
    BY <1>1, HandleFields, ChannelAssumption
       DEF TypeInv, TypeOK, Opened, Generations, Unbound

\* What is left of the types when a step of a server leaves the clients alone.
ServerPart == ObjectsOK /\ ServersOK /\ Mapped

LEMMA ServerPartKept ==
    ASSUME TypeInv, NEW g \in Generations, serverStep(g) \/ Die(g) \/ Crash(g)
    PROVE  ServerPart'
  <1> USE ChannelAssumption, Generation
      DEF TypeInv, TypeOK, ServerPart, ServersOK, Mapped, ServerAt, RunLabels,
          Working, ServerLabels, Unbound
  <1>1. ASSUME NEW here,
               NEW there \in ServerLabels \ (RunLabels \cup {"zeroMemory", "zeroRest"}),
               NEW name \in {"client", "server", "memory"},
               Unlink(g, here, there, name)
        PROVE  ServerPart'
    BY <1>1 DEF Unlink, ObjectsOK, Handles
  <1>2. ASSUME NEW here, NEW made \in {"createServer", "openMemory", "broken"},
               NEW failed \in {"createOnlyServer", "broken"},
               NEW name \in {"client", "server"},
               Create(g, here, made, failed, name)
        PROVE  ServerPart'
    BY <1>2 DEF Create, ObjectsOK, Handles
  <1>3. CASE UnlinkOld(g) \/ cleanup(g)
    BY <1>1, <1>3 DEF UnlinkOld, cleanup
  <1>4. CASE CreateSemaphores(g)
    BY <1>2, <1>4 DEF CreateSemaphores
  <1>5. CASE OpenOrCreateMemory(g)
    BY <1>5 DEF OpenOrCreateMemory, ObjectsOK, Handles
  <1>6. ASSUME data[g] \in Generations, Empty \in Command
        PROVE  /\ ZeroMemory(g) => ServerPart'
               /\ ZeroRest(g) => ServerPart'
    <2> DEFINE m == data[g]
    <2>1. /\ command[m] \in Buffer /\ response[m] \in Buffer
          /\ m \in Generations
      BY <1>6 DEF ObjectsOK
    <2>2. /\ [command[m] EXCEPT !.head = Empty] \in Buffer
          /\ [response[m] EXCEPT !.head = Empty] \in Buffer
          /\ [command[m] EXCEPT !.tail = Empty] \in Buffer
          /\ [response[m] EXCEPT !.tail = Empty] \in Buffer
      BY <1>6, <2>1, HeadSet, TailSet
    <2>3. CASE ZeroMemory(g)
      BY <2>1, <2>2, <2>3 DEF ZeroMemory, ObjectsOK
    <2>4. CASE ZeroRest(g)
      BY <2>1, <2>2, <2>4 DEF ZeroRest, ObjectsOK
    <2> QED
      BY <2>3, <2>4
  <1>7. CASE LoopHead(g)
    BY <1>7 DEF LoopHead, ObjectsOK, objects
  <1>8. CASE Poll(g)
    BY <1>8 DEF Poll, ObjectsOK
  <1>9. CASE CopyCommand(g) \/ CopyRest(g)
    <2>1. data[g] \in Generations
      BY <1>9, MappedMemory DEF CopyCommand, CopyRest
    <2>2. command[data[g]].head \in Command /\ command[data[g]].tail \in Command
      BY <2>1, Commands DEF ObjectsOK
    <2>3. Joined(request[g], command[data[g]].tail) \in Command
      BY <2>2, JoinedText
    <2> QED
      BY <1>9, <2>2, <2>3 DEF CopyCommand, CopyRest, ObjectsOK, objects
  <1>10. CASE WriteResponse(g) \/ WriteRest(g)
    <2> DEFINE m == data[g]
    <2>1. m \in Generations
      BY <1>10, MappedMemory DEF WriteResponse, WriteRest
    <2>2. response[m] \in Buffer /\ request[g] \in Command
      BY <2>1 DEF ObjectsOK
    <2>3. /\ [response[m] EXCEPT !.head = request[g]] \in Buffer
          /\ [response[m] EXCEPT !.tail = request[g]] \in Buffer
      BY <2>2, HeadSet, TailSet
    <2> QED
      BY <1>10, <2>1, <2>3 DEF WriteResponse, WriteRest, ObjectsOK
  <1>11. CASE PostResponse(g)
    BY <1>11 DEF PostResponse, ObjectsOK, Command
  <1>12. CASE Die(g)
    BY <1>12 DEF Die, ObjectsOK, objects
  <1>13. CASE Crash(g)
    BY <1>13 DEF Crash, ObjectsOK, objects, Command
  <1>14. ZeroMemory(g) \/ ZeroRest(g) => data[g] \in Generations
    BY MappedMemory DEF ZeroMemory, ZeroRest
  <1> QED
    BY <1>3, <1>4, <1>5, <1>6, <1>7, <1>8, <1>9, <1>10, <1>11, <1>12, <1>13, <1>14,
       Commands
       DEF serverStep, run

\* The clients are left alone, and only executed commands and crashes count.
LEMMA ServerKeepsRest ==
    ASSUME TypeInv, NEW g \in Generations, serverStep(g) \/ Die(g) \/ Crash(g)
    PROVE  ClientsOK' /\ Opened' /\ Opening' /\ HistoriesOK'
  <1> USE DEF serverStep, UnlinkOld, Unlink, CreateSemaphores, Create,
              OpenOrCreateMemory, ZeroMemory, ZeroRest, run, LoopHead, Poll,
              CopyCommand, CopyRest, WriteResponse, WriteRest, PostResponse,
              cleanup, Die, Crash
  <1>1. ClientsOK' /\ Opened' /\ Opening'
    BY DEF TypeInv, TypeOK, ClientsOK, Opened, Opening, clientVars
  <1>2. HistoriesOK'
    BY DEF TypeInv, TypeOK, HistoriesOK, histories, InService, Working, Execute
  <1> QED
    BY <1>1, <1>2

\* What is left of the types when a client has taken a step.
ClientPart == ClientsOK /\ Opened /\ Opening

LEMMA ClientPartKept ==
    ASSUME TypeInv, NEW c \in Clients, clientStep(c) \/ userStep(c)
    PROVE  ClientPart'
  <1> USE ChannelAssumption
      DEF TypeInv, TypeOK, ClientPart, ClientsOK, Opened, Opening, ClientAt,
          ClientLabels, Unbound
  <1>1. ASSUME NEW here, Leave(c, here) PROVE ClientPart'
    BY <1>1 DEF Leave, Handles, Command, NoHandles
  <1>2. CASE OpenSemClient(c)
    BY <1>2 DEF OpenSemClient, ObjectsOK, Handles
  <1>3. CASE OpenSemServer(c)
    <2> DEFINE opened == [handles[c] EXCEPT !.server = names.server]
    <2>1. CASE handles[c].client # Unbound /\ names.server # Unbound
      <3>1. /\ opened \in Handles
            /\ opened.client = handles[c].client /\ opened.server = names.server
        <4>1. handles[c] \in Handles /\ names.server \in 0..MaxServers
          BY HandleFields DEF ObjectsOK
        <4>2. opened = [handles[c] EXCEPT !.server = names.server]
          OBVIOUS
        <4> HIDE DEF opened
        <4> QED
          BY <4>1, <4>2, ServerHandleSet
      <3>2. /\ client' = [client EXCEPT ![c] = "openMemory"]
            /\ handles' = [handles EXCEPT ![c] = opened]
            /\ UNCHANGED <<attempts, sent, waited, shown>>
        BY <1>3, <2>1 DEF OpenSemServer
      <3> HIDE DEF opened
      <3> QED
        BY <2>1, <3>1, <3>2
    <2>2. CASE handles[c].client = Unbound \/ names.server = Unbound
      <3>1. /\ client[c] = "openServer" /\ client' = [client EXCEPT ![c] = "retry"]
            /\ handles' = [handles EXCEPT ![c] = NoHandles]
            /\ attempts' = [attempts EXCEPT ![c] = @ + 1]
            /\ UNCHANGED <<sent, waited, shown>>
        BY <1>3, <2>2 DEF OpenSemServer
      <3>2. NoHandles \in Handles
        BY DEF NoHandles, Handles
      <3> QED
        BY <3>1, <3>2
    <2> QED
      BY <2>1, <2>2
  <1>4. CASE OpenMemory(c)
    <2>1. CASE names.memory # Unbound
      <3> DEFINE opened == [handles[c] EXCEPT !.memory = names.memory]
      <3>1. /\ opened \in Handles
            /\ opened.client = handles[c].client
            /\ opened.server = handles[c].server
            /\ opened.memory = names.memory
        <4>1. handles[c] \in Handles /\ names.memory \in 0..MaxServers
          BY HandleFields DEF ObjectsOK
        <4>2. opened = [handles[c] EXCEPT !.memory = names.memory]
          OBVIOUS
        <4> HIDE DEF opened
        <4> QED
          BY <4>1, <4>2, MemoryHandleSet
      <3>2. /\ client[c] = "openMemory" /\ client' = [client EXCEPT ![c] = "prompt"]
            /\ handles' = [handles EXCEPT ![c] = opened]
            /\ UNCHANGED <<attempts, sent, waited, shown>>
        BY <1>4, <2>1 DEF OpenMemory, Leave
      <3> HIDE DEF opened
      <3> QED
        BY <2>1, <3>1, <3>2
    <2> QED
      BY <1>1, <1>4, <2>1 DEF OpenMemory
  <1>5. CASE PostCommand(c)
    BY <1>5 DEF PostCommand
  <1>6. CASE TakeResponse(c)
    BY <1>6 DEF TakeResponse
  <1>7. CASE PrintResponse(c) \/ PrintRest(c)
    <2>1. handles[c].memory \in Generations
      BY <1>7, OpenedObjects DEF PrintResponse, PrintRest
    <2>2. /\ response[handles[c].memory].head \in Command
          /\ response[handles[c].memory].tail \in Command
      BY <2>1, Commands DEF ObjectsOK
    <2>3. Joined(shown[c], response[handles[c].memory].tail) \in Command
      BY <2>2, JoinedText
    <2> QED
      BY <1>7, <2>2, <2>3 DEF PrintResponse, PrintRest
  <1>8. CASE RunClient(c)
    BY <1>8 DEF RunClient
  <1>9. CASE EnterCommand(c) \/ EnterRest(c)
    BY <1>9 DEF EnterCommand, EnterRest, Command
  <1> QED
    BY <1>1, <1>2, <1>3, <1>4, <1>5, <1>6, <1>7, <1>8, <1>9
       DEF clientStep, userStep, GiveUpOpening, TimeOut, Exit, Interrupt

\* The servers go on unchanged; the objects that the client has opened exist.
LEMMA ClientKeepsRest ==
    ASSUME TypeInv, NEW c \in Clients, clientStep(c) \/ userStep(c)
    PROVE  ObjectsOK' /\ ServersOK' /\ Mapped' /\ HistoriesOK'
  <1>1. ServersOK' /\ Mapped'
    BY DEF TypeInv, TypeOK, ServersOK, Mapped, clientStep, userStep,
           OpenSemClient, OpenSemServer, GiveUpOpening, OpenMemory, PostCommand,
           TakeResponse, PrintResponse, PrintRest, TimeOut, RunClient,
           EnterCommand, EnterRest, Exit, Interrupt, Leave, serverVars
  <1>2. client[c] \in {"prompt", "enterRest", "post", "wait"} =>
            /\ handles[c].client \in Generations
            /\ handles[c].server \in Generations
            /\ handles[c].memory \in Generations
    BY OpenedObjects
  <1>3. ObjectsOK'
    <2> USE DEF TypeInv, TypeOK, ObjectsOK, objects
    <2>1. ASSUME NEW here, Leave(c, here) PROVE ObjectsOK'
      BY <2>1 DEF Leave
    <2>2. CASE EnterCommand(c) \/ EnterRest(c)
      <3> DEFINE m == handles[c].memory
      <3>1. m \in Generations /\ command[m] \in Buffer
        BY <1>2, <2>2 DEF EnterCommand, EnterRest, ClientAt
      <3>2. EnterCommand(c) => sent[c] + 1 \in 1..MaxCommands
        BY ChannelAssumption DEF EnterCommand, ClientsOK
      <3>3. ASSUME NEW x \in Command
            PROVE  /\ [command[m] EXCEPT !.head = x] \in Buffer
                   /\ [command[m] EXCEPT !.tail = x] \in Buffer
        BY <3>1, <3>3, HeadSet, TailSet
      <3>4. CASE EnterCommand(c)
        BY <3>1, <3>2, <3>3, <3>4, Commands DEF EnterCommand
      <3>5. CASE EnterRest(c)
        <4>1. sent[c] \in 1..MaxCommands
          BY <3>5 DEF EnterRest, ClientAt, Opening
        <4> QED
          BY <3>1, <3>3, <3>5, <4>1, Commands DEF EnterRest
      <3> QED
        BY <2>2, <3>4, <3>5
    <2>3. CASE PostCommand(c)
      BY <1>2, <2>3 DEF PostCommand, ClientAt
    <2>4. CASE TakeResponse(c)
      BY <1>2, <2>4 DEF TakeResponse, ClientAt
    <2> QED
      BY <2>1, <2>2, <2>3, <2>4
         DEF clientStep, userStep, OpenSemClient, OpenSemServer, GiveUpOpening,
             OpenMemory, PrintResponse, PrintRest, TimeOut, RunClient, Exit,
             Interrupt
  <1>4. HistoriesOK'
    <2> USE DEF TypeInv, TypeOK, HistoriesOK, histories
    <2>1. CASE Orphan(c) /\ client[c] = "wait" /\ UNCHANGED executed
      BY <1>2, <2>1 DEF Orphan
    <2>2. CASE TakeResponse(c)
      BY <1>2, <2>2 DEF TakeResponse, ClientAt
    <2> QED
      BY <2>1, <2>2
         DEF clientStep, userStep, OpenSemClient, OpenSemServer, GiveUpOpening,
             OpenMemory, PostCommand, PrintResponse, PrintRest, TimeOut,
             RunClient, EnterCommand, EnterRest, Exit, Interrupt, Leave, ClientAt
  <1> QED
    BY <1>1, <1>3, <1>4

\* Starting a server, and the passing of a second.
LEMMA OtherStepsKeepType ==
    ASSUME TypeInv, Start \/ Tick
    PROVE  TypeInv'
  <1> USE ChannelAssumption DEF TypeInv, TypeOK
  <1>1. CASE Start
    <2>1. ServersOK' /\ Mapped'
      BY <1>1 DEF Start, ServersOK, Mapped, ServerLabels, RunLabels, Working,
                  Generations
    <2> QED
      BY <1>1, <2>1
         DEF Start, ObjectsOK, ClientsOK, HistoriesOK, Opened, Opening, objects,
             clientVars, histories
  <1>2. CASE Tick
    <2>1. ServersOK' /\ Mapped'
      BY <1>2 DEF Tick, ServersOK, Mapped, ServerLabels, RunLabels, Working
    <2>2. ClientsOK' /\ Opened' /\ Opening'
      BY <1>2 DEF Tick, ClientsOK, Opened, Opening, ClientLabels
    <2> QED
      BY <1>2, <2>1, <2>2 DEF Tick, ObjectsOK, HistoriesOK, objects, histories
  <1> QED
    BY <1>1, <1>2

\* TypeInv is inductive.
LEMMA TypeNext == TypeInv /\ [Next]_vars => TypeInv'
  <1> SUFFICES ASSUME TypeInv, [Next]_vars PROVE TypeInv'
    OBVIOUS
  <1>1. ASSUME NEW g \in Generations, serverStep(g) \/ Die(g) \/ Crash(g)
        PROVE  TypeInv'
    BY <1>1, ServerPartKept, ServerKeepsRest DEF TypeInv, TypeOK, ServerPart
  <1>2. ASSUME NEW c \in Clients, clientStep(c) \/ userStep(c) PROVE TypeInv'
    BY <1>2, ClientPartKept, ClientKeepsRest DEF TypeInv, TypeOK, ClientPart
  <1>3. CASE UNCHANGED vars
    BY <1>3
       DEF TypeInv, TypeOK, ObjectsOK, ServersOK, ClientsOK, HistoriesOK, Mapped,
           Opened, Opening, vars, objects, serverVars, clientVars, histories
  <1> QED
    BY <1>1, <1>2, <1>3, OtherStepsKeepType DEF Next

LEMMA TypeInvCorrect == Spec => []TypeInv
  BY TypeInit, TypeNext, PTL DEF Spec

\* The types of the channel, and that no process uses a handle it has not opened
\* or a memory it has not mapped.
THEOREM TypeCorrect == Spec => []TypeOK
  BY TypeInvCorrect, PTL DEF TypeInv

-----------------------------------------------------------------------------
(* Commands and replies are conserved.                                      *)

\* A server that has not been started yet is off, and so has nothing in work.
Unstarted == \A g \in Generations : g > generation => server[g] = "off"

LEMMA UnstartedCorrect == Spec => []Unstarted
  <1>1. Init => Unstarted
    BY DEF Init, Unstarted
  <1>2. TypeInv /\ Unstarted /\ [Next]_vars => Unstarted'
    <2> SUFFICES ASSUME TypeInv, Unstarted, [Next]_vars PROVE Unstarted'
      OBVIOUS
    <2> USE DEF Unstarted, TypeInv, TypeOK, ServersOK
    <2>1. CASE Start
      BY <2>1, ChannelAssumption DEF Start, Generations
    <2>2. CASE Tick
      BY <2>2 DEF Tick
    <2>3. ASSUME NEW g \in Generations, NEW here \in ServerLabels \ {"off"},
                 NEW there, ServerAt(g, here, there), UNCHANGED generation
          PROVE  Unstarted'
      BY <2>3 DEF ServerAt
    <2>4. ASSUME NEW g \in Generations, serverStep(g) \/ Die(g) \/ Crash(g)
          PROVE  Unstarted'
      BY <2>3, <2>4
         DEF serverStep, UnlinkOld, Unlink, CreateSemaphores, Create,
             OpenOrCreateMemory, ZeroMemory, ZeroRest, run, LoopHead, Poll,
             CopyCommand, CopyRest, WriteResponse, WriteRest, PostResponse,
             cleanup, Die, Crash, ServerAt
    <2>5. ASSUME NEW c \in Clients, clientStep(c) \/ userStep(c)
          PROVE  UNCHANGED serverVars
      BY <2>5
         DEF clientStep, userStep, OpenSemClient, OpenSemServer, GiveUpOpening,
             OpenMemory, PostCommand, TakeResponse, PrintResponse, PrintRest,
             TimeOut, RunClient, EnterCommand, EnterRest, Exit, Interrupt, Leave
    <2>6. CASE UNCHANGED serverVars
      BY <2>6 DEF serverVars
    <2> QED
      BY <2>1, <2>2, <2>4, <2>5, <2>6 DEF Next, vars
  <1> QED
    BY <1>1, <1>2, TypeInvCorrect, PTL DEF Spec

\* The clients that wait for an answer of g are finitely many.
LEMMA WaitingFinite ==
    ASSUME NEW g
    PROVE  IsFiniteSet(Waiting(g)) /\ Cardinality(Waiting(g)) \in Nat
  <1>1. Waiting(g) \subseteq Clients
    BY DEF Waiting
  <1> QED
    BY <1>1, ChannelAssumption, FS_Subset, FS_CardinalityType

\* A client joins them, or leaves them.
LEMMA OneMoreWaits ==
    ASSUME NEW c \in Clients, client \in [Clients -> ClientLabels],
           ClientAt(c, "post", "wait"), UNCHANGED handles, NEW g
    PROVE  Cardinality(Waiting(g))' =
              Cardinality(Waiting(g)) + IF handles[c].client = g THEN 1 ELSE 0
  <1>1. c \notin Waiting(g)
    BY DEF ClientAt, Waiting
  <1>2. Waiting(g)' = IF handles[c].client = g THEN Waiting(g) \cup {c}
                                               ELSE Waiting(g)
    BY DEF ClientAt, Waiting
  <1> QED
    <2>1. IsFiniteSet(Waiting(g)) /\ Cardinality(Waiting(g)) \in Nat
      BY WaitingFinite
    <2>2. Cardinality(Waiting(g) \cup {c}) = Cardinality(Waiting(g)) + 1
      BY <1>1, <2>1, FS_AddElement
    <2> QED
      BY <1>2, <2>1, <2>2

LEMMA OneLessWaits ==
    ASSUME NEW c \in Clients, client \in [Clients -> ClientLabels],
           NEW there, there # "wait", ClientAt(c, "wait", there),
           \A d \in Clients \ {c} : handles'[d] = handles[d], NEW g
    PROVE  Cardinality(Waiting(g))' =
              Cardinality(Waiting(g)) - IF handles[c].client = g THEN 1 ELSE 0
  <1>1. handles[c].client = g => c \in Waiting(g)
    BY DEF ClientAt, Waiting
  <1>2. Waiting(g)' = IF handles[c].client = g THEN Waiting(g) \ {c}
                                               ELSE Waiting(g)
    BY DEF ClientAt, Waiting
  <1> QED
    <2>1. IsFiniteSet(Waiting(g)) /\ Cardinality(Waiting(g)) \in Nat
      BY WaitingFinite
    <2>2. c \in Waiting(g) =>
             Cardinality(Waiting(g) \ {c}) = Cardinality(Waiting(g)) - 1
      BY <2>1, FS_RemoveElement
    <2> QED
      BY <1>1, <1>2, <2>1, <2>2

\* What the servers and the history hold of the answers of g.
Held(g) == sem_client[g] + InService(g) + sem_server[g] - orphans[g]

AllHeld == \A g \in Generations : Held(g) = Cardinality(Waiting(g))

LEMMA HeldIsWaitedFor == TypeInv => (RepliesMatchCommands <=> AllHeld)
  <1> SUFFICES ASSUME TypeInv, NEW g \in Generations
               PROVE  sem_client[g] + InService(g) + sem_server[g]
                         = Cardinality(Waiting(g)) + orphans[g]
                      <=> Held(g) = Cardinality(Waiting(g))
    BY DEF RepliesMatchCommands, AllHeld
  <1>1. /\ sem_client[g] \in Nat /\ sem_server[g] \in Nat /\ orphans[g] \in Int
        /\ InService(g) \in Nat /\ Cardinality(Waiting(g)) \in Nat
    BY WaitingFinite DEF TypeInv, TypeOK, ObjectsOK, HistoriesOK, InService,
                         Working
  <1> QED
    BY <1>1 DEF Held

\* A step of a server moves answers on from one place to the next.
LEMMA ServerHolds ==
    ASSUME TypeInv, NEW g \in Generations, serverStep(g) \/ Die(g) \/ Crash(g),
           NEW h \in Generations
    PROVE  Held(h)' = Held(h)
  <1> USE DEF Held, InService, Working, TypeInv, TypeOK, ObjectsOK, ServersOK,
              HistoriesOK
  <1>1. ASSUME NEW here, here \notin Working, NEW there, there \notin Working,
               ServerAt(g, here, there),
               UNCHANGED <<sem_client, sem_server, orphans>>
        PROVE  Held(h)' = Held(h)
    BY <1>1 DEF ServerAt
  <1>2. CASE UnlinkOld(g) \/ CreateSemaphores(g) \/ OpenOrCreateMemory(g)
             \/ ZeroMemory(g) \/ ZeroRest(g) \/ LoopHead(g) \/ cleanup(g) \/ Die(g)
    BY <1>1, <1>2
       DEF UnlinkOld, Unlink, CreateSemaphores, Create, OpenOrCreateMemory,
           ZeroMemory, ZeroRest, LoopHead, cleanup, Die, objects, histories
  <1>3. CASE Poll(g)
    BY <1>3 DEF Poll, ServerAt, histories
  <1>4. CASE CopyCommand(g) \/ CopyRest(g)
    BY <1>4 DEF CopyCommand, CopyRest, ServerAt, objects, histories
  <1>5. CASE WriteResponse(g) \/ WriteRest(g)
    BY <1>5 DEF WriteResponse, WriteRest, ServerAt, histories
  <1>6. CASE PostResponse(g)
    BY <1>6 DEF PostResponse, ServerAt, histories
  <1>7. CASE Crash(g)
    BY <1>7 DEF Crash, objects
  <1> QED
    BY <1>2, <1>3, <1>4, <1>5, <1>6, <1>7 DEF serverStep, run

\* A command that is posted is held and waited for.
LEMMA PostConserves ==
    ASSUME TypeInv, NEW c \in Clients, PostCommand(c), NEW g \in Generations
    PROVE  Held(g) = Cardinality(Waiting(g)) => Held(g)' = Cardinality(Waiting(g))'
  <1>1. /\ handles[c].client \in Generations
        /\ client \in [Clients -> ClientLabels]
    BY OpenedObjects DEF PostCommand, ClientAt, TypeInv, TypeOK, ClientsOK
  <1>2. Cardinality(Waiting(g))' =
           Cardinality(Waiting(g)) + IF handles[c].client = g THEN 1 ELSE 0
    BY <1>1, OneMoreWaits DEF PostCommand
  <1>3. /\ sem_client[g] \in Nat /\ sem_server[g] \in Nat /\ orphans[g] \in Int
        /\ InService(g) \in Nat /\ Cardinality(Waiting(g)) \in Nat
    BY WaitingFinite DEF TypeInv, TypeOK, ObjectsOK, HistoriesOK, InService,
                         Working
  <1>4. InService(g)' = InService(g)
    BY DEF PostCommand, serverVars, InService, Working
  <1>5. /\ sem_client'[g] = sem_client[g] + IF handles[c].client = g THEN 1 ELSE 0
        /\ sem_server'[g] = sem_server[g] /\ orphans'[g] = orphans[g]
    BY <1>1 DEF PostCommand, histories, TypeInv, TypeOK, ObjectsOK
  <1> QED
    BY <1>2, <1>3, <1>4, <1>5 DEF Held

\* An answer that is taken is held no more, and nobody waits for it; when it was
\* another server's, the debt moves from the one to the other.
LEMMA TakeConserves ==
    ASSUME TypeInv, NEW c \in Clients, TakeResponse(c), NEW g \in Generations
    PROVE  Held(g) = Cardinality(Waiting(g)) => Held(g)' = Cardinality(Waiting(g))'
  <1>1. /\ handles[c].client \in Generations
        /\ handles[c].server \in Generations
        /\ client \in [Clients -> ClientLabels]
    BY OpenedObjects DEF TakeResponse, ClientAt, TypeInv, TypeOK, ClientsOK
  <1>2. Cardinality(Waiting(g))' =
           Cardinality(Waiting(g)) - IF handles[c].client = g THEN 1 ELSE 0
    BY <1>1, OneLessWaits DEF TakeResponse
  <1>3. /\ sem_client[g] \in Nat /\ sem_server[g] \in Nat /\ orphans[g] \in Int
        /\ InService(g) \in Nat /\ Cardinality(Waiting(g)) \in Nat
    BY WaitingFinite DEF TypeInv, TypeOK, ObjectsOK, HistoriesOK, InService,
                         Working
  <1>4. InService(g)' = InService(g)
    BY DEF TakeResponse, serverVars, InService, Working
  <1>5. /\ sem_client'[g] = sem_client[g]
        /\ sem_server'[g] = sem_server[g] - IF handles[c].server = g THEN 1 ELSE 0
        /\ orphans'[g] = (orphans[g] + IF handles[c].client = g THEN 1 ELSE 0)
                            - IF handles[c].server = g THEN 1 ELSE 0
    BY <1>1 DEF TakeResponse, TypeInv, TypeOK, ObjectsOK, HistoriesOK
  <1> QED
    BY <1>2, <1>3, <1>4, <1>5 DEF Held

\* A client that leaves while it waits leaves an answer behind.
LEMMA OrphanConserves ==
    ASSUME TypeInv, NEW c \in Clients, Leave(c, "wait"), Orphan(c),
           NEW g \in Generations
    PROVE  Held(g) = Cardinality(Waiting(g)) => Held(g)' = Cardinality(Waiting(g))'
  <1>1. /\ handles[c].client \in Generations
        /\ client \in [Clients -> ClientLabels]
        /\ handles \in [Clients -> Handles]
    BY OpenedObjects DEF Leave, ClientAt, TypeInv, TypeOK, ClientsOK
  <1>2. Cardinality(Waiting(g))' =
           Cardinality(Waiting(g)) - IF handles[c].client = g THEN 1 ELSE 0
    <2>1. \A d \in Clients \ {c} : handles'[d] = handles[d]
      BY <1>1 DEF Leave
    <2> QED
      BY <1>1, <2>1, OneLessWaits DEF Leave
  <1>3. /\ sem_client[g] \in Nat /\ sem_server[g] \in Nat /\ orphans[g] \in Int
        /\ InService(g) \in Nat /\ Cardinality(Waiting(g)) \in Nat
    BY WaitingFinite DEF TypeInv, TypeOK, ObjectsOK, HistoriesOK, InService,
                         Working
  <1>4. InService(g)' = InService(g)
    BY DEF Leave, serverVars, InService, Working
  <1>5. /\ sem_client'[g] = sem_client[g] /\ sem_server'[g] = sem_server[g]
        /\ orphans'[g] = orphans[g] + IF handles[c].client = g THEN 1 ELSE 0
    BY <1>1 DEF Leave, Orphan, objects, TypeInv, TypeOK, HistoriesOK
  <1> QED
    BY <1>2, <1>3, <1>4, <1>5 DEF Held

\* The other steps of a client, and those of no process, change neither side.
LEMMA OthersConserve ==
    ASSUME TypeInv, NEW c \in Clients,
           \/ OpenSemClient(c) \/ OpenSemServer(c) \/ GiveUpOpening(c)
           \/ OpenMemory(c) \/ PrintResponse(c) \/ PrintRest(c) \/ RunClient(c)
           \/ EnterCommand(c) \/ EnterRest(c) \/ Exit(c),
           NEW g \in Generations
    PROVE  Held(g)' = Held(g) /\ Waiting(g)' = Waiting(g)
  <1> USE DEF OpenSemClient, OpenSemServer, GiveUpOpening, OpenMemory,
              PrintResponse, PrintRest, RunClient, EnterCommand, EnterRest, Exit,
              Leave
  <1>1. Held(g)' = Held(g)
    BY DEF Held, InService, Working, objects, serverVars, histories
  <1>2. ASSUME NEW d \in Clients
        PROVE  client'[d] = "wait" /\ handles'[d].client = g
                  <=> client[d] = "wait" /\ handles[d].client = g
    BY <1>2 DEF ClientAt, TypeInv, TypeOK, ClientsOK
  <1>3. Waiting(g)' = Waiting(g)
    BY <1>2, Zenon DEF Waiting
  <1> QED
    BY <1>1, <1>3

LEMMA OtherStepsConserve ==
    ASSUME TypeInv, Unstarted, Start \/ Tick \/ UNCHANGED vars,
           NEW g \in Generations
    PROVE  Held(g)' = Held(g) /\ Waiting(g)' = Waiting(g)
  <1> USE DEF TypeInv, TypeOK, ServersOK, ClientsOK
  <1>1. InService(g)' = InService(g)
    <2>1. CASE Start
      <3>1. server[generation + 1] = "off" /\ server \in [Generations -> ServerLabels]
        BY <2>1, ChannelAssumption DEF Start, Unstarted, Generations
      <3>2. server' = [server EXCEPT ![generation + 1] = "unlinkOldClient"]
        BY <2>1 DEF Start
      <3> QED
        BY <3>1, <3>2 DEF InService, Working
    <2>2. CASE Tick
      BY <2>2 DEF Tick, InService, Working
    <2> QED
      BY <2>1, <2>2 DEF vars, serverVars, InService, Working
  <1>2. UNCHANGED <<sem_client, sem_server, orphans>>
    BY DEF Start, Tick, vars, objects, histories
  <1>3. ASSUME NEW d \in Clients
        PROVE  client'[d] = "wait" /\ handles'[d].client = g
                  <=> client[d] = "wait" /\ handles[d].client = g
    BY <1>3 DEF Start, Tick, vars, clientVars
  <1> QED
    BY <1>1, <1>2, <1>3 DEF Held, Waiting

\* Every post to sem_client is answered by one post to sem_server: commands and
\* replies are conserved, for any number of clients, through overlapping servers,
\* crashes, timeouts and interruptions.
THEOREM RepliesCorrect == Spec => []RepliesMatchCommands
  <1>1. Init => RepliesMatchCommands
    <2> SUFFICES ASSUME Init, NEW g \in Generations
                 PROVE  sem_client[g] + InService(g) + sem_server[g]
                           = Cardinality(Waiting(g)) + orphans[g]
      BY DEF RepliesMatchCommands
    <2>1. Waiting(g) = {}
      BY DEF Init, Waiting
    <2>2. InService(g) = 0
      BY DEF Init, InService, Working
    <2> QED
      BY <2>1, <2>2, FS_EmptySet DEF Init
  <1>2. TypeInv /\ Unstarted /\ AllHeld /\ [Next]_vars => AllHeld'
    <2> SUFFICES ASSUME TypeInv, Unstarted, AllHeld, [Next]_vars,
                        NEW g \in Generations
                 PROVE  Held(g)' = Cardinality(Waiting(g))'
      BY DEF AllHeld
    <2>1. Held(g) = Cardinality(Waiting(g))
      BY DEF AllHeld
    <2>2. ASSUME NEW h \in Generations, serverStep(h) \/ Die(h) \/ Crash(h)
          PROVE  Held(g)' = Cardinality(Waiting(g))'
      <3>1. Waiting(g)' = Waiting(g)
        BY <2>2
           DEF serverStep, UnlinkOld, Unlink, CreateSemaphores, Create,
               OpenOrCreateMemory, ZeroMemory, ZeroRest, run, LoopHead, Poll,
               CopyCommand, CopyRest, WriteResponse, WriteRest, PostResponse,
               cleanup, Die, Crash, clientVars, Waiting
      <3> QED
        BY <2>1, <2>2, <3>1, ServerHolds
    <2>3. ASSUME NEW c \in Clients, clientStep(c) \/ userStep(c)
          PROVE  Held(g)' = Cardinality(Waiting(g))'
      <3>1. CASE PostCommand(c)
        BY <2>1, <3>1, PostConserves
      <3>2. CASE TakeResponse(c)
        BY <2>1, <3>2, TakeConserves
      <3>3. CASE TimeOut(c) \/ Interrupt(c)
        BY <2>1, <3>3, OrphanConserves DEF TimeOut, Interrupt
      <3>4. CASE \/ OpenSemClient(c) \/ OpenSemServer(c) \/ GiveUpOpening(c)
                 \/ OpenMemory(c) \/ PrintResponse(c) \/ PrintRest(c)
                 \/ RunClient(c) \/ EnterCommand(c) \/ EnterRest(c) \/ Exit(c)
        BY <2>1, <3>4, OthersConserve
      <3> QED
        BY <2>3, <3>1, <3>2, <3>3, <3>4 DEF clientStep, userStep
    <2>4. CASE Start \/ Tick \/ UNCHANGED vars
      BY <2>1, <2>4, OtherStepsConserve
    <2> QED
      BY <2>2, <2>3, <2>4 DEF Next
  <1> QED
    BY <1>1, <1>2, HeldIsWaitedFor, TypeInvCorrect, UnstartedCorrect, PTL DEF Spec

-----------------------------------------------------------------------------
(* What is executed whole was entered, and what is shown whole was executed. *)

\* Of the other texts, the empty one and what is left of several, nothing is said.
Entered(x) == x \in Sent => x.number <= sent[x.client]
Done(x)    == x \in Sent => executed[x] > 0

\* The same of all the parts a command and its response pass through.
CommandsReal  == \A m \in Generations : Entered(command[m].head) /\ Entered(command[m].tail)
ResponsesReal == \A m \in Generations : Done(response[m].head) /\ Done(response[m].tail)
RequestsReal  ==
    \A g \in Generations : /\ Entered(request[g])
                           /\ server[g] = "writeRest" => Done(request[g])
ExecutedReal  == \A x \in Sent : executed[x] > 0 => Entered(x)
ShownReal     == \A c \in Clients : Done(shown[c])

Real == CommandsReal /\ ResponsesReal /\ RequestsReal /\ ExecutedReal /\ ShownReal

\* No user takes a command back, and no execution is undone.
LEMMA CountsGrow ==
    ASSUME TypeInv, [Next]_vars
    PROVE  /\ \A c \in Clients : sent'[c] >= sent[c]
           /\ \A x \in Sent : executed'[x] >= executed[x]
  <1> USE DEF TypeInv, TypeOK, ClientsOK, HistoriesOK
  <1>1. CASE UNCHANGED <<sent, executed>>
    BY <1>1
  <1>2. ASSUME NEW c \in Clients, EnterCommand(c)
        PROVE  executed' = executed /\ \A d \in Clients : sent'[d] >= sent[d]
    BY <1>2 DEF EnterCommand, histories
  <1>3. ASSUME NEW g \in Generations, WriteResponse(g)
        PROVE  sent' = sent /\ \A x \in Sent : executed'[x] >= executed[x]
    BY <1>3 DEF WriteResponse, Execute, clientVars
  <1>4. Start \/ Tick \/ UNCHANGED vars => UNCHANGED <<sent, executed>>
    BY DEF Start, Tick, vars, clientVars, histories
  <1>5. ASSUME NEW g \in Generations, serverStep(g) \/ Die(g) \/ Crash(g),
               ~WriteResponse(g)
        PROVE  UNCHANGED <<sent, executed>>
    BY <1>5
       DEF serverStep, UnlinkOld, Unlink, CreateSemaphores, Create,
           OpenOrCreateMemory, ZeroMemory, ZeroRest, run, LoopHead, Poll,
           CopyCommand, CopyRest, WriteRest, PostResponse, cleanup, Die, Crash,
           clientVars, histories
  <1>6. ASSUME NEW c \in Clients, clientStep(c) \/ userStep(c), ~EnterCommand(c)
        PROVE  UNCHANGED <<sent, executed>>
    BY <1>6
       DEF clientStep, userStep, OpenSemClient, OpenSemServer, GiveUpOpening,
           OpenMemory, EnterRest, PostCommand, TakeResponse, PrintResponse,
           PrintRest, TimeOut, RunClient, Exit, Interrupt, Leave, histories
  <1> QED
    BY <1>1, <1>2, <1>3, <1>4, <1>5, <1>6 DEF Next

LEMMA RealStays ==
    ASSUME TypeInv, [Next]_vars, NEW x
    PROVE  (Entered(x) => Entered(x)') /\ (Done(x) => Done(x)')
  <1>1. /\ x \in Sent => x.client \in Clients /\ x.number \in Nat
        /\ sent \in [Clients -> Nat] /\ sent' \in [Clients -> Nat]
        /\ executed \in [Sent -> Nat] /\ executed' \in [Sent -> Nat]
    BY TypeNext, ChannelAssumption
       DEF Sent, TypeInv, TypeOK, ClientsOK, HistoriesOK
  <1> QED
    BY <1>1, CountsGrow DEF Entered, Done

\* The texts that nobody has entered.
LEMMA NobodyEntered ==
    ASSUME NEW x \in {Empty, Cut, Mixed}
    PROVE  x \notin Sent
  BY ChannelAssumption DEF Sent, Empty, Cut, Mixed

\* What a step leaves as it was stays real.
LEMMA RealKept ==
    ASSUME TypeInv, [Next]_vars, Real
    PROVE  /\ UNCHANGED command => CommandsReal'
           /\ UNCHANGED response => ResponsesReal'
           /\ (\A g \in Generations :
                  /\ request'[g] \in {request[g], Empty}
                  /\ server'[g] = "writeRest" => server[g] = "writeRest")
                => RequestsReal'
           /\ UNCHANGED executed => ExecutedReal'
           /\ (\A c \in Clients : shown'[c] \in {shown[c], Empty}) => ShownReal'
  <1>1. Entered(Empty)' /\ Done(Empty)'
    BY NobodyEntered DEF Entered, Done
  <1>2. UNCHANGED command => CommandsReal'
    BY RealStays DEF Real, CommandsReal
  <1>3. UNCHANGED response => ResponsesReal'
    BY RealStays DEF Real, ResponsesReal
  <1>4. ASSUME \A g \in Generations :
                  /\ request'[g] \in {request[g], Empty}
                  /\ server'[g] = "writeRest" => server[g] = "writeRest"
        PROVE  RequestsReal'
    <2> SUFFICES ASSUME NEW g \in Generations
                 PROVE  /\ Entered(request[g])'
                        /\ (server[g] = "writeRest" => Done(request[g]))'
      BY DEF RequestsReal
    <2>1. CASE request'[g] = Empty
      BY <1>1, <2>1 DEF Entered, Done
    <2>2. CASE request'[g] = request[g]
      <3>1. Entered(request[g]) /\ (server[g] = "writeRest" => Done(request[g]))
        BY DEF Real, RequestsReal
      <3>2. /\ Entered(request[g]) => (request[g] \in Sent => request[g].number <= sent'[request[g].client])
            /\ Done(request[g]) => (request[g] \in Sent => executed'[request[g]] > 0)
        BY RealStays DEF Entered, Done
      <3> QED
        BY <1>4, <2>2, <3>1, <3>2 DEF Entered, Done
    <2> QED
      BY <1>4, <2>1, <2>2
  <1>5. UNCHANGED executed => ExecutedReal'
    BY RealStays DEF Real, ExecutedReal
  <1>6. ASSUME \A c \in Clients : shown'[c] \in {shown[c], Empty} PROVE ShownReal'
    <2> SUFFICES ASSUME NEW c \in Clients PROVE Done(shown[c])'
      BY DEF ShownReal
    <2>1. Done(shown[c])
      BY DEF Real, ShownReal
    <2>2. Done(shown[c]) => (shown[c] \in Sent => executed'[shown[c]] > 0)
      BY RealStays DEF Done
    <2> QED
      BY <1>1, <1>6, <2>1, <2>2 DEF Done
  <1> QED
    BY <1>2, <1>3, <1>4, <1>5, <1>6

\* The server reads a command, part by part, and writes the response to it.
LEMMA ServersWorkReal ==
    ASSUME TypeInv, Real, [Next]_vars, NEW g \in Generations,
           CopyCommand(g) \/ CopyRest(g) \/ WriteResponse(g) \/ WriteRest(g)
    PROVE  Real'
  <1> DEFINE m == data[g]
  <1>0. /\ m \in Generations
        /\ request \in [Generations -> Command] /\ server \in [Generations -> ServerLabels]
        /\ command[m] \in Buffer /\ command[m].head \in Command /\ command[m].tail \in Command
        /\ response \in [Generations -> Buffer]
    <2>1. m \in Generations
      BY MappedMemory
         DEF CopyCommand, CopyRest, WriteResponse, WriteRest, ServerAt, RunLabels,
             Working
    <2> QED
      BY <2>1, Commands DEF TypeInv, TypeOK, ObjectsOK, ServersOK
  <1>1. ASSUME NEW x, CopyCommand(g) \/ CopyRest(g), request' = [request EXCEPT ![g] = x],
               Entered(x)
        PROVE  Real'
    <2>1. UNCHANGED <<command, response, executed, sent, shown>>
      BY <1>1 DEF CopyCommand, CopyRest, objects, clientVars, histories
    <2>2. \A h \in Generations : server'[h] = "writeRest" => h # g /\ server[h] = "writeRest"
      BY <1>0, <1>1 DEF CopyCommand, CopyRest, ServerAt
    <2>3. RequestsReal'
      BY <1>0, <1>1, <2>1, <2>2 DEF Real, RequestsReal, Entered, Done
    <2> QED
      BY <2>1, <2>3, RealKept DEF Real
  <1>2. CASE CopyCommand(g)
    BY <1>0, <1>1, <1>2 DEF CopyCommand, Real, CommandsReal
  <1>3. CASE CopyRest(g)
    <2> DEFINE x == Joined(request[g], command[m].tail)
    <2>1. x \in Sent => x = request[g]
      BY <1>0, JoinedText, NobodyEntered
    <2>2. Entered(x)
      <3> HIDE DEF x
      <3> QED
        BY <2>1 DEF Entered, Real, RequestsReal
    <2>3. request' = [request EXCEPT ![g] = x]
      BY <1>3 DEF CopyRest
    <2> HIDE DEF x
    <2> QED
      BY <1>1, <1>3, <2>2, <2>3
  <1>4. ASSUME Done(request[g])', UNCHANGED <<command, request, sent, shown>>,
               WriteResponse(g) \/ WriteRest(g), ExecutedReal'
        PROVE  Real'
    <2>1. ResponsesReal'
      <3> SUFFICES ASSUME NEW n \in Generations
                   PROVE  Done(response[n].head)' /\ Done(response[n].tail)'
        BY DEF ResponsesReal
      <3>1. /\ response'[n].head \in {response[n].head, request[g]}
            /\ response'[n].tail \in {response[n].tail, request[g]}
        BY <1>0, <1>4, HeadSet, TailSet DEF WriteResponse, WriteRest, Buffer
      <3>2. \A x \in {response[n].head, response[n].tail} :
                x \in Sent => executed'[x] > 0
        BY RealStays DEF Real, ResponsesReal, Done
      <3>3. request[g] \in Sent => executed'[request[g]] > 0
        BY <1>4 DEF Done
      <3> QED
        BY <3>1, <3>2, <3>3 DEF Done
    <2>2. RequestsReal'
      <3> SUFFICES ASSUME NEW h \in Generations
                   PROVE  Entered(request[h])' /\ (server[h] = "writeRest" => Done(request[h]))'
        BY DEF RequestsReal
      <3>1. Entered(request[h])'
        BY <1>4 DEF Real, RequestsReal, Entered
      <3>2. CASE h = g
        BY <1>4, <3>1, <3>2
      <3>3. CASE h # g
        <4>1. server'[h] = server[h]
          BY <1>0, <1>4, <3>3 DEF WriteResponse, WriteRest, ServerAt
        <4>2. server[h] = "writeRest" => (request[h] \in Sent => executed'[request[h]] > 0)
          BY RealStays DEF Real, RequestsReal, Done
        <4> QED
          BY <1>4, <3>1, <4>1, <4>2 DEF Done
      <3> QED
        BY <3>2, <3>3
    <2> QED
      BY <1>4, <2>1, <2>2, RealKept DEF Real
  <1>5. CASE WriteResponse(g)
    <2>1. /\ executed' = [x \in Sent |-> executed[x] + IF x = request[g] THEN 1 ELSE 0]
          /\ UNCHANGED <<command, request, sent, shown>>
          /\ executed \in [Sent -> Nat]
      BY <1>5 DEF WriteResponse, Execute, clientVars, TypeInv, TypeOK, HistoriesOK
    <2>2. Done(request[g])'
      BY <2>1 DEF Done
    <2>3. ExecutedReal'
      <3> SUFFICES ASSUME NEW x \in Sent, executed'[x] > 0 PROVE Entered(x)'
        BY DEF ExecutedReal
      <3>1. executed[x] > 0 \/ x = request[g]
        BY <2>1
      <3> QED
        BY <2>1, <3>1, RealStays DEF Real, ExecutedReal, RequestsReal
    <2> QED
      BY <1>4, <1>5, <2>1, <2>2, <2>3
  <1>6. CASE WriteRest(g)
    <2>1. UNCHANGED <<command, request, sent, shown, executed>>
      BY <1>6 DEF WriteRest, clientVars, histories
    <2>2. Done(request[g])'
      BY <1>6, <2>1 DEF WriteRest, ServerAt, Real, RequestsReal, Done
    <2>3. ExecutedReal'
      BY <2>1, RealKept
    <2> QED
      BY <1>4, <1>6, <2>1, <2>2, <2>3
  <1> QED
    BY <1>2, <1>3, <1>5, <1>6

\* A client writes a command, and reads a response, part by part.
LEMMA ClientsWorkReal ==
    ASSUME TypeInv, Real, [Next]_vars, NEW c \in Clients,
           EnterCommand(c) \/ EnterRest(c) \/ PrintResponse(c) \/ PrintRest(c)
    PROVE  Real'
  <1> DEFINE m == handles[c].memory
  <1>0. /\ m \in Generations /\ sent \in [Clients -> 0..MaxCommands]
        /\ command \in [Generations -> Buffer] /\ response[m] \in Buffer
        /\ response[m].head \in Command /\ response[m].tail \in Command
        /\ shown \in [Clients -> Command]
    <2>1. m \in Generations
      BY OpenedObjects DEF EnterCommand, EnterRest, PrintResponse, PrintRest,
                           ClientAt
    <2> QED
      BY <2>1, Commands DEF TypeInv, TypeOK, ObjectsOK, ClientsOK
  <1>1. /\ UNCHANGED <<response, executed>>
        /\ ResponsesReal' /\ ExecutedReal'
    <2>1. UNCHANGED <<response, executed>>
      BY DEF EnterCommand, EnterRest, PrintResponse, PrintRest, objects, histories
    <2> QED
      BY <2>1, RealKept
  <1>2. RequestsReal'
    <2>1. UNCHANGED <<request, server>>
      BY DEF EnterCommand, EnterRest, PrintResponse, PrintRest, serverVars
    <2> QED
      BY <2>1, RealKept
  <1>3. CASE EnterCommand(c) \/ EnterRest(c)
    <2>1. PICK x : /\ x.client = c /\ x.number = sent'[c]
                   /\ \/ command' = [command EXCEPT ![m].head = x]
                      \/ command' = [command EXCEPT ![m].tail = x]
      <3>1. CASE EnterCommand(c)
        BY <1>0, <3>1 DEF EnterCommand
      <3>2. CASE EnterRest(c)
        BY <1>0, <3>2 DEF EnterRest
      <3> QED
        BY <1>3, <3>1, <3>2
    <2>2. sent'[c] \in Nat
      BY <1>0, <1>3 DEF EnterCommand, EnterRest
    <2>3. CommandsReal'
      <3> SUFFICES ASSUME NEW n \in Generations
                   PROVE  Entered(command[n].head)' /\ Entered(command[n].tail)'
        BY DEF CommandsReal
      <3>1. /\ command'[n].head \in {command[n].head, x}
            /\ command'[n].tail \in {command[n].tail, x}
        BY <1>0, <2>1 DEF Buffer
      <3>2. \A y \in {command[n].head, command[n].tail} :
                y \in Sent => y.number <= sent'[y.client]
        BY RealStays DEF Real, CommandsReal, Entered
      <3>3. x \in Sent => x.number <= sent'[x.client]
        BY <2>1, <2>2
      <3> QED
        BY <3>1, <3>2, <3>3 DEF Entered
    <2>4. \A d \in Clients : shown'[d] \in {shown[d], Empty}
      BY <1>0, <1>3 DEF EnterCommand, EnterRest
    <2> QED
      BY <1>1, <1>2, <2>3, <2>4, RealKept DEF Real
  <1>4. CASE PrintResponse(c) \/ PrintRest(c)
    <2>1. UNCHANGED command
      BY <1>4 DEF PrintResponse, PrintRest, objects
    <2>2. Done(response[m].head) /\ Done(shown[c])
      BY <1>0 DEF Real, ResponsesReal, ShownReal
    <2>3. PrintRest(c) => shown'[c] \in {shown[c], Cut, Mixed}
      BY <1>0, JoinedText DEF PrintRest
    <2>4. shown'[c] \in Sent => executed[shown'[c]] > 0
      BY <1>0, <1>4, <2>2, <2>3, NobodyEntered DEF PrintResponse, Done
    <2>5. \A d \in Clients \ {c} : shown'[d] = shown[d]
      BY <1>0, <1>4 DEF PrintResponse, PrintRest
    <2>6. ShownReal'
      BY <1>1, <2>4, <2>5 DEF Real, ShownReal, Done
    <2> QED
      BY <1>1, <1>2, <2>1, <2>6, RealKept DEF Real
  <1> QED
    BY <1>3, <1>4

\* A server that starts zeroes the memory.
LEMMA ZeroesReal ==
    ASSUME TypeInv, Real, [Next]_vars, NEW g \in Generations, ZeroMemory(g) \/ ZeroRest(g)
    PROVE  Real'
  <1>1. /\ command \in [Generations -> Buffer] /\ response \in [Generations -> Buffer]
        /\ data[g] \in Generations
    BY MappedMemory
       DEF TypeInv, TypeOK, ObjectsOK, ZeroMemory, ZeroRest, ServerAt
  <1>2. Empty \notin Sent
    BY NobodyEntered
  <1>3. ASSUME NEW n \in Generations
        PROVE  /\ command'[n].head \in {command[n].head, Empty}
               /\ command'[n].tail \in {command[n].tail, Empty}
               /\ response'[n].head \in {response[n].head, Empty}
               /\ response'[n].tail \in {response[n].tail, Empty}
    <2>1. ASSUME NEW f \in [Generations -> Buffer], NEW h,
                 \/ h = [f EXCEPT ![data[g]].head = Empty]
                 \/ h = [f EXCEPT ![data[g]].tail = Empty]
          PROVE  /\ h[n].head \in {f[n].head, Empty}
                 /\ h[n].tail \in {f[n].tail, Empty}
      <3>1. CASE h = [f EXCEPT ![data[g]].head = Empty]
        BY <1>1, <3>1 DEF Buffer
      <3>2. CASE h = [f EXCEPT ![data[g]].tail = Empty]
        BY <1>1, <3>2 DEF Buffer
      <3> QED
        BY <2>1, <3>1, <3>2
    <2>2. /\ \/ command' = [command EXCEPT ![data[g]].head = Empty]
             \/ command' = [command EXCEPT ![data[g]].tail = Empty]
          /\ \/ response' = [response EXCEPT ![data[g]].head = Empty]
             \/ response' = [response EXCEPT ![data[g]].tail = Empty]
      BY DEF ZeroMemory, ZeroRest
    <2> QED
      BY <1>1, <2>1, <2>2
  <1>4. UNCHANGED <<executed, request, shown, sent>>
        /\ \A h \in Generations : server'[h] = "writeRest" => server[h] = "writeRest"
    BY DEF ZeroMemory, ZeroRest, ServerAt, clientVars, histories, TypeInv, TypeOK,
           ServersOK
  <1>5. CommandsReal' /\ ResponsesReal'
    BY <1>2, <1>3, <1>4 DEF Real, CommandsReal, ResponsesReal, Entered, Done
  <1> QED
    BY <1>4, <1>5, RealKept DEF Real

LEMMA RealNext == TypeInv /\ Real /\ [Next]_vars => Real'
  <1> SUFFICES ASSUME TypeInv, Real, [Next]_vars PROVE Real'
    OBVIOUS
  <1>1. ASSUME NEW g \in Generations,
               \/ UnlinkOld(g) \/ CreateSemaphores(g) \/ OpenOrCreateMemory(g)
               \/ LoopHead(g) \/ Poll(g) \/ PostResponse(g) \/ cleanup(g) \/ Die(g)
               \/ Crash(g)
        PROVE  Real'
    <2>1. UNCHANGED <<command, response, executed, shown>>
      BY <1>1
         DEF UnlinkOld, Unlink, CreateSemaphores, Create, OpenOrCreateMemory,
             LoopHead, Poll, PostResponse, cleanup, Die, Crash, objects,
             clientVars, histories
    <2>2. \A h \in Generations : /\ request'[h] \in {request[h], Empty}
                                 /\ server'[h] = "writeRest" => server[h] = "writeRest"
      BY <1>1
         DEF UnlinkOld, Unlink, CreateSemaphores, Create, OpenOrCreateMemory,
             LoopHead, Poll, PostResponse, cleanup, Die, Crash, ServerAt, TypeInv,
             TypeOK, ServersOK
    <2> QED
      BY <2>1, <2>2, RealKept DEF Real
  <1>2. ASSUME NEW c \in Clients, clientStep(c) \/ userStep(c), ~EnterCommand(c),
               ~EnterRest(c), ~PrintResponse(c), ~PrintRest(c)
        PROVE  Real'
    <2>1. UNCHANGED <<command, response, request, server, executed>>
      BY <1>2
         DEF clientStep, userStep, OpenSemClient, OpenSemServer, GiveUpOpening,
             OpenMemory, PostCommand, TakeResponse, TimeOut, RunClient, Exit,
             Interrupt, Leave, objects, serverVars, histories
    <2>2. \A d \in Clients : shown'[d] \in {shown[d], Empty}
      BY <1>2
         DEF clientStep, userStep, OpenSemClient, OpenSemServer, GiveUpOpening,
             OpenMemory, PostCommand, TakeResponse, TimeOut, RunClient, Exit,
             Interrupt, Leave, TypeInv, TypeOK, ClientsOK
    <2> QED
      BY <2>1, <2>2, RealKept DEF Real
  <1>3. CASE Start \/ Tick \/ UNCHANGED vars
    <2>1. UNCHANGED <<command, response, request, executed, shown>>
      BY <1>3 DEF Start, Tick, vars, objects, serverVars, clientVars, histories
    <2>2. \A g \in Generations : server'[g] = "writeRest" => server[g] = "writeRest"
      BY <1>3 DEF Start, Tick, vars, serverVars, TypeInv, TypeOK, ServersOK
    <2> QED
      BY <2>1, <2>2, RealKept DEF Real
  <1> QED
    BY <1>1, <1>2, <1>3, ServersWorkReal, ClientsWorkReal, ZeroesReal
       DEF Next, serverStep, run

\* What is executed whole was entered, and what is shown whole was executed, for
\* any number of users and servers whose copies overlap in any way, with and
\* without crashes and interruptions.
THEOREM RealCorrect == Spec => []RepliesAreReal
  <1>1. Init => Real
    <2>1. Empty \notin Sent
      BY NobodyEntered
    <2> QED
      BY <2>1
         DEF Init, Real, CommandsReal, ResponsesReal, RequestsReal, ExecutedReal,
             ShownReal, Entered, Done
  <1>2. Real => RepliesAreReal
    BY DEF Real, ExecutedReal, ShownReal, Entered, Done, RepliesAreReal
  <1> QED
    BY <1>1, <1>2, RealNext, TypeInvCorrect, PTL DEF Spec

-----------------------------------------------------------------------------
(* Every step and every second nears.                                       *)

Moves(c) == client'[c] # client[c] \/ attempts'[c] # attempts[c] \/ waited'[c] # waited[c]

Nears(c) == client[c] \notin {"prompt", "gone"} /\ Moves(c)
                => StepsLeft(c)' \in 0..(StepsLeft(c) - 1)

\* The bound, label by label, before a step and after it.
LEMMA StepsAre ==
    ASSUME NEW c \in Clients
    PROVE  /\ client[c] = "openClient" => StepsLeft(c) = 3 * (MaxAttempts - attempts[c]) + 3
           /\ client[c] = "openServer" => StepsLeft(c) = 3 * (MaxAttempts - attempts[c]) + 2
           /\ client[c] = "retry" => StepsLeft(c) = 3 * (MaxAttempts - attempts[c]) + 4
           /\ client[c] = "enterRest" => StepsLeft(c) = ClientTimeout + 5
           /\ client[c] = "post" => StepsLeft(c) = ClientTimeout + 4
           /\ client[c] = "wait" => StepsLeft(c) = ClientTimeout - waited[c] + 3
           /\ client[c] = "print" => StepsLeft(c) = 2
           /\ client[c] \in {"openMemory", "printRest"} => StepsLeft(c) = 1
           /\ client[c] \in {"prompt", "gone"} => StepsLeft(c) = 0
BY DEF StepsLeft

LEMMA StepsWillBe ==
    ASSUME NEW c \in Clients
    PROVE  /\ client'[c] = "openClient" =>
                  StepsLeft(c)' = 3 * (MaxAttempts - attempts'[c]) + 3
           /\ client'[c] = "openServer" =>
                  StepsLeft(c)' = 3 * (MaxAttempts - attempts'[c]) + 2
           /\ client'[c] = "retry" => StepsLeft(c)' = 3 * (MaxAttempts - attempts'[c]) + 4
           /\ client'[c] = "enterRest" => StepsLeft(c)' = ClientTimeout + 5
           /\ client'[c] = "post" => StepsLeft(c)' = ClientTimeout + 4
           /\ client'[c] = "wait" => StepsLeft(c)' = ClientTimeout - waited'[c] + 3
           /\ client'[c] = "print" => StepsLeft(c)' = 2
           /\ client'[c] \in {"openMemory", "printRest"} => StepsLeft(c)' = 1
           /\ client'[c] \in {"prompt", "gone"} => StepsLeft(c)' = 0
BY DEF StepsLeft

\* A client's own step brings it closer.
LEMMA OwnStepNears ==
    ASSUME TypeInv, NEW c \in Clients, clientStep(c) \/ userStep(c) PROVE Nears(c)
  <1>0. /\ attempts[c] \in Nat /\ attempts[c] <= MaxAttempts
        /\ client[c] = "openServer" => attempts[c] < MaxAttempts
        /\ waited[c] \in Nat /\ waited[c] <= ClientTimeout
        /\ MaxAttempts \in Nat /\ ClientTimeout \in Nat
    BY ChannelAssumption DEF TypeInv, TypeOK, ClientsOK, Opening
  <1>1. client \in [Clients -> ClientLabels] /\ attempts \in [Clients -> 0..MaxAttempts]
        /\ waited \in [Clients -> 0..ClientTimeout]
    BY DEF TypeInv, TypeOK, ClientsOK
  <1>2. ASSUME NEW here \in {"openClient", "openMemory", "wait", "prompt"}, Leave(c, here)
        PROVE  Nears(c)
    <2>1. client[c] = here /\ client'[c] = "gone"
      BY <1>1, <1>2 DEF Leave, ClientAt
    <2>2. StepsLeft(c)' = 0
      BY <2>1, StepsWillBe
    <2>3. here # "prompt" => StepsLeft(c) \in Nat \ {0}
      BY <1>0, <2>1, StepsAre
    <2> QED
      BY <2>1, <2>2, <2>3 DEF Nears
  <1>3. CASE RunClient(c) \/ EnterCommand(c)
    BY <1>3 DEF RunClient, EnterCommand, EnterRest, ClientAt, Nears
  <1>4. CASE OpenSemClient(c)
    <2>1. /\ client[c] = "openClient" /\ client'[c] = "openServer"
          /\ attempts'[c] = attempts[c]
      BY <1>1, <1>4 DEF OpenSemClient, ClientAt
    <2> QED
      BY <1>0, <2>1, StepsAre, StepsWillBe DEF Nears
  <1>5. CASE OpenSemServer(c)
    <2>1. CASE client'[c] = "openMemory"
      <3>1. client[c] = "openServer"
        BY <1>5 DEF OpenSemServer, ClientAt
      <3> QED
        BY <1>0, <2>1, <3>1, StepsAre, StepsWillBe DEF Nears
    <2>2. CASE client'[c] # "openMemory"
      <3>1. /\ client[c] = "openServer" /\ client'[c] = "retry"
            /\ attempts'[c] = attempts[c] + 1
        BY <1>1, <1>5, <2>2 DEF OpenSemServer, ClientAt
      <3> QED
        BY <1>0, <3>1, StepsAre, StepsWillBe DEF Nears
    <2> QED
      BY <2>1, <2>2
  <1>6. CASE PostCommand(c)
    <2>1. client[c] = "post" /\ client'[c] = "wait" /\ waited'[c] = 0
      BY <1>1, <1>6 DEF PostCommand, ClientAt
    <2> QED
      BY <1>0, <2>1, StepsAre, StepsWillBe DEF Nears
  <1>7. CASE TakeResponse(c)
    <2>1. client[c] = "wait" /\ client'[c] = "print"
      BY <1>1, <1>7 DEF TakeResponse, ClientAt
    <2> QED
      BY <1>0, <2>1, StepsAre, StepsWillBe DEF Nears
  <1>8. ASSUME client[c] \in {"printRest", "openMemory"}, client'[c] = "prompt" PROVE Nears(c)
    BY <1>8, StepsAre, StepsWillBe DEF Nears
  <1>9. CASE PrintRest(c)
    BY <1>1, <1>8, <1>9 DEF PrintRest, ClientAt
  <1>14. CASE PrintResponse(c) \/ EnterRest(c)
    <2>1. \/ client[c] = "print" /\ client'[c] = "printRest"
          \/ client[c] = "enterRest" /\ client'[c] = "post"
      BY <1>1, <1>14 DEF PrintResponse, EnterRest, ClientAt
    <2> QED
      BY <1>0, <2>1, StepsAre, StepsWillBe DEF Nears
  <1>10. CASE OpenMemory(c)
    <2>1. CASE ClientAt(c, "openMemory", "prompt")
      BY <1>1, <1>8, <2>1 DEF ClientAt
    <2> QED
      BY <1>2, <1>10, <2>1 DEF OpenMemory
  <1>11. CASE GiveUpOpening(c) \/ TimeOut(c) \/ Exit(c) \/ Interrupt(c)
    BY <1>2, <1>11 DEF GiveUpOpening, TimeOut, Exit, Interrupt
  <1>12. CASE clientStep(c)
    BY <1>4, <1>5, <1>6, <1>7, <1>9, <1>10, <1>11, <1>12, <1>14 DEF clientStep
  <1>13. CASE userStep(c)
    BY <1>3, <1>11, <1>13 DEF userStep
  <1> QED
    BY <1>12, <1>13

\* A second brings the clients closer that sleep or wait.
LEMMA SecondNears ==
    ASSUME TypeInv, Tick, NEW c \in Clients PROVE Nears(c)
  <1>0. /\ attempts[c] \in Nat /\ attempts[c] <= MaxAttempts
        /\ waited[c] \in Nat /\ waited[c] <= ClientTimeout
        /\ MaxAttempts \in Nat /\ ClientTimeout \in Nat
    BY ChannelAssumption DEF TypeInv, TypeOK, ClientsOK
  <1>1. /\ client'[c] = IF client[c] = "retry" THEN "openClient" ELSE client[c]
        /\ waited'[c] = IF client[c] = "wait" THEN waited[c] + 1 ELSE waited[c]
        /\ attempts'[c] = attempts[c]
        /\ client[c] = "wait" => waited[c] < ClientTimeout
    BY DEF Tick
  <1>2. CASE client[c] = "retry"
    BY <1>0, <1>1, <1>2, StepsAre, StepsWillBe DEF Nears
  <1>3. CASE client[c] = "wait"
    BY <1>0, <1>1, <1>3, StepsAre, StepsWillBe DEF Nears
  <1>4. CASE client[c] \notin {"retry", "wait"}
    BY <1>1, <1>4 DEF Nears, Moves
  <1> QED
    BY <1>2, <1>3, <1>4

\* No client opens or waits for ever: what StepsLeft counts goes down with each
\* of its steps and each second, and nobody else's step sends it back.
THEOREM StepsNear == Spec => EveryStepNears
  <1>1. ASSUME TypeInv, [Next]_vars, NEW c \in Clients PROVE Nears(c)
    <2>1. ASSUME NEW d \in Clients, clientStep(d) \/ userStep(d) PROVE Nears(c)
      <3>1. CASE d = c
        BY <1>1, <2>1, <3>1, OwnStepNears
      <3>2. CASE d # c
        BY <1>1, <2>1, <3>2
           DEF clientStep, userStep, OpenSemClient, OpenSemServer, GiveUpOpening,
               OpenMemory, PostCommand, TakeResponse, PrintResponse, PrintRest,
               TimeOut, RunClient, EnterCommand, EnterRest, Exit, Interrupt,
               Leave, ClientAt, Nears, Moves, TypeInv, TypeOK, ClientsOK
      <3> QED
        BY <3>1, <3>2
    <2>2. CASE UNCHANGED clientVars
      BY <2>2 DEF clientVars, Nears, Moves
    <2>3. CASE Tick
      BY <1>1, <2>3, SecondNears
    <2>4. ASSUME Start \/ UNCHANGED vars
                 \/ \E g \in Generations : serverStep(g) \/ Die(g) \/ Crash(g)
          PROVE  UNCHANGED clientVars
      BY <2>4
         DEF Start, vars, serverStep, UnlinkOld, Unlink, CreateSemaphores, Create,
             OpenOrCreateMemory, ZeroMemory, ZeroRest, run, LoopHead, Poll,
             CopyCommand, CopyRest, WriteResponse, WriteRest, PostResponse,
             cleanup, Die, Crash
    <2> QED
      BY <1>1, <2>1, <2>2, <2>3, <2>4 DEF Next
  <1>2. TypeInv /\ [Next]_vars =>
          [\A c \in Clients :
              /\ client[c] \notin {"prompt", "gone"}
              /\ \/ client'[c] # client[c]
                 \/ attempts'[c] # attempts[c] \/ waited'[c] # waited[c]
              => StepsLeft(c)' \in 0..(StepsLeft(c) - 1)]_vars
    BY <1>1 DEF Nears, Moves
  <1> QED
    BY <1>2, TypeInvCorrect, PTL DEF Spec, EveryStepNears

=============================================================================
