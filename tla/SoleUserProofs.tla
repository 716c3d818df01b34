--------------------------- MODULE SoleUserProofs ---------------------------
(***************************************************************************)
(* What CommandChannel promises a user who has the server to himself and   *)
(* waits for his answers, through any number of commands, timeouts, and of *)
(* servers that end or crash and are replaced: his own reply, in time, and *)
(* the abstract service of module Service.                                 *)
(***************************************************************************)
EXTENDS CommandChannelProofs

\* One user, who does not interrupt his client; one server after the other; and
\* processes that are given the processor within the second, of which the client
\* waits for more than one.
SoleUser(u) ==
    /\ Clients = {u}
    /\ ~MayInterrupt
    /\ ~Overlap
    /\ Prompt
    /\ ClientTimeout > 1

-----------------------------------------------------------------------------
(* The inductive invariant.                                                 *)

\* From the first unlink to the return of run, and of that until run begins.
Serving  == ServerLabels \ {"off", "returned", "unlinkClient", "unlinkServer"}
Starting == Serving \ RunLabels

\* Only the last server is alive, it has the names to itself while it makes them,
\* and its memory is its own.
Alone ==
    /\ \A g \in Generations : server[g] # "off" => g = generation
    /\ \A g \in Generations : server[g] \notin {"broken", "createOnlyServer"}
    /\ \A g \in Generations :
          server[g] \in {"unlinkOldServer", "unlinkOldMemory", "createClient"} =>
              names.client = Unbound
    /\ \A g \in Generations :
          server[g] \in {"unlinkOldMemory", "createClient", "createServer"} =>
              names.server = Unbound
    /\ \A g \in Generations :
          server[g] \in {"createClient", "createServer", "openMemory"} =>
              names.memory = Unbound
    /\ \A g \in Generations :
          server[g] \in RunLabels \cup {"zeroMemory", "zeroRest"} => data[g] = g

\* Names are unlinked and made in one order, and objects opened in the same, so
\* that what is opened later is not older.
Before(m, n) == m # Unbound /\ n # Unbound => m <= n

NamesInOrder ==
    /\ names.client <= generation
    /\ names.server <= generation
    /\ names.memory <= generation
    /\ Before(names.client, names.server)
    /\ Before(names.server, names.memory)

HandlesInOrder(u) ==
    LET h == handles[u]
    IN  /\ h.client <= generation /\ h.server <= generation /\ h.memory <= generation
        /\ Before(h.client, names.server) /\ Before(h.server, names.memory)
        /\ Before(h.client, h.server) /\ Before(h.server, h.memory)
        /\ client[u] \in {"gone", "openClient", "retry"} => h = NoHandles
        /\ client[u] = "openServer" => h.server = Unbound /\ h.memory = Unbound
        /\ client[u] = "openMemory" => h.memory = Unbound

Ordered(u) == Alone /\ NamesInOrder /\ HandlesInOrder(u)

Latest(u)     == [client |-> u, number |-> sent[u]]
Own(u)        == {Latest(u), Empty}
Heard(u)      == {Latest(u), Empty, Cut}
Pending(u, g) == client[u] = "wait" /\ handles[u].client = g

\* The server that runs holds the one command that the client waits for, and
\* nothing otherwise.
Owed(u) ==
    /\ \A g \in Generations :
          g > generation => sem_client[g] = 0 /\ sem_server[g] = 0
    /\ \A g \in Generations :
          server[g] \in Serving =>
              sem_client[g] + InService(g) + sem_server[g]
                  = IF Pending(u, g) THEN 1 ELSE 0

\* An answer that was given is the client's, who will take it.
Answered(u) ==
    \A g \in Generations :
        sem_server[g] > 0 =>
            /\ sem_server[g] = 1
            /\ client[u] = "wait"
            /\ handles[u].client = g /\ handles[u].server = g
            /\ handles[u].memory = g
            /\ waited[u] < ClientTimeout
            /\ server[g] \notin Starting
            /\ response[g].head = response[g].tail /\ response[g].tail \in Heard(u)

\* A server that slept when the command was posted looks a second later.
Soon(u) ==
    \A g \in Generations :
        server[g] \in Serving /\ Pending(u, g) =>
            /\ waited[u] <= 1
            /\ sem_client[g] > 0 /\ server[g] \notin {"head", "poll"} =>
                  waited[u] = 0

\* No other command and no other response is where it would be read, and nobody
\* writes there meanwhile: of a command a server that started may have wiped a
\* part, a response is whole.
Commanded(u) ==
    LET m == handles[u].memory
    IN  /\ client[u] \in {"enterRest", "post", "wait"} => command[m].head \in Own(u)
        /\ client[u] \in {"post", "wait"} => command[m].tail \in Own(u)

Printed(u) ==
    LET m == handles[u].memory
    IN  /\ client[u] \in {"print", "printRest"} =>
              /\ server[m] \notin Starting
              /\ response[m].head = response[m].tail /\ response[m].tail \in Heard(u)
        /\ client[u] = "printRest" => shown[u] = response[m].tail
        /\ shown[u] \in Heard(u)

InHand(u) ==
    \A g \in Generations :
        /\ server[g] = "copyRest" => request[g] \in Own(u)
        /\ server[g] \in {"respond", "writeRest"} => request[g] \in Heard(u)
        /\ server[g] = "writeRest" => response[g].head = request[g]
        /\ server[g] = "post" =>
              response[g].head = response[g].tail /\ response[g].tail \in Heard(u)

Contents(u) == Commanded(u) /\ Printed(u) /\ InHand(u)

\* A command that is still to be executed has not been, and a response that can
\* be read is one to a command that has been.
Once(u) ==
    /\ \A x \in Sent : executed[x] \in {0, 1}
    /\ \A x \in Sent : executed[x] = 1 => x.number <= sent[u]
    /\ client[u] \in {"enterRest", "post"} => executed[Latest(u)] = 0
    /\ \A g \in Generations :
          server[g] \in Serving /\ Pending(u, g) =>
              (sem_client[g] > 0 \/ server[g] \in {"process", "copyRest", "respond"} =>
                  executed[Latest(u)] = 0)
    /\ \A g \in Generations : \A x \in {response[g].head, response[g].tail} :
          x \in Sent => executed[x] = 1

Conversation(u) == Owed(u) /\ Answered(u) /\ Soon(u) /\ Contents(u) /\ Once(u)

-----------------------------------------------------------------------------
(* The order of names and handles                                           *)

LEMMA ClientHandleSet ==
    ASSUME NEW h \in Handles, NEW n \in 0..MaxServers,
           NEW opened, opened = [h EXCEPT !.client = n]
    PROVE  /\ opened.client = n
           /\ opened.server = h.server /\ opened.memory = h.memory
  BY DEF Handles

\* Clients leave names and servers alone.
LEMMA ClientLeaves ==
    ASSUME NEW c \in Clients, clientStep(c) \/ userStep(c)
    PROVE  UNCHANGED <<names, serverVars>>
  BY DEF clientStep, userStep, OpenSemClient, OpenSemServer, GiveUpOpening,
         OpenMemory, PostCommand, TakeResponse, PrintResponse, PrintRest, TimeOut,
         RunClient, EnterCommand, EnterRest, Exit, Interrupt, Leave, objects

\* Servers leave clients alone.
LEMMA ServerLeaves ==
    ASSUME NEW g \in Generations, serverStep(g) \/ Die(g) \/ Crash(g)
    PROVE  UNCHANGED clientVars
  BY DEF serverStep, UnlinkOld, Unlink, CreateSemaphores, Create,
         OpenOrCreateMemory, ZeroMemory, ZeroRest, run, LoopHead, Poll,
         CopyCommand, CopyRest, WriteResponse, WriteRest, PostResponse, cleanup,
         Die, Crash

\* What a step of a server does to its label and the names.
LEMMA ServerNames ==
    ASSUME TypeInv, Alone, NamesInOrder,
           NEW g \in Generations, serverStep(g) \/ Die(g) \/ Crash(g)
    PROVE  /\ Alone'
           /\ NamesInOrder'
           /\ names'.server \in {names.server, Unbound, generation}
           /\ names'.memory \in {names.memory, Unbound, generation}
  <1> USE Generation, ChannelAssumption
      DEF TypeInv, TypeOK, ServersOK, ServerAt, ServerLabels, RunLabels, Working,
          Unbound
  <1>1. /\ names \in Handles /\ names.client \in Nat /\ names.server \in Nat
        /\ names.memory \in Nat /\ generation \in Nat
    BY HandleFields DEF ObjectsOK
  <1>2. g = generation /\ server[g] \notin {"off", "broken", "createOnlyServer"}
    BY DEF Alone, serverStep, UnlinkOld, Unlink, CreateSemaphores, Create,
           OpenOrCreateMemory, ZeroMemory, ZeroRest, run, LoopHead, Poll,
           CopyCommand, CopyRest, WriteResponse, WriteRest, PostResponse, cleanup,
           Die, Crash
  <1> USE DEF Alone, NamesInOrder, Before
  <1>3. CASE Unlink(g, "unlinkOldClient", "unlinkOldServer", "client")
    BY <1>1, <1>2, <1>3 DEF Unlink, Handles
  <1>4. CASE Unlink(g, "unlinkOldServer", "unlinkOldMemory", "server")
    BY <1>1, <1>2, <1>4 DEF Unlink, Handles
  <1>5. CASE Unlink(g, "unlinkOldMemory", "createClient", "memory")
    BY <1>1, <1>2, <1>5 DEF Unlink, Handles
  <1>6. CASE cleanup(g)
    BY <1>1, <1>2, <1>6 DEF cleanup, Unlink, Handles
  <1>7. CASE Create(g, "createClient", "createServer", "createOnlyServer", "client")
    BY <1>1, <1>2, <1>7 DEF Create, Handles
  <1>8. CASE Create(g, "createServer", "openMemory", "broken", "server")
    BY <1>1, <1>2, <1>8 DEF Create, Handles
  <1>9. CASE OpenOrCreateMemory(g)
    BY <1>1, <1>2, <1>9 DEF OpenOrCreateMemory, Handles
  <1>10. CASE ZeroMemory(g) \/ ZeroRest(g) \/ run(g) \/ Crash(g)
    BY <1>1, <1>2, <1>10
       DEF ZeroMemory, ZeroRest, run, LoopHead, Poll, CopyCommand, CopyRest,
           WriteResponse, WriteRest, PostResponse, Crash, objects
  <1>11. ~Die(g) /\ ~Create(g, "createOnlyServer", "broken", "broken", "server")
    BY <1>2 DEF Die, Create
  <1> QED
    BY <1>3, <1>4, <1>5, <1>6, <1>7, <1>8, <1>9, <1>10, <1>11
       DEF serverStep, UnlinkOld, CreateSemaphores

\* Opening an object, or leaving, keeps the order.
LEMMA ClientOrder ==
    ASSUME TypeInv, NamesInOrder, NEW u \in Clients, HandlesInOrder(u),
           clientStep(u) \/ userStep(u)
    PROVE  HandlesInOrder(u)'
  <1> USE ChannelAssumption
      DEF TypeInv, TypeOK, ClientsOK, ClientAt, ClientLabels, Unbound
  <1>1. /\ names \in Handles /\ names.client \in 0..MaxServers
        /\ names.server \in 0..MaxServers /\ names.memory \in 0..MaxServers
        /\ handles[u] \in Handles /\ handles[u].client \in Nat
        /\ handles[u].server \in Nat /\ handles[u].memory \in Nat
        /\ generation \in Nat
    BY HandleFields DEF ObjectsOK, ServersOK
  <1>2. UNCHANGED <<names, generation>>
    BY ClientLeaves DEF serverVars
  <1>3. ASSUME NEW here, Leave(u, here) PROVE HandlesInOrder(u)'
    BY <1>1, <1>2, <1>3 DEF Leave, HandlesInOrder, NoHandles, Before
  <1>4. CASE OpenSemClient(u)
    <2>1. PICK opened : /\ opened = [handles[u] EXCEPT !.client = names.client]
                        /\ handles' = [handles EXCEPT ![u] = opened]
                        /\ client[u] = "openClient" /\ client'[u] = "openServer"
      BY <1>4 DEF OpenSemClient
    <2>2. /\ opened.client = names.client /\ opened.server = handles[u].server
          /\ opened.memory = handles[u].memory
      BY <1>1, <2>1, ClientHandleSet
    <2>3. handles'[u] = opened
      BY <2>1
    <2> QED
      BY <1>1, <1>2, <2>1, <2>2, <2>3
         DEF HandlesInOrder, NamesInOrder, NoHandles, Before
  <1>5. CASE OpenSemServer(u)
    <2>1. CASE handles[u].client # Unbound /\ names.server # Unbound
      <3>1. PICK opened : /\ opened = [handles[u] EXCEPT !.server = names.server]
                          /\ handles' = [handles EXCEPT ![u] = opened]
                          /\ client[u] = "openServer" /\ client'[u] = "openMemory"
        BY <1>5, <2>1 DEF OpenSemServer
      <3>2. /\ opened.client = handles[u].client /\ opened.server = names.server
            /\ opened.memory = handles[u].memory
        BY <1>1, <3>1 DEF Handles
      <3>3. handles'[u] = opened
        BY <3>1
      <3> QED
        BY <1>1, <1>2, <3>1, <3>2, <3>3 DEF HandlesInOrder, NamesInOrder, Before
    <2>2. CASE ~(handles[u].client # Unbound /\ names.server # Unbound)
      <3>1. /\ handles'[u] = NoHandles /\ client'[u] = "retry"
        BY <1>5, <2>2 DEF OpenSemServer
      <3> QED
        BY <1>1, <1>2, <3>1 DEF HandlesInOrder, NoHandles, Before
    <2> QED
      BY <2>1, <2>2
  <1>6. CASE OpenMemory(u)
    <2>1. CASE names.memory # Unbound
      <3>1. PICK opened : /\ opened = [handles[u] EXCEPT !.memory = names.memory]
                          /\ handles' = [handles EXCEPT ![u] = opened]
                          /\ client[u] = "openMemory" /\ client'[u] = "prompt"
        BY <1>6, <2>1 DEF OpenMemory
      <3>2. /\ opened.client = handles[u].client /\ opened.server = handles[u].server
            /\ opened.memory = names.memory
        BY <1>1, <3>1, MemoryHandleSet
      <3>3. handles'[u] = opened
        BY <3>1
      <3> QED
        BY <1>1, <1>2, <3>1, <3>2, <3>3 DEF HandlesInOrder, NamesInOrder, Before
    <2>2. CASE names.memory = Unbound
      BY <1>3, <1>6, <2>2 DEF OpenMemory
    <2> QED
      BY <2>1, <2>2
  <1>7. CASE GiveUpOpening(u) \/ TimeOut(u) \/ Exit(u) \/ Interrupt(u)
    BY <1>3, <1>7 DEF GiveUpOpening, TimeOut, Exit, Interrupt
  <1>8. CASE \/ PostCommand(u) \/ TakeResponse(u) \/ PrintResponse(u) \/ PrintRest(u)
             \/ EnterCommand(u) \/ EnterRest(u) \/ RunClient(u)
    <2>1. UNCHANGED handles
      BY <1>8 DEF PostCommand, TakeResponse, PrintResponse, PrintRest,
                  EnterCommand, EnterRest, RunClient
    <2>2. client'[u] \in {"wait", "print", "printRest", "prompt", "enterRest", "post"}
          \/ client[u] = "gone"
      BY <1>8 DEF PostCommand, TakeResponse, PrintResponse, PrintRest,
                  EnterCommand, EnterRest, RunClient
    <2>3. client[u] = "gone" => client'[u] = "openClient"
      BY <1>8 DEF PostCommand, TakeResponse, PrintResponse, PrintRest,
                  EnterCommand, EnterRest, RunClient
    <2> QED
      BY <1>2, <2>1, <2>2, <2>3 DEF HandlesInOrder
  <1> QED
    BY <1>4, <1>5, <1>6, <1>7, <1>8 DEF clientStep, userStep

LEMMA OrderedNext ==
    ASSUME NEW u, SoleUser(u), TypeInv, Unstarted, Ordered(u), [Next]_vars
    PROVE  Ordered(u)'
  <1>0. u \in Clients /\ Clients = {u} /\ ~Overlap
    BY DEF SoleUser
  <1> USE ChannelAssumption DEF TypeInv, TypeOK, Ordered
  <1>1. /\ names.client \in Nat /\ names.server \in Nat /\ names.memory \in Nat
        /\ handles[u].client \in Nat /\ handles[u].server \in Nat
        /\ handles[u].memory \in Nat /\ generation \in Nat
    BY <1>0, HandleFields DEF ObjectsOK, ServersOK, ClientsOK
  <1>2. ASSUME NEW g \in Generations, serverStep(g) \/ Die(g) \/ Crash(g)
        PROVE  Ordered(u)'
    <2>1. /\ Alone' /\ NamesInOrder'
          /\ names'.server \in {names.server, Unbound, generation}
          /\ names'.memory \in {names.memory, Unbound, generation}
      BY <1>2, ServerNames
    <2>2. UNCHANGED <<client, handles>>
      BY <1>2, ServerLeaves DEF clientVars
    <2>3. UNCHANGED generation
      BY <1>2
         DEF serverStep, UnlinkOld, Unlink, CreateSemaphores, Create,
             OpenOrCreateMemory, ZeroMemory, ZeroRest, run, LoopHead, Poll,
             CopyCommand, CopyRest, WriteResponse, WriteRest, PostResponse,
             cleanup, Die, Crash
    <2>4. HandlesInOrder(u)'
      BY <1>1, <2>1, <2>2, <2>3 DEF HandlesInOrder, Before, Unbound
    <2> QED
      BY <2>1, <2>4
  <1>3. ASSUME clientStep(u) \/ userStep(u) PROVE Ordered(u)'
    <2>1. UNCHANGED <<names, serverVars>>
      BY <1>0, <1>3, ClientLeaves
    <2>2. Alone' /\ NamesInOrder'
      BY <2>1 DEF Alone, NamesInOrder, Before, serverVars
    <2> QED
      BY <1>0, <1>3, <2>2, ClientOrder
  <1>4. CASE Start
    <2>1. /\ generation' = generation + 1
          /\ generation + 1 \in Generations
          /\ \A h \in Generations : server[h] = "off"
          /\ server' = [server EXCEPT ![generation + 1] = "unlinkOldClient"]
          /\ UNCHANGED <<names, client, handles, data>>
      BY <1>0, <1>4 DEF Start, Generations, ServersOK, objects, clientVars
    <2>2. Alone'
      BY <2>1 DEF Alone, ServersOK, RunLabels, Working
    <2>3. NamesInOrder'
      BY <1>1, <2>1 DEF NamesInOrder, Before
    <2>4. HandlesInOrder(u)'
      BY <1>1, <2>1 DEF HandlesInOrder, Before
    <2> QED
      BY <2>2, <2>3, <2>4
  <1>5. CASE Tick
    <2>1. /\ UNCHANGED <<names, generation, handles, data>>
          /\ client'[u] = IF client[u] = "retry" THEN "openClient" ELSE client[u]
          /\ \A g \in Generations :
                server'[g] = IF server[g] = "sleep" THEN "head" ELSE server[g]
      BY <1>0, <1>5 DEF Tick, objects
    <2>2. Alone'
      BY <2>1 DEF Alone, RunLabels, Working
    <2>3. NamesInOrder' /\ HandlesInOrder(u)'
      BY <2>1 DEF NamesInOrder, HandlesInOrder
    <2> QED
      BY <2>2, <2>3
  <1>6. CASE UNCHANGED vars
    BY <1>6
       DEF Alone, NamesInOrder, HandlesInOrder, Before, vars, objects, serverVars,
           clientVars
  <1> QED
    BY <1>0, <1>2, <1>3, <1>4, <1>5, <1>6 DEF Next

-----------------------------------------------------------------------------
(* The conversation                                                         *)

LEMMA Counts ==
    ASSUME TypeInv, NEW g \in Generations
    PROVE  /\ sem_client[g] \in Nat /\ sem_server[g] \in Nat /\ g \in Nat
           /\ InService(g) = IF server[g] \in Working
                             THEN 1 ELSE 0
  BY ChannelAssumption DEF TypeInv, TypeOK, ObjectsOK, InService, Working,
                           Generations

\* A client that waits for a server that is alive has opened nothing but its objects.
LEMMA OneServer ==
    ASSUME NEW u, SoleUser(u), TypeInv, Ordered(u),
           NEW g \in Generations, server[g] \in Serving, Pending(u, g)
    PROVE  /\ handles[u].client = g /\ handles[u].server = g
           /\ handles[u].memory = g
  <1>1. u \in Clients
    BY DEF SoleUser
  <1>2. g = generation /\ handles[u].client = g
    BY DEF Ordered, Alone, Serving, Pending
  <1>3. /\ handles[u].server \in Generations
        /\ handles[u].memory \in Generations
    BY <1>1, OpenedObjects DEF Pending
  <1>4. handles[u].server <= g /\ handles[u].memory <= g
    BY <1>2 DEF Ordered, HandlesInOrder
  <1>5. handles[u].client <= handles[u].server
    BY <1>2, <1>3, Generation DEF Ordered, HandlesInOrder, Before
  <1>6. handles[u].server <= handles[u].memory
    BY <1>3, Generation DEF Ordered, HandlesInOrder, Before
  <1> QED
    BY <1>2, <1>3, <1>4, <1>5, <1>6, Generation

\* A server works only on the command the client waits for.
LEMMA InWork ==
    ASSUME NEW u, SoleUser(u), TypeInv, Ordered(u), Conversation(u),
           NEW g \in Generations, server[g] \in Working
    PROVE  /\ g = generation /\ data[g] = g
           /\ sem_client[g] = 0 /\ sem_server[g] = 0
           /\ client[u] = "wait" /\ Pending(u, g)
           /\ handles[u].client = g /\ handles[u].server = g
           /\ handles[u].memory = g
           /\ waited[u] <= 1
  <1>1. server[g] \in Serving /\ server[g] \in RunLabels
    BY DEF Serving, ServerLabels, RunLabels, Working
  <1>2. g = generation /\ data[g] = g
    BY <1>1 DEF Ordered, Alone, RunLabels, Working
  <1>3. sem_client[g] + 1 + sem_server[g] = IF Pending(u, g) THEN 1 ELSE 0
    BY <1>1, Counts DEF Conversation, Owed
  <1>4. Pending(u, g) /\ sem_client[g] = 0 /\ sem_server[g] = 0
    BY <1>3, Counts
  <1>5. waited[u] <= 1
    BY <1>1, <1>4 DEF Conversation, Soon
  <1> QED
    BY <1>1, <1>2, <1>4, <1>5, OneServer DEF Pending

\* What stays as it is for the user, stays in the conversation.
LEMMA SameCommand ==
    ASSUME NEW u, UNCHANGED sent
    PROVE  Latest(u)' = Latest(u) /\ Own(u)' = Own(u) /\ Heard(u)' = Heard(u)
  BY DEF Latest, Own, Heard

\* What is read of a command that a server may have wiped.
LEMMA JoinedOwn ==
    ASSUME NEW u, SoleUser(u), TypeInv, NEW a \in Own(u), NEW b \in Own(u)
    PROVE  Joined(a, b) \in Heard(u)
  <1>1. sent[u] \in Nat
    BY DEF SoleUser, TypeInv, TypeOK, ClientsOK
  <1>2. Latest(u) # Cut /\ Latest(u) # Mixed
    BY <1>1 DEF Latest, Cut, Mixed
  <1> QED
    BY <1>2 DEF Joined, Own, Heard, Empty, Mixed

\* What can be heard and was sent is the last command.
LEMMA HeardSent ==
    ASSUME NEW u, SoleUser(u), NEW x \in Heard(u), x \in Sent
    PROVE  x = Latest(u)
  BY NobodyEntered DEF Heard

\* The memory of a client that has opened it.
LEMMA OpenedMemory ==
    ASSUME NEW u, SoleUser(u), TypeInv,
           client[u] \in {"prompt", "enterRest", "post", "wait", "print", "printRest"}
    PROVE  u \in Clients /\ handles[u].memory \in Generations
  BY OpenedObjects DEF SoleUser

\* Steps of a server outside the conversation: it makes and unlinks names, finds
\* its loop at an end, or is killed.
LEMMA QuietSteps ==
    ASSUME NEW u, SoleUser(u), TypeInv, Ordered(u), Conversation(u),
           NEW g \in Generations,
           \/ UnlinkOld(g) \/ CreateSemaphores(g) \/ OpenOrCreateMemory(g)
           \/ LoopHead(g) \/ cleanup(g) \/ Die(g) \/ Crash(g)
    PROVE  Conversation(u)'
  <1>1. /\ UNCHANGED <<sem_client, sem_server, command, response, generation,
                       clientVars, executed>>
        /\ request' = request \/ request' = [request EXCEPT ![g] = Empty]
    BY DEF UnlinkOld, Unlink, CreateSemaphores, Create, OpenOrCreateMemory,
           LoopHead, cleanup, Die, Crash, objects, histories
  <1>2. PICK there : /\ server' = [server EXCEPT ![g] = there]
                     /\ there \notin Working
                     /\ server[g] \notin Serving => there \notin Serving
                     /\ server[g] \notin Starting => there \notin Starting
                     /\ there \in Serving /\ there \notin {"head", "poll"} =>
                           server[g] \notin {"head", "poll"}
                     /\ there \in Serving =>
                           server[g] \notin Working
    BY DEF UnlinkOld, Unlink, CreateSemaphores, Create, OpenOrCreateMemory,
           LoopHead, cleanup, Die, Crash, ServerAt, Serving, Starting,
           ServerLabels, RunLabels, Working
  <1>3. server \in [Generations -> ServerLabels]
    BY DEF TypeInv, TypeOK, ServersOK
  <1>4. UNCHANGED <<client, handles, sent, waited, shown>>
    BY <1>1 DEF clientVars
  <1>5. Latest(u)' = Latest(u) /\ Own(u)' = Own(u) /\ Heard(u)' = Heard(u)
    BY <1>4, SameCommand
  <1>6. ASSUME NEW h \in Generations
        PROVE  /\ Pending(u, h)' <=> Pending(u, h)
               /\ server'[h] \in Serving =>
                    server[h] \in Serving /\ InService(h)' = InService(h)
               /\ server[h] \notin Starting => server'[h] \notin Starting
               /\ server'[h] \in Working =>
                    server'[h] = server[h] /\ request'[h] = request[h]
               /\ server'[h] \notin {"head", "poll"} /\ server'[h] \in Serving =>
                    server[h] \notin {"head", "poll"}
    <2>1. Pending(u, h)' <=> Pending(u, h)
      BY <1>4 DEF Pending
    <2>2. CASE h = g
      BY <1>2, <1>3, <2>1, <2>2 DEF InService, Working
    <2>3. CASE h # g
      <3>1. server'[h] = server[h] /\ request'[h] = request[h]
        BY <1>1, <1>2, <1>3, <2>3 DEF TypeInv, TypeOK, ServersOK
      <3> QED
        BY <2>1, <3>1 DEF InService, Working
    <2> QED
      BY <2>2, <2>3
  <1>7. Owed(u)'
    BY <1>1, <1>6, Counts DEF Conversation, Owed
  <1>8. Answered(u)'
    BY <1>1, <1>4, <1>5, <1>6 DEF Conversation, Answered
  <1>9. Soon(u)'
    BY <1>1, <1>4, <1>6 DEF Conversation, Soon
  <1>10. Contents(u)'
    <2>1. Commanded(u)'
      BY <1>1, <1>4, <1>5 DEF Conversation, Contents, Commanded
    <2>2. Printed(u)'
      BY <1>1, <1>4, <1>5, <1>6, OpenedMemory DEF Conversation, Contents, Printed
    <2>3. InHand(u)'
      BY <1>1, <1>5, <1>6 DEF Conversation, Contents, InHand, Working
    <2> QED
      BY <2>1, <2>2, <2>3 DEF Contents
  <1>11. Once(u)'
    BY <1>1, <1>4, <1>5, <1>6 DEF Conversation, Once, Working
  <1> QED
    BY <1>7, <1>8, <1>9, <1>10, <1>11 DEF Conversation


\* What a step of a server in its loop leaves alone.
LEMMA LoopLeaves ==
    ASSUME NEW g \in Generations,
           \/ ZeroMemory(g) \/ ZeroRest(g) \/ Poll(g) \/ CopyCommand(g) \/ CopyRest(g)
           \/ WriteResponse(g) \/ WriteRest(g) \/ PostResponse(g),
           NEW u
    PROVE  /\ UNCHANGED <<names, generation, data, client, handles, sent, waited,
                          shown>>
           /\ \A h : Pending(u, h)' <=> Pending(u, h)
           /\ Latest(u)' = Latest(u) /\ Own(u)' = Own(u) /\ Heard(u)' = Heard(u)
  <1>1. UNCHANGED <<names, generation, data, clientVars>>
    BY DEF ZeroMemory, ZeroRest, Poll, CopyCommand, CopyRest, WriteResponse,
           WriteRest, PostResponse, objects
  <1>2. UNCHANGED <<client, handles, sent, waited, shown>>
    BY <1>1 DEF clientVars
  <1> QED
    BY <1>1, <1>2, SameCommand DEF Pending

\* Wiping the memory takes away a part of a command, but not of a response that
\* somebody is to read.
LEMMA ZeroMemoryStep ==
    ASSUME NEW u, SoleUser(u), TypeInv, Ordered(u), Conversation(u),
           NEW g \in Generations, ZeroMemory(g) \/ ZeroRest(g)
    PROVE  Conversation(u)'
  <1>1. /\ data[g] = g /\ server[g] \in {"zeroMemory", "zeroRest"}
        /\ \/ server' = [server EXCEPT ![g] = "zeroRest"]
           \/ server' = [server EXCEPT ![g] = "head"]
        /\ \/ command' = [command EXCEPT ![g].head = Empty]
           \/ command' = [command EXCEPT ![g].tail = Empty]
        /\ \/ response' = [response EXCEPT ![g].head = Empty]
           \/ response' = [response EXCEPT ![g].tail = Empty]
        /\ UNCHANGED <<sem_client, sem_server, request, executed>>
    BY DEF ZeroMemory, ZeroRest, ServerAt, Ordered, Alone, histories
  <1>2. /\ UNCHANGED <<generation, client, handles, sent, waited, shown>>
        /\ \A h : Pending(u, h)' <=> Pending(u, h)
        /\ Latest(u)' = Latest(u) /\ Own(u)' = Own(u) /\ Heard(u)' = Heard(u)
    BY LoopLeaves
  <1>3. /\ server \in [Generations -> ServerLabels]
        /\ command \in [Generations -> Buffer]
        /\ response \in [Generations -> Buffer]
    BY DEF TypeInv, TypeOK, ServersOK, ObjectsOK
  <1>4. /\ server[g] \in Serving /\ server[g] \in Starting
        /\ server'[g] \notin Working
        /\ \A h \in Generations \ {g} : server'[h] = server[h]
    BY <1>1, <1>3 DEF Serving, Starting, ServerLabels, RunLabels, Working
  <1>5. ASSUME NEW h \in Generations
        PROVE  /\ command'[h].head \in {command[h].head, Empty}
               /\ command'[h].tail \in {command[h].tail, Empty}
               /\ response'[h].head \in {response[h].head, Empty}
               /\ response'[h].tail \in {response[h].tail, Empty}
    <2>1. /\ command'[h].head \in {command[h].head, Empty}
          /\ command'[h].tail \in {command[h].tail, Empty}
      <3>1. CASE command' = [command EXCEPT ![g].head = Empty]
        BY <1>3, <3>1, HeadChanged
      <3>2. CASE command' = [command EXCEPT ![g].tail = Empty]
        BY <1>3, <3>2, TailChanged
      <3> QED
        BY <1>1, <3>1, <3>2
    <2>2. /\ response'[h].head \in {response[h].head, Empty}
          /\ response'[h].tail \in {response[h].tail, Empty}
      <3>1. CASE response' = [response EXCEPT ![g].head = Empty]
        BY <1>3, <3>1, HeadChanged
      <3>2. CASE response' = [response EXCEPT ![g].tail = Empty]
        BY <1>3, <3>2, TailChanged
      <3> QED
        BY <1>1, <3>1, <3>2
    <2> QED
      BY <2>1, <2>2
  <1>6. \A h \in Generations \ {g} : response'[h] = response[h]
    BY <1>1, <1>3
  <1>7. Owed(u)'
    <2>1. \A h \in Generations : InService(h)' = InService(h)
      BY <1>1, <1>3 DEF InService, Working
    <2> QED
      BY <1>1, <1>2, <1>3, <1>4, <2>1, Counts DEF Conversation, Owed
  <1>8. Answered(u)'
    BY <1>1, <1>2, <1>4, <1>6 DEF Conversation, Answered
  <1>9. Soon(u)'
    BY <1>1, <1>2, <1>3, <1>4 DEF Conversation, Soon
  <1>10. Contents(u)'
    <2>1. Commanded(u)'
      BY <1>2, <1>5, OpenedMemory DEF Conversation, Contents, Commanded, Own
    <2>2. Printed(u)'
      BY <1>2, <1>4, <1>6, OpenedMemory DEF Conversation, Contents, Printed
    <2>3. InHand(u)'
      BY <1>1, <1>2, <1>4, <1>6 DEF Conversation, Contents, InHand, Working
    <2> QED
      BY <2>1, <2>2, <2>3 DEF Contents
  <1>11. Once(u)'
    <2>1. Empty \notin Sent
      BY NobodyEntered
    <2>2. \A h \in Generations : \A x \in {response'[h].head, response'[h].tail} :
              x \in Sent => executed[x] = 1
      BY <1>5, <2>1 DEF Conversation, Once
    <2> QED
      BY <1>1, <1>2, <1>3, <1>4, <2>2 DEF Conversation, Once, Working
  <1> QED
    BY <1>7, <1>8, <1>9, <1>10, <1>11 DEF Conversation

\* The command is taken off the semaphore, or there is none.
LEMMA PollStep ==
    ASSUME NEW u, SoleUser(u), TypeInv, Ordered(u), Conversation(u),
           NEW g \in Generations, Poll(g)
    PROVE  Conversation(u)'
  <1>1. /\ server[g] = "poll"
        /\ UNCHANGED <<sem_server, command, response, request, executed>>
        /\ \/ /\ sem_client[g] > 0
              /\ server' = [server EXCEPT ![g] = "process"]
              /\ sem_client' = [sem_client EXCEPT ![g] = @ - 1]
           \/ /\ sem_client[g] = 0
              /\ server' = [server EXCEPT ![g] = "sleep"]
              /\ UNCHANGED sem_client
    BY DEF Poll, ServerAt, histories
  <1>2. /\ UNCHANGED <<generation, client, handles, sent, waited, shown>>
        /\ \A h : Pending(u, h)' <=> Pending(u, h)
        /\ Latest(u)' = Latest(u) /\ Own(u)' = Own(u) /\ Heard(u)' = Heard(u)
    BY LoopLeaves
  <1>3. /\ server \in [Generations -> ServerLabels]
        /\ sem_client \in [Generations -> Nat]
    BY DEF TypeInv, TypeOK, ServersOK, ObjectsOK
  <1>4. /\ server[g] \in Serving
        /\ sem_client[g] + sem_server[g] = IF Pending(u, g) THEN 1 ELSE 0
        /\ InService(g) = 0
    <2>1. server[g] \in Serving
      BY <1>1 DEF Serving, ServerLabels, RunLabels, Working
    <2> QED
      BY <1>1, <2>1, Counts DEF Conversation, Owed, Working
  <1>5. sem_client'[g] = 0
    BY <1>1, <1>3, <1>4, Counts
  <1>6. \A h \in Generations \ {g} :
           /\ server'[h] = server[h] /\ sem_client'[h] = sem_client[h]
           /\ InService(h)' = InService(h)
    BY <1>1, <1>3 DEF InService, Working
  <1>7. /\ server'[g] \in {"process", "sleep"}
        /\ sem_client'[g] + InService(g)' = sem_client[g]
        /\ server'[g] = "process" => sem_client[g] > 0
    BY <1>1, <1>3, Counts DEF InService, Working
  <1>8. Owed(u)'
    <2>1. \A h \in Generations : h > generation => sem_client'[h] = 0
      BY <1>1, <1>3, Counts DEF Conversation, Owed
    <2> QED
      BY <1>1, <1>2, <1>4, <1>6, <1>7, <2>1, Counts DEF Conversation, Owed
  <1>9. Answered(u)'
    BY <1>1, <1>2, <1>6, <1>7 DEF Conversation, Answered, Starting, RunLabels,
                                  Working
  <1>10. Soon(u)'
    BY <1>2, <1>4, <1>5, <1>6 DEF Conversation, Soon
  <1>11. Contents(u)'
    <2>1. server'[g] \notin Starting
      BY <1>7 DEF Starting, RunLabels, Working
    <2>2. Commanded(u)'
      BY <1>1, <1>2 DEF Conversation, Contents, Commanded
    <2>3. Printed(u)'
      BY <1>1, <1>2, <1>6, <2>1, OpenedMemory DEF Conversation, Contents, Printed
    <2>4. InHand(u)'
      BY <1>1, <1>2, <1>6, <1>7 DEF Conversation, Contents, InHand
    <2> QED
      BY <2>2, <2>3, <2>4 DEF Contents
  <1>12. Once(u)'
    BY <1>1, <1>2, <1>4, <1>5, <1>6, <1>7 DEF Conversation, Once
  <1> QED
    BY <1>8, <1>9, <1>10, <1>11, <1>12 DEF Conversation


\* processCommand is given the command the client waits for, part by part.
LEMMA CopyCommandStep ==
    ASSUME NEW u, SoleUser(u), TypeInv, Ordered(u), Conversation(u),
           NEW g \in Generations, CopyCommand(g) \/ CopyRest(g)
    PROVE  Conversation(u)'
  <1>1. /\ \/ /\ server[g] = "process"
              /\ server' = [server EXCEPT ![g] = "copyRest"]
              /\ request' = [request EXCEPT ![g] = command[data[g]].head]
           \/ /\ server[g] = "copyRest"
              /\ server' = [server EXCEPT ![g] = "respond"]
              /\ request' = [request EXCEPT ![g] = Joined(@, command[data[g]].tail)]
        /\ UNCHANGED <<sem_client, sem_server, command, response, executed>>
    BY DEF CopyCommand, CopyRest, ServerAt, objects, histories
  <1>2. /\ UNCHANGED <<generation, client, handles, sent, waited, shown>>
        /\ \A h : Pending(u, h)' <=> Pending(u, h)
        /\ Latest(u)' = Latest(u) /\ Own(u)' = Own(u) /\ Heard(u)' = Heard(u)
    BY LoopLeaves
  <1>3. /\ server \in [Generations -> ServerLabels]
        /\ request \in [Generations -> Command]
    BY DEF TypeInv, TypeOK, ServersOK
  <1>4. /\ server[g] \in Working /\ data[g] = g /\ client[u] = "wait"
        /\ handles[u].memory = g
    BY <1>1, InWork DEF Working
  <1>5. command[g].head \in Own(u) /\ command[g].tail \in Own(u)
    BY <1>4 DEF Conversation, Contents, Commanded
  <1>6. /\ server'[g] \in {"copyRest", "respond"}
        /\ server'[g] = "copyRest" => server[g] = "process" /\ request'[g] \in Own(u)
        /\ server'[g] = "respond" => server[g] = "copyRest" /\ request'[g] \in Heard(u)
    <2>1. server[g] = "copyRest" => Joined(request[g], command[g].tail) \in Heard(u)
      BY <1>5, JoinedOwn DEF Conversation, Contents, InHand
    <2> QED
      BY <1>1, <1>3, <1>4, <1>5, <2>1
  <1>7. \A h \in Generations \ {g} :
           server'[h] = server[h] /\ request'[h] = request[h]
    BY <1>1, <1>3
  <1>8. server[g] \in Serving /\ server'[g] \notin Starting
    BY <1>4, <1>6 DEF Serving, Starting, ServerLabels, RunLabels, Working
  <1>9. \A h \in Generations : InService(h)' = InService(h)
    BY <1>4, <1>6, <1>7 DEF InService, Working
  <1>10. Owed(u)'
    BY <1>1, <1>2, <1>7, <1>8, <1>9 DEF Conversation, Owed
  <1>11. Answered(u)'
    BY <1>1, <1>2, <1>7, <1>8 DEF Conversation, Answered
  <1>12. Soon(u)'
    BY <1>1, <1>2, <1>6, <1>7, <1>8 DEF Conversation, Soon
  <1>13. Contents(u)'
    <2>1. Commanded(u)'
      BY <1>1, <1>2 DEF Conversation, Contents, Commanded
    <2>2. Printed(u)'
      BY <1>1, <1>2, <1>4 DEF Conversation, Contents, Printed
    <2>3. InHand(u)'
      BY <1>1, <1>2, <1>6, <1>7 DEF Conversation, Contents, InHand
    <2> QED
      BY <2>1, <2>2, <2>3 DEF Contents
  <1>14. Once(u)'
    BY <1>1, <1>2, <1>6, <1>7, <1>8 DEF Conversation, Once
  <1> QED
    BY <1>10, <1>11, <1>12, <1>13, <1>14 DEF Conversation

\* It is executed for the first time, and the response begins to answer it.
LEMMA WriteResponseStep ==
    ASSUME NEW u, SoleUser(u), TypeInv, Ordered(u), Conversation(u),
           NEW g \in Generations, WriteResponse(g)
    PROVE  Conversation(u)'
  <1>1. /\ server[g] = "respond"
        /\ server' = [server EXCEPT ![g] = "writeRest"]
        /\ executed' = [x \in Sent |->
                          executed[x] + IF x = request[g] THEN 1 ELSE 0]
        /\ response' = [response EXCEPT ![data[g]].head = request[g]]
        /\ UNCHANGED <<sem_client, sem_server, command, request>>
    BY DEF WriteResponse, Execute, ServerAt
  <1>2. /\ UNCHANGED <<generation, client, handles, sent, waited, shown>>
        /\ \A h : Pending(u, h)' <=> Pending(u, h)
        /\ Latest(u)' = Latest(u) /\ Own(u)' = Own(u) /\ Heard(u)' = Heard(u)
    BY LoopLeaves
  <1>3. /\ server \in [Generations -> ServerLabels]
        /\ request \in [Generations -> Command]
        /\ response \in [Generations -> Buffer]
        /\ executed \in [Sent -> Nat]
    BY DEF TypeInv, TypeOK, ServersOK, ObjectsOK, HistoriesOK
  <1>4. /\ g = generation /\ data[g] = g /\ sem_client[g] = 0 /\ sem_server[g] = 0
        /\ client[u] = "wait" /\ Pending(u, g) /\ handles[u].client = g
    BY <1>1, InWork DEF Working
  <1>5. /\ server[g] \in Serving
        /\ \A h \in Generations \ {g} : server[h] = "off" /\ server'[h] = "off"
    BY <1>1, <1>3, <1>4 DEF Serving, ServerLabels, RunLabels, Working, Ordered,
                            Alone
  <1>6. /\ server'[g] = "writeRest" /\ response'[g].head = request[g]
        /\ response'[g].tail = response[g].tail
        /\ \A h \in Generations \ {g} : response'[h] = response[h]
    BY <1>1, <1>3, <1>4, HeadChanged
  <1>7. request[g] \in Heard(u)
    BY <1>1 DEF Conversation, Contents, InHand
  <1>8. \A h \in Generations : InService(h)' = InService(h)
    BY <1>1, <1>5, <1>6 DEF InService, Working
  <1>9. Owed(u)'
    BY <1>1, <1>2, <1>5, <1>6, <1>8 DEF Conversation, Owed, Serving
  <1>10. Answered(u)'
    BY <1>1, <1>2, <1>4, <1>5, <1>6
       DEF Conversation, Answered, Starting, Serving, RunLabels, Working
  <1>11. Soon(u)'
    BY <1>1, <1>2, <1>5, <1>6 DEF Conversation, Soon, Serving
  <1>12. Contents(u)'
    <2>1. Commanded(u)'
      BY <1>1, <1>2 DEF Conversation, Contents, Commanded
    <2>2. Printed(u)'
      BY <1>2, <1>4 DEF Conversation, Contents, Printed
    <2>3. InHand(u)'
      BY <1>1, <1>2, <1>5, <1>6, <1>7 DEF InHand
    <2> QED
      BY <2>1, <2>2, <2>3 DEF Contents
  <1>13. Once(u)'
    <2>1. request[g] \in Sent => request[g] = Latest(u)
      BY <1>7, HeardSent
    <2>2. executed[Latest(u)] = 0
      BY <1>1, <1>4, <1>5 DEF Conversation, Once
    <2>3. ASSUME NEW x \in Sent
          PROVE  executed'[x] = IF x = request[g] THEN 1 ELSE executed[x]
      <3>1. executed'[x] = executed[x] + IF x = request[g] THEN 1 ELSE 0
        BY <1>1
      <3>2. x = request[g] => executed[x] = 0
        BY <2>1, <2>2
      <3> QED
        BY <1>3, <3>1, <3>2
    <2>4. \A x \in Sent : x = request[g] => x.number <= sent[u]
      <3>1. sent[u] \in Nat
        BY DEF SoleUser, TypeInv, TypeOK, ClientsOK
      <3> QED
        BY <2>1, <3>1 DEF Latest
    <2>5. /\ \A x \in Sent : executed'[x] \in {0, 1}
          /\ \A x \in Sent : executed'[x] = 1 => x.number <= sent[u]
      BY <2>3, <2>4 DEF Conversation, Once
    <2>6. \A h \in Generations : server'[h] \in Serving /\ Pending(u, h) =>
              /\ ~(sem_client[h] > 0)
              /\ server'[h] \notin {"process", "copyRest", "respond"}
      BY <1>4, <1>5, <1>6 DEF Serving
    <2>7. ASSUME NEW h \in Generations, NEW x \in {response'[h].head, response'[h].tail},
                 x \in Sent
          PROVE  executed'[x] = 1
      <3>1. x = request[g] \/ x \in {response[h].head, response[h].tail}
        BY <1>6, <2>7
      <3>2. x # request[g] => executed[x] = 1
        BY <2>7, <3>1 DEF Conversation, Once
      <3> QED
        BY <2>3, <2>7, <3>2
    <2> QED
      BY <1>1, <1>2, <1>4, <2>5, <2>6, <2>7 DEF Once
  <1> QED
    BY <1>9, <1>10, <1>11, <1>12, <1>13 DEF Conversation

\* The response is whole.
LEMMA WriteRestStep ==
    ASSUME NEW u, SoleUser(u), TypeInv, Ordered(u), Conversation(u),
           NEW g \in Generations, WriteRest(g)
    PROVE  Conversation(u)'
  <1>1. /\ server[g] = "writeRest"
        /\ server' = [server EXCEPT ![g] = "post"]
        /\ response' = [response EXCEPT ![data[g]].tail = request[g]]
        /\ UNCHANGED <<sem_client, sem_server, command, request, executed>>
    BY DEF WriteRest, ServerAt, histories
  <1>2. /\ UNCHANGED <<generation, client, handles, sent, waited, shown>>
        /\ \A h : Pending(u, h)' <=> Pending(u, h)
        /\ Latest(u)' = Latest(u) /\ Own(u)' = Own(u) /\ Heard(u)' = Heard(u)
    BY LoopLeaves
  <1>3. /\ server \in [Generations -> ServerLabels]
        /\ response \in [Generations -> Buffer]
    BY DEF TypeInv, TypeOK, ServersOK, ObjectsOK
  <1>4. /\ g = generation /\ data[g] = g /\ sem_client[g] = 0 /\ sem_server[g] = 0
        /\ client[u] = "wait" /\ Pending(u, g) /\ handles[u].client = g
    BY <1>1, InWork DEF Working
  <1>5. /\ server[g] \in Serving
        /\ \A h \in Generations \ {g} : server[h] = "off" /\ server'[h] = "off"
    BY <1>1, <1>3, <1>4 DEF Serving, ServerLabels, RunLabels, Working, Ordered,
                            Alone
  <1>6. /\ server'[g] = "post" /\ response'[g].tail = request[g]
        /\ response'[g].head = response[g].head
        /\ \A h \in Generations \ {g} : response'[h] = response[h]
    BY <1>1, <1>3, <1>4, TailChanged
  <1>7. request[g] \in Heard(u) /\ response[g].head = request[g]
    BY <1>1 DEF Conversation, Contents, InHand
  <1>8. \A h \in Generations : InService(h)' = InService(h)
    BY <1>1, <1>5, <1>6 DEF InService, Working
  <1>9. Owed(u)'
    BY <1>1, <1>2, <1>5, <1>6, <1>8 DEF Conversation, Owed, Serving
  <1>10. Answered(u)'
    BY <1>1, <1>2, <1>4, <1>5, <1>6
       DEF Conversation, Answered, Starting, Serving, RunLabels, Working
  <1>11. Soon(u)'
    BY <1>1, <1>2, <1>5, <1>6 DEF Conversation, Soon, Serving
  <1>12. Contents(u)'
    <2>1. Commanded(u)'
      BY <1>1, <1>2 DEF Conversation, Contents, Commanded
    <2>2. Printed(u)'
      BY <1>2, <1>4 DEF Conversation, Contents, Printed
    <2>3. InHand(u)'
      BY <1>1, <1>2, <1>5, <1>6, <1>7 DEF InHand
    <2> QED
      BY <2>1, <2>2, <2>3 DEF Contents
  <1>13. Once(u)'
    <2>1. ASSUME NEW h \in Generations
          PROVE  {response'[h].head, response'[h].tail} \subseteq
                     {response[h].head, response[h].tail}
      BY <1>6, <1>7
    <2>2. \A h \in Generations : \A x \in {response'[h].head, response'[h].tail} :
              x \in Sent => executed[x] = 1
      BY <2>1 DEF Conversation, Once
    <2> QED
      BY <1>1, <1>2, <1>5, <1>6, <2>2 DEF Conversation, Once, Serving
  <1> QED
    BY <1>9, <1>10, <1>11, <1>12, <1>13 DEF Conversation

\* The response that the client is waiting for is announced.
LEMMA PostResponseStep ==
    ASSUME NEW u, SoleUser(u), TypeInv, Ordered(u), Conversation(u),
           NEW g \in Generations, PostResponse(g)
    PROVE  Conversation(u)'
  <1>1. /\ server[g] = "post"
        /\ server' = [server EXCEPT ![g] = "sleep"]
        /\ sem_server' = [sem_server EXCEPT ![g] = @ + 1]
        /\ UNCHANGED <<sem_client, command, response, executed>>
    BY DEF PostResponse, ServerAt, histories
  <1>2. /\ UNCHANGED <<generation, client, handles, sent, waited, shown>>
        /\ \A h : Pending(u, h)' <=> Pending(u, h)
        /\ Latest(u)' = Latest(u) /\ Own(u)' = Own(u) /\ Heard(u)' = Heard(u)
    BY LoopLeaves
  <1>3. /\ server \in [Generations -> ServerLabels]
        /\ sem_server \in [Generations -> Nat]
    BY DEF TypeInv, TypeOK, ServersOK, ObjectsOK
  <1>4. /\ g = generation /\ sem_client[g] = 0 /\ sem_server[g] = 0
        /\ client[u] = "wait" /\ Pending(u, g)
        /\ handles[u].client = g /\ handles[u].server = g /\ handles[u].memory = g
        /\ waited[u] <= 1
    BY <1>1, InWork DEF Working
  <1>5. \A h \in Generations \ {g} : server[h] = "off" /\ server'[h] = "off"
    BY <1>1, <1>3, <1>4 DEF Ordered, Alone
  <1>6. /\ server'[g] = "sleep" /\ sem_server'[g] = 1
        /\ \A h \in Generations \ {g} : sem_server'[h] = sem_server[h]
    BY <1>1, <1>3, <1>4
  <1>7. InService(g)' = 0
    BY <1>6 DEF InService, Working
  <1>8. Owed(u)'
    <2>1. ASSUME NEW h \in Generations, h > generation
          PROVE  sem_client[h] = 0 /\ sem_server'[h] = 0
      <3>1. h # g
        BY <1>4, <2>1, Counts
      <3> QED
        BY <1>6, <2>1, <3>1 DEF Conversation, Owed
    <2>2. sem_client[g] + 0 + sem_server'[g] = 1
      BY <1>4, <1>6
    <2>3. \A h \in Generations : server'[h] \in Serving => h = g
      BY <1>5 DEF Serving
    <2> QED
      BY <1>1, <1>2, <1>4, <1>7, <2>1, <2>2, <2>3 DEF Owed
  <1>9. Answered(u)'
    <2>1. /\ response[g].head = response[g].tail /\ response[g].tail \in Heard(u)
          /\ server'[g] \notin Starting
      BY <1>1, <1>6 DEF Conversation, Contents, InHand, Starting, RunLabels
    <2>2. waited[u] < ClientTimeout
      <3>1. waited[u] \in Nat /\ ClientTimeout \in Nat /\ ClientTimeout > 1
        BY ChannelAssumption DEF SoleUser, TypeInv, TypeOK, ClientsOK
      <3> QED
        BY <1>4, <3>1
    <2> QED
      BY <1>1, <1>2, <1>4, <1>5, <1>6, <2>1, <2>2
         DEF Conversation, Answered, Starting, Serving
  <1>10. Soon(u)'
    BY <1>1, <1>2, <1>4, <1>5, <1>6 DEF Soon, Serving
  <1>11. Contents(u)'
    <2>1. Commanded(u)'
      BY <1>1, <1>2 DEF Conversation, Contents, Commanded
    <2>2. Printed(u)'
      BY <1>2, <1>4 DEF Conversation, Contents, Printed
    <2>3. InHand(u)'
      BY <1>5, <1>6 DEF InHand
    <2> QED
      BY <2>1, <2>2, <2>3 DEF Contents
  <1>12. Once(u)'
    BY <1>1, <1>2, <1>4, <1>5, <1>6 DEF Conversation, Once, Serving
  <1> QED
    BY <1>8, <1>9, <1>10, <1>11, <1>12 DEF Conversation

LEMMA ServerConversation ==
    ASSUME NEW u, SoleUser(u), TypeInv, Ordered(u), Conversation(u),
           NEW g \in Generations, serverStep(g) \/ Die(g) \/ Crash(g)
    PROVE  Conversation(u)'
  BY QuietSteps, ZeroMemoryStep, PollStep, CopyCommandStep, WriteResponseStep,
     WriteRestStep, PostResponseStep DEF serverStep, run


\* A client that does not wait, or has waited its time out, is owed nothing.
LEMMA OwedNothing ==
    ASSUME NEW u, SoleUser(u), TypeInv, Conversation(u),
           client[u] # "wait" \/ waited[u] >= ClientTimeout,
           NEW g \in Generations
    PROVE  /\ sem_server[g] = 0
           /\ server[g] \in Serving => ~Pending(u, g)
           /\ server[g] \in Serving => sem_client[g] = 0 /\ InService(g) = 0
  <1>1. /\ waited[u] \in Nat /\ ClientTimeout \in Nat /\ ClientTimeout > 1
    BY ChannelAssumption DEF SoleUser, TypeInv, TypeOK, ClientsOK
  <1>2. sem_server[g] = 0
    BY <1>1, Counts DEF Conversation, Answered
  <1>3. server[g] \in Serving => ~Pending(u, g)
    BY <1>1 DEF Conversation, Soon, Pending
  <1> QED
    BY <1>2, <1>3, Counts DEF Conversation, Owed

\* Steps of the client before and after a conversation.
LEMMA AwaySteps ==
    ASSUME NEW u, SoleUser(u), TypeInv, Conversation(u),
           \/ OpenSemClient(u) \/ OpenSemServer(u) \/ GiveUpOpening(u)
           \/ OpenMemory(u) \/ TimeOut(u) \/ RunClient(u) \/ Exit(u) \/ Interrupt(u)
    PROVE  Conversation(u)'
  <1> DEFINE Away == /\ UNCHANGED <<objects, serverVars, sent, executed>>
                     /\ shown'[u] \in {shown[u], Empty}
                     /\ client[u] # "wait" \/ waited[u] >= ClientTimeout
                     /\ client'[u] \notin {"enterRest", "post", "wait", "print", "printRest"}
  <1>1. Away
    <2> USE DEF SoleUser, TypeInv, TypeOK, ClientsOK, ClientAt, histories
    <2>1. ASSUME NEW here, Leave(u, here), here = "wait" => waited[u] >= ClientTimeout
          PROVE  Away
      BY <2>1 DEF Leave
    <2>2. CASE OpenSemClient(u) \/ OpenSemServer(u) \/ RunClient(u)
      BY <2>2 DEF OpenSemClient, OpenSemServer, RunClient
    <2>3. CASE OpenMemory(u)
      BY <2>1, <2>3 DEF OpenMemory
    <2>4. CASE GiveUpOpening(u) \/ TimeOut(u) \/ Exit(u) \/ Interrupt(u)
      BY <2>1, <2>4 DEF GiveUpOpening, TimeOut, Exit, Interrupt
    <2> QED
      BY <2>2, <2>3, <2>4
  <1>2. ASSUME NEW g \in Generations
        PROVE  /\ sem_server[g] = 0
               /\ server[g] \in Serving => sem_client[g] = 0 /\ InService(g) = 0
    BY <1>1, OwedNothing
  <1>3. /\ UNCHANGED <<sem_client, sem_server, command, response, server,
                       generation, request>>
        /\ \A g \in Generations : InService(g)' = InService(g) /\ ~Pending(u, g)'
        /\ Latest(u)' = Latest(u) /\ Own(u)' = Own(u) /\ Heard(u)' = Heard(u)
    BY <1>1, SameCommand DEF objects, serverVars, InService, Working, Pending
  <1>4. Owed(u)'
    BY <1>2, <1>3 DEF Conversation, Owed
  <1>5. Answered(u)' /\ Soon(u)'
    BY <1>2, <1>3 DEF Answered, Soon
  <1>6. Contents(u)'
    <2>1. Commanded(u)'
      BY <1>1 DEF Commanded
    <2>2. Printed(u)'
      BY <1>1, <1>3 DEF Conversation, Contents, Printed, Heard
    <2>3. InHand(u)'
      BY <1>3 DEF Conversation, Contents, InHand
    <2> QED
      BY <2>1, <2>2, <2>3 DEF Contents
  <1>7. Once(u)'
    BY <1>1, <1>3 DEF Conversation, Once
  <1> QED
    BY <1>4, <1>5, <1>6, <1>7 DEF Conversation

\* A command that was never executed is written, and no server is at work.
LEMMA EnterCommandStep ==
    ASSUME NEW u, SoleUser(u), TypeInv, Ordered(u), Conversation(u), EnterCommand(u)
    PROVE  Conversation(u)'
  <1>1. u \in Clients
    BY DEF SoleUser
  <1>2. /\ client[u] = "prompt" /\ client' = [client EXCEPT ![u] = "enterRest"]
        /\ command' = [command EXCEPT ![handles[u].memory].head =
                                        [client |-> u, number |-> sent[u] + 1]]
        /\ sent' = [sent EXCEPT ![u] = sent[u] + 1] /\ sent[u] + 1 <= MaxCommands
        /\ shown' = [shown EXCEPT ![u] = Empty]
        /\ UNCHANGED <<sem_client, sem_server, response, generation, server,
                       request, executed>>
        /\ UNCHANGED handles
    BY DEF EnterCommand, ClientAt, serverVars, histories
  <1>3. /\ client \in [Clients -> ClientLabels]
        /\ command \in [Generations -> Buffer]
        /\ sent \in [Clients -> 0..MaxCommands]
        /\ shown \in [Clients -> Command]
        /\ executed \in [Sent -> Nat]
    BY DEF TypeInv, TypeOK, ClientsOK, ObjectsOK, HistoriesOK
  <1>4. handles[u].memory \in Generations
    BY <1>1, <1>2, OpenedObjects
  <1>5. /\ client'[u] = "enterRest" /\ shown'[u] = Empty /\ sent'[u] = sent[u] + 1
        /\ Latest(u)' = [client |-> u, number |-> sent[u] + 1]
        /\ command'[handles'[u].memory].head = Latest(u)'
    <2>1. command'[handles[u].memory].head = [client |-> u, number |-> sent[u] + 1]
      BY <1>2, <1>3, <1>4, HeadChanged
    <2> QED
      BY <1>1, <1>2, <1>3, <2>1 DEF Latest
  <1>6. ASSUME NEW g \in Generations
        PROVE  /\ sem_server[g] = 0
               /\ server[g] \in Serving => sem_client[g] = 0 /\ InService(g) = 0
               /\ InService(g)' = InService(g)
               /\ server[g] \notin Working
               /\ ~Pending(u, g)'
    <2>1. server[g] \notin Working
      BY <1>2, InWork
    <2> QED
      BY <1>2, <1>5, <2>1, OwedNothing DEF InService, Working, Pending
  <1>7. Owed(u)'
    BY <1>2, <1>6 DEF Conversation, Owed
  <1>8. Answered(u)' /\ Soon(u)'
    BY <1>2, <1>6 DEF Answered, Soon
  <1>9. Contents(u)'
    <2>1. Commanded(u)'
      BY <1>5 DEF Commanded, Own
    <2>2. Printed(u)'
      BY <1>5 DEF Printed, Heard
    <2>3. InHand(u)'
      BY <1>2, <1>6 DEF InHand, Working
    <2> QED
      BY <2>1, <2>2, <2>3 DEF Contents
  <1>10. Once(u)'
    <2>1. sent[u] \in Nat /\ sent[u] + 1 \in 1..MaxCommands
      BY <1>1, <1>2, <1>3, ChannelAssumption
    <2>2. Latest(u)' \in Sent /\ Latest(u)'.number = sent[u] + 1
      BY <1>1, <1>5, <2>1 DEF Sent
    <2>3. executed[Latest(u)'] = 0
      <3>1. executed[Latest(u)'] \in {0, 1}
        BY <2>2 DEF Conversation, Once
      <3>2. executed[Latest(u)'] = 1 => sent[u] + 1 <= sent[u]
        BY <2>2 DEF Conversation, Once
      <3> QED
        BY <2>1, <3>1, <3>2
    <2>4. \A x \in Sent : executed[x] = 1 => x.number <= sent'[u]
      <3>1. \A x \in Sent : x.number \in Nat
        BY DEF Sent
      <3> QED
        BY <1>5, <2>1, <3>1 DEF Conversation, Once
    <2> QED
      BY <1>2, <1>6, <2>3, <2>4 DEF Conversation, Once
  <1> QED
    BY <1>7, <1>8, <1>9, <1>10 DEF Conversation

LEMMA EnterRestStep ==
    ASSUME NEW u, SoleUser(u), TypeInv, Ordered(u), Conversation(u), EnterRest(u)
    PROVE  Conversation(u)'
  <1>1. /\ u \in Clients /\ handles[u].memory \in Generations
        /\ client[u] = "enterRest"
    BY OpenedMemory DEF EnterRest, ClientAt
  <1>2. /\ client' = [client EXCEPT ![u] = "post"]
        /\ command' = [command EXCEPT ![handles[u].memory].tail = Latest(u)]
        /\ UNCHANGED <<sem_client, sem_server, response, generation, server, request,
                       handles, sent, waited, shown, executed>>
    BY DEF EnterRest, ClientAt, Latest, serverVars, histories
  <1>3. /\ client \in [Clients -> ClientLabels]
        /\ command \in [Generations -> Buffer]
    BY DEF TypeInv, TypeOK, ClientsOK, ObjectsOK
  <1>4. /\ client'[u] = "post"
        /\ command'[handles[u].memory].tail = Latest(u)
        /\ command'[handles[u].memory].head = command[handles[u].memory].head
        /\ \A g \in Generations : InService(g)' = InService(g) /\ ~Pending(u, g)'
        /\ Latest(u)' = Latest(u) /\ Own(u)' = Own(u) /\ Heard(u)' = Heard(u)
    BY <1>1, <1>2, <1>3, TailChanged, SameCommand DEF InService, Pending
  <1>5. \A g \in Generations : sem_server[g] = 0 /\ ~Pending(u, g)
    BY <1>1, OwedNothing DEF Pending
  <1>6. Owed(u)'
    BY <1>2, <1>4, <1>5 DEF Conversation, Owed
  <1>7. Answered(u)' /\ Soon(u)'
    BY <1>2, <1>4, <1>5 DEF Answered, Soon
  <1>8. Contents(u)'
    <2>1. Commanded(u)'
      BY <1>1, <1>2, <1>4 DEF Conversation, Contents, Commanded, Own
    <2>2. Printed(u)'
      BY <1>2, <1>4 DEF Conversation, Contents, Printed
    <2>3. InHand(u)'
      BY <1>2, <1>4 DEF Conversation, Contents, InHand
    <2> QED
      BY <2>1, <2>2, <2>3 DEF Contents
  <1>9. Once(u)'
    BY <1>1, <1>2, <1>4 DEF Conversation, Once
  <1> QED
    BY <1>6, <1>7, <1>8, <1>9 DEF Conversation


\* The command is counted, and the time it takes.
LEMMA PostCommandStep ==
    ASSUME NEW u, SoleUser(u), TypeInv, Ordered(u), Conversation(u), PostCommand(u)
    PROVE  Conversation(u)'
  <1>1. u \in Clients
    BY DEF SoleUser
  <1>2. /\ client[u] = "post" /\ client' = [client EXCEPT ![u] = "wait"]
        /\ sem_client' = [sem_client EXCEPT ![handles[u].client] = @ + 1]
        /\ waited' = [waited EXCEPT ![u] = 0]
        /\ UNCHANGED <<sem_server, command, response, generation, server, request,
                       handles, sent, shown, executed>>
    BY DEF PostCommand, ClientAt, serverVars, histories
  <1>3. /\ client \in [Clients -> ClientLabels]
        /\ sem_client \in [Generations -> Nat]
        /\ waited \in [Clients -> 0..ClientTimeout]
        /\ handles[u].client \in Generations
        /\ handles[u].client <= generation
    BY <1>1, <1>2, OpenedObjects
       DEF TypeInv, TypeOK, ClientsOK, ObjectsOK, Ordered, HandlesInOrder
  <1>4. /\ client'[u] = "wait" /\ waited'[u] = 0
        /\ Latest(u)' = Latest(u) /\ Own(u)' = Own(u) /\ Heard(u)' = Heard(u)
    BY <1>1, <1>2, <1>3, SameCommand
  <1>5. ASSUME NEW g \in Generations
        PROVE  /\ sem_server[g] = 0
               /\ server[g] \in Serving => sem_client[g] = 0 /\ InService(g) = 0
               /\ InService(g)' = InService(g)
               /\ Pending(u, g)' <=> handles[u].client = g
               /\ sem_client'[g] =
                     IF Pending(u, g)' THEN sem_client[g] + 1 ELSE sem_client[g]
    <2>1. Pending(u, g)' <=> handles[u].client = g
      BY <1>2, <1>4 DEF Pending
    <2> QED
      BY <1>2, <1>3, <2>1, OwedNothing DEF InService, Working
  <1>6. Owed(u)'
    <2>1. \A g \in Generations : g > generation => sem_client'[g] = 0
      <3>1. generation \in Nat
        BY ChannelAssumption DEF TypeInv, TypeOK, ServersOK
      <3> QED
        BY <1>3, <1>5, <3>1, Generation DEF Conversation, Owed
    <2> QED
      BY <1>2, <1>5, <2>1 DEF Owed
  <1>7. Answered(u)'
    BY <1>2, <1>5 DEF Answered
  <1>8. Soon(u)'
    BY <1>4 DEF Soon
  <1>9. Contents(u)'
    <2>1. Commanded(u)'
      BY <1>2, <1>4 DEF Conversation, Contents, Commanded
    <2>2. Printed(u)'
      BY <1>2, <1>4 DEF Conversation, Contents, Printed
    <2>3. InHand(u)'
      BY <1>2, <1>4 DEF Conversation, Contents, InHand
    <2> QED
      BY <2>1, <2>2, <2>3 DEF Contents
  <1>10. Once(u)'
    BY <1>2, <1>4 DEF Conversation, Once
  <1> QED
    BY <1>6, <1>7, <1>8, <1>9, <1>10 DEF Conversation

\* The response is taken, and it is in the memory that the client reads.
LEMMA TakeResponseStep ==
    ASSUME NEW u, SoleUser(u), TypeInv, Ordered(u), Conversation(u), TakeResponse(u)
    PROVE  Conversation(u)'
  <1>1. u \in Clients
    BY DEF SoleUser
  <1>2. PICK g \in Generations :
            /\ g = handles[u].server
            /\ sem_server[g] > 0
            /\ sem_server' = [sem_server EXCEPT ![g] = @ - 1]
    BY <1>1, OpenedObjects DEF TakeResponse, ClientAt
  <1>3. /\ client[u] = "wait" /\ client' = [client EXCEPT ![u] = "print"]
        /\ UNCHANGED <<sem_client, command, response, generation, server, request,
                       handles, sent, shown, executed>>
    BY DEF TakeResponse, ClientAt, serverVars
  <1>4. /\ client \in [Clients -> ClientLabels]
        /\ sem_server \in [Generations -> Nat]
    BY DEF TypeInv, TypeOK, ClientsOK, ObjectsOK
  <1>5. /\ sem_server[g] = 1 /\ handles[u].client = g /\ handles[u].memory = g
        /\ server[g] \notin Starting
        /\ response[g].head = response[g].tail /\ response[g].tail \in Heard(u)
    BY <1>2 DEF Conversation, Answered
  <1>6. ASSUME NEW h \in Generations
        PROVE  /\ sem_server'[h] = 0
               /\ server[h] \in Serving => sem_client[h] = 0 /\ InService(h) = 0
               /\ InService(h)' = InService(h)
    <2>1. h # g => sem_server[h] = 0
      BY <1>5, <1>4 DEF Conversation, Answered
    <2>2. sem_server'[h] = 0
      BY <1>2, <1>4, <1>5, <2>1
    <2>3. server[h] \in Serving => sem_client[h] = 0 /\ InService(h) = 0
      BY <1>5, Counts DEF Conversation, Owed, Pending
    <2> QED
      BY <1>3, <2>2, <2>3 DEF InService, Working
  <1>7. /\ client'[u] = "print" /\ \A h \in Generations : ~Pending(u, h)'
        /\ Latest(u)' = Latest(u) /\ Own(u)' = Own(u) /\ Heard(u)' = Heard(u)
    BY <1>1, <1>3, <1>4, SameCommand DEF Pending
  <1>8. Owed(u)'
    BY <1>3, <1>6, <1>7 DEF Conversation, Owed
  <1>9. Answered(u)' /\ Soon(u)'
    BY <1>6, <1>7 DEF Answered, Soon
  <1>10. Contents(u)'
    <2>1. Commanded(u)'
      BY <1>7 DEF Commanded
    <2>2. Printed(u)'
      BY <1>3, <1>5, <1>7 DEF Conversation, Contents, Printed
    <2>3. InHand(u)'
      BY <1>3, <1>7 DEF Conversation, Contents, InHand
    <2> QED
      BY <2>1, <2>2, <2>3 DEF Contents
  <1>11. Once(u)'
    BY <1>3, <1>7 DEF Conversation, Once
  <1> QED
    BY <1>8, <1>9, <1>10, <1>11 DEF Conversation

\* What he reads is all of one response.
LEMMA PrintResponseStep ==
    ASSUME NEW u, SoleUser(u), TypeInv, Conversation(u),
           PrintResponse(u) \/ PrintRest(u)
    PROVE  Conversation(u)'
  <1> DEFINE m == handles[u].memory
  <1>1. u \in Clients
    BY DEF SoleUser
  <1>2. /\ \/ /\ client[u] = "print" /\ client' = [client EXCEPT ![u] = "printRest"]
              /\ shown' = [shown EXCEPT ![u] = response[m].head]
           \/ /\ client[u] = "printRest" /\ client' = [client EXCEPT ![u] = "prompt"]
              /\ shown' = [shown EXCEPT ![u] = Joined(@, response[m].tail)]
        /\ UNCHANGED <<sem_client, sem_server, command, response, generation,
                       server, request, handles, sent, executed>>
    BY DEF PrintResponse, PrintRest, ClientAt, objects, serverVars, histories
  <1>3. /\ client \in [Clients -> ClientLabels] /\ shown \in [Clients -> Command]
        /\ m \in Generations /\ response[m].tail \in Command
    BY <1>2, OpenedMemory, Commands DEF TypeInv, TypeOK, ClientsOK, ObjectsOK
  <1>4. /\ server[m] \notin Starting
        /\ response[m].head = response[m].tail /\ response[m].tail \in Heard(u)
        /\ client[u] = "printRest" => shown[u] = response[m].tail
    BY <1>2 DEF Conversation, Contents, Printed
  <1>5. /\ client'[u] \in {"printRest", "prompt"} /\ shown'[u] = response[m].tail
        /\ \A g \in Generations : InService(g)' = InService(g) /\ ~Pending(u, g)'
        /\ Latest(u)' = Latest(u) /\ Own(u)' = Own(u) /\ Heard(u)' = Heard(u)
    <2>1. client'[u] \in {"printRest", "prompt"}
      BY <1>1, <1>2, <1>3
    <2>2. shown'[u] = response[m].tail
      BY <1>1, <1>2, <1>3, <1>4, JoinedText
    <2> QED
      BY <1>2, <2>1, <2>2, SameCommand DEF InService, Pending
  <1>6. \A g \in Generations : sem_server[g] = 0
    BY <1>2, OwedNothing
  <1>7. Owed(u)'
    BY <1>2, <1>5 DEF Conversation, Owed, Pending
  <1>8. Answered(u)' /\ Soon(u)'
    BY <1>2, <1>5, <1>6 DEF Answered, Soon
  <1>9. Contents(u)'
    <2>1. Commanded(u)'
      BY <1>5 DEF Commanded
    <2>2. Printed(u)'
      BY <1>2, <1>4, <1>5 DEF Printed
    <2>3. InHand(u)'
      BY <1>2, <1>5 DEF Conversation, Contents, InHand
    <2> QED
      BY <2>1, <2>2, <2>3 DEF Contents
  <1>10. Once(u)'
    BY <1>2, <1>5 DEF Conversation, Once
  <1> QED
    BY <1>7, <1>8, <1>9, <1>10 DEF Conversation

\* The semaphores of a new server are at zero, and nobody waits for it yet.
LEMMA StartStep ==
    ASSUME NEW u, SoleUser(u), TypeInv, Unstarted, Ordered(u), Conversation(u), Start
    PROVE  Conversation(u)'
  <1>1. u \in Clients
    BY DEF SoleUser
  <1>2. PICK g \in Generations :
            /\ g = generation + 1
            /\ generation' = g
            /\ server' = [server EXCEPT ![g] = "unlinkOldClient"]
            /\ UNCHANGED <<objects, request, clientVars, histories>>
    <2>1. generation \in Nat
      BY ChannelAssumption DEF TypeInv, TypeOK, ServersOK
    <2>2. generation + 1 \in Generations
      BY <2>1, ChannelAssumption DEF Start, Generations
    <2> QED
      BY <2>2 DEF Start
  <1>3. /\ server \in [Generations -> ServerLabels] /\ generation \in Nat
        /\ handles[u].client \in Nat
    BY <1>1, HandleFields, ChannelAssumption
       DEF TypeInv, TypeOK, ServersOK, ClientsOK
  <1>4. /\ UNCHANGED <<sem_client, sem_server, command, response, client, handles,
                       sent, waited, shown, executed>>
        /\ Latest(u)' = Latest(u) /\ Own(u)' = Own(u) /\ Heard(u)' = Heard(u)
        /\ \A h \in Generations : Pending(u, h)' <=> Pending(u, h)
    BY <1>2, SameCommand DEF objects, clientVars, histories, Pending
  <1>5. /\ sem_client[g] = 0 /\ sem_server[g] = 0 /\ ~Pending(u, g)
        /\ server'[g] = "unlinkOldClient" /\ InService(g)' = 0
    <2>1. handles[u].client <= generation
      BY DEF Ordered, HandlesInOrder
    <2> QED
      BY <1>2, <1>3, <2>1 DEF Conversation, Owed, Pending, InService, Working
  <1>6. \A h \in Generations \ {g} :
            server'[h] = server[h] /\ InService(h)' = InService(h)
    BY <1>2, <1>3 DEF InService, Working
  <1>7. Owed(u)'
    <2>1. \A h \in Generations : h > generation' => h > generation
      BY <1>2, <1>3, Generation
    <2> QED
      BY <1>4, <1>5, <1>6, <2>1 DEF Conversation, Owed
  <1>8. Answered(u)'
    BY <1>4, <1>5, <1>6 DEF Conversation, Answered
  <1>9. Soon(u)'
    BY <1>4, <1>5, <1>6 DEF Conversation, Soon
  <1>10. Contents(u)'
    <2>4. handles[u].memory <= generation
      BY DEF Ordered, HandlesInOrder
    <2>1. Commanded(u)'
      BY <1>4 DEF Conversation, Contents, Commanded
    <2>2. Printed(u)'
      BY <1>2, <1>3, <1>4, <1>6, <2>4, OpenedMemory
         DEF Conversation, Contents, Printed
    <2>3. InHand(u)'
      BY <1>2, <1>4, <1>5, <1>6 DEF Conversation, Contents, InHand
    <2> QED
      BY <2>1, <2>2, <2>3 DEF Contents
  <1>11. Once(u)'
    BY <1>4, <1>5, <1>6 DEF Conversation, Once
  <1> QED
    BY <1>7, <1>8, <1>9, <1>10, <1>11 DEF Conversation

\* When a second passes, a server that has a command to look at is asleep, and
\* the command was posted within the second.
LEMMA TickStep ==
    ASSUME NEW u, SoleUser(u), TypeInv, Ordered(u), Conversation(u), Tick
    PROVE  Conversation(u)'
  <1>1. u \in Clients
    BY DEF SoleUser
  <1>2. /\ UNCHANGED <<sem_client, sem_server, command, response, generation,
                       request, handles, sent, shown, executed>>
        /\ \A g \in Generations :
              server'[g] = IF server[g] = "sleep" THEN "head" ELSE server[g]
        /\ client'[u] = IF client[u] = "retry" THEN "openClient" ELSE client[u]
        /\ waited'[u] = IF client[u] = "wait" THEN waited[u] + 1 ELSE waited[u]
    BY <1>1 DEF Tick, objects, histories
  <1>3. /\ \A g \in Generations :
              server[g] \in {"off", "sleep", "returned", "broken"}
        /\ client[u] \notin {"enterRest", "post", "print", "printRest"}
        /\ client[u] = "wait" => ~(sem_server[handles[u].server] > 0)
    <2>1. ~Busy
      BY DEF Tick, SoleUser
    <2> QED
      BY <1>1, <2>1 DEF Busy
  <1>4. ASSUME NEW g \in Generations
        PROVE  sem_server[g] = 0
    BY <1>3, <1>4, Counts DEF Conversation, Answered
  <1>5. ASSUME NEW g \in Generations, server'[g] \in Serving
        PROVE  /\ server[g] = "sleep" /\ server'[g] = "head"
               /\ server[g] \in Serving
    <2>1. server[g] # "broken"
      BY DEF Ordered, Alone
    <2> QED
      BY <1>2, <1>3, <1>5, <2>1 DEF Serving, ServerLabels, RunLabels, Working
  <1>6. /\ Latest(u)' = Latest(u) /\ Own(u)' = Own(u) /\ Heard(u)' = Heard(u)
        /\ \A g \in Generations : /\ Pending(u, g)' <=> Pending(u, g)
                                  /\ InService(g)' = InService(g)
    <2>1. client'[u] = "wait" <=> client[u] = "wait"
      BY <1>2
    <2>2. \A g \in Generations : InService(g)' = InService(g)
      BY <1>2 DEF InService, Working
    <2> QED
      BY <1>2, <2>1, <2>2, SameCommand DEF Pending
  <1>7. Owed(u)'
    BY <1>2, <1>5, <1>6 DEF Conversation, Owed
  <1>8. Answered(u)'
    BY <1>2, <1>4 DEF Answered
  <1>9. Soon(u)'
    <2> SUFFICES ASSUME NEW g \in Generations, server'[g] \in Serving, Pending(u, g)'
                 PROVE  waited'[u] <= 1 /\ server'[g] = "head"
      BY DEF Soon
    <2>1. /\ server[g] = "sleep" /\ server'[g] = "head" /\ server[g] \in Serving
          /\ Pending(u, g) /\ client[u] = "wait"
      BY <1>5, <1>6 DEF Pending
    <2>2. sem_client[g] > 0
      BY <1>4, <2>1, Counts DEF Conversation, Owed, Working
    <2>3. waited[u] = 0
      BY <2>1, <2>2 DEF Conversation, Soon
    <2> QED
      BY <1>2, <2>1, <2>3
  <1>10. Contents(u)'
    <2>1. Commanded(u)'
      BY <1>2, <1>6 DEF Conversation, Contents, Commanded
    <2>2. Printed(u)'
      BY <1>2, <1>3, <1>6 DEF Conversation, Contents, Printed
    <2>3. InHand(u)'
      BY <1>2, <1>3, <1>6 DEF Conversation, Contents, InHand
    <2> QED
      BY <2>1, <2>2, <2>3 DEF Contents
  <1>11. Once(u)'
    BY <1>2, <1>5, <1>6 DEF Conversation, Once
  <1> QED
    BY <1>7, <1>8, <1>9, <1>10, <1>11 DEF Conversation


-----------------------------------------------------------------------------
(* The theorems                                                             *)

SoleInv(u) == Ordered(u) /\ Conversation(u)

LEMMA SoleInit ==
    ASSUME NEW u, SoleUser(u), Init
    PROVE  SoleInv(u)
  <1>1. u \in Clients
    BY DEF SoleUser
  <1>2. /\ \A g \in Generations : server[g] = "off"
        /\ names = NoHandles /\ handles[u] = NoHandles /\ generation = 0
        /\ client[u] = "gone" /\ sent[u] = 0 /\ shown[u] = Empty
    BY <1>1 DEF Init
  <1>3. Ordered(u)
    BY <1>2 DEF Ordered, Alone, NamesInOrder, HandlesInOrder, Before, NoHandles,
                Unbound, RunLabels, Working
  <1>4. Owed(u) /\ Answered(u) /\ Soon(u)
    BY <1>2 DEF Init, Owed, Answered, Soon, Serving
  <1>5. Contents(u)
    BY <1>2 DEF Contents, Commanded, Printed, InHand, Heard
  <1>6. Once(u)
    <2>1. Empty \notin Sent
      BY NobodyEntered
    <2> QED
      BY <1>2, <2>1 DEF Init, Once, Serving
  <1> QED
    BY <1>3, <1>4, <1>5, <1>6 DEF SoleInv, Conversation

LEMMA SoleNext ==
    ASSUME NEW u, SoleUser(u), TypeInv, Unstarted, SoleInv(u), [Next]_vars
    PROVE  SoleInv(u)'
  <1> USE DEF SoleInv
  <1>1. Ordered(u)'
    BY OrderedNext
  <1>2. Conversation(u)'
    <2>1. ASSUME NEW g \in Generations, serverStep(g) \/ Die(g) \/ Crash(g)
          PROVE  Conversation(u)'
      BY <2>1, ServerConversation
    <2>2. CASE clientStep(u) \/ userStep(u)
      BY <2>2, AwaySteps, EnterCommandStep, EnterRestStep, PostCommandStep,
         TakeResponseStep, PrintResponseStep DEF clientStep, userStep
    <2>3. CASE Start \/ Tick
      BY <2>3, StartStep, TickStep
    <2>4. CASE UNCHANGED vars
      BY <2>4
         DEF vars, objects, serverVars, clientVars, histories, Conversation, Owed,
             Answered, Soon, Contents, Commanded, Printed, InHand, Once, Pending,
             InService, Own, Heard, Latest
    <2> QED
      BY <2>1, <2>2, <2>3, <2>4 DEF Next, SoleUser
  <1> QED
    BY <1>1, <1>2

LEMMA SoleInvCorrect ==
    ASSUME NEW u, SoleUser(u)
    PROVE  Spec => []SoleInv(u)
  <1>1. Init => SoleInv(u)
    BY SoleInit
  <1>2. TypeInv /\ Unstarted /\ SoleInv(u) /\ [Next]_vars => SoleInv(u)'
    BY SoleNext
  <1> QED
    BY <1>1, <1>2, TypeInvCorrect, UnstartedCorrect, PTL DEF Spec

\* A user who has the server to himself is shown no reply but the one to his last
\* command, through timeouts, crashes and new servers.
THEOREM ReplyCorrect ==
    ASSUME NEW u, SoleUser(u)
    PROVE  Spec => []ReplyIsOwn
  <1>1. SoleInv(u) => ReplyIsOwn
    BY DEF SoleInv, Conversation, Contents, Printed, Heard, Latest, ReplyIsOwn,
           SoleUser
  <1> QED
    BY <1>1, SoleInvCorrect, PTL

\* He does not write a command that a server is reading, nor read a response that
\* one is writing or wiping: what is executed and shown is no mixture of texts.
THEOREM CopiesCorrect ==
    ASSUME NEW u, SoleUser(u)
    PROVE  Spec => []CopiesApart
  <1>1. TypeInv /\ SoleInv(u) => CopiesApart
    <2> SUFFICES ASSUME TypeInv, SoleInv(u), NEW g \in Generations,
                        handles[u].memory = data[g]
                 PROVE  /\ client[u] = "enterRest" => server[g] # "copyRest"
                        /\ client[u] = "printRest" =>
                              server[g] \notin {"writeRest", "zeroRest"}
      BY DEF CopiesApart, SoleUser
    <2>1. server[g] \in {"copyRest", "writeRest"} => client[u] = "wait"
      BY InWork DEF SoleInv, Working
    <2>2. server[g] = "zeroRest" => handles[u].memory = g /\ server[g] \in Starting
      BY DEF SoleInv, Ordered, Alone, Starting, Serving, ServerLabels, RunLabels,
             Working
    <2>3. client[u] = "printRest" => server[handles[u].memory] \notin Starting
      BY DEF SoleInv, Conversation, Contents, Printed
    <2> QED
      BY <2>1, <2>2, <2>3
  <1> QED
    BY <1>1, SoleInvCorrect, TypeInvCorrect, PTL

\* His client does not time out while its server is in run().
THEOREM AnsweredCorrect ==
    ASSUME NEW u, SoleUser(u)
    PROVE  Spec => []AnsweredInTime
  <1>1. TypeInv /\ SoleInv(u) => AnsweredInTime
    <2> SUFFICES ASSUME TypeInv, SoleInv(u), NEW g \in Generations,
                        client[u] = "wait", server[g] \in RunLabels,
                        handles[u].client = g
                 PROVE  waited[u] < ClientTimeout
      BY DEF AnsweredInTime, SoleUser
    <2>1. server[g] \in Serving
      BY DEF Serving, ServerLabels, RunLabels, Working
    <2>2. waited[u] <= 1
      BY <2>1 DEF SoleInv, Conversation, Soon, Pending
    <2> QED
      BY <2>2, ChannelAssumption DEF SoleUser, TypeInv, TypeOK, ClientsOK
  <1> QED
    BY <1>1, SoleInvCorrect, TypeInvCorrect, PTL

LEMMA ServiceStep ==
    ASSUME NEW u, SoleUser(u), TypeInv, SoleInv(u), [Next]_vars
    PROVE  [Promise!Next]_(Promise!vars)
  <1>1. u \in Clients /\ Clients = {u}
    BY DEF SoleUser
  <1>2. /\ sent \in [Clients -> 0..MaxCommands]
        /\ shown \in [Clients -> Command]
        /\ executed \in [Sent -> Nat]
    BY DEF TypeInv, TypeOK, ClientsOK, HistoriesOK
  <1>3. /\ Promise!Latest(u) = Latest(u) /\ Promise!Empty = Empty
        /\ Promise!Request = Sent
    BY DEF Promise!Latest, Latest, Promise!Empty, Empty, Promise!Request, Sent
  <1>4. Empty \notin Sent
    BY DEF Empty, Sent
  <1>5. ASSUME UNCHANGED <<sent, executed, shown>>
        PROVE  [Promise!Next]_(Promise!vars)
    BY <1>5 DEF Promise!vars, Told
  <1>15. ASSUME NEW x, shown' = [shown EXCEPT ![u] = x]
         PROVE  Told' = [Told EXCEPT ![u] = IF x \in Sent THEN x ELSE Empty]
    BY <1>1, <1>2, <1>15 DEF Told
  <1>6. ASSUME NEW here, Leave(u, here)
        PROVE  [Promise!Next]_(Promise!vars)
    <2>1. Told' = [Told EXCEPT ![u] = Empty]
      BY <1>4, <1>6, <1>15 DEF Leave
    <2>2. Promise!Forget(u)
      BY <1>3, <1>6, <2>1 DEF Leave, Promise!Forget
    <2> QED
      BY <1>1, <2>2 DEF Promise!Next
  <1>7. CASE EnterCommand(u)
    <2>1. sent[u] < MaxCommands
      BY <1>1, <1>2, <1>7, ChannelAssumption DEF EnterCommand
    <2>2. Told' = [Told EXCEPT ![u] = Empty]
      BY <1>4, <1>7, <1>15 DEF EnterCommand
    <2>3. Promise!Ask(u)
      BY <1>1, <1>2, <1>3, <1>7, <2>1, <2>2 DEF EnterCommand, Promise!Ask,
                                                histories
    <2> QED
      BY <1>1, <2>3 DEF Promise!Next
  <1>8. CASE PrintResponse(u)
    <2> DEFINE x == response[handles[u].memory].head
    <2>1. /\ shown' = [shown EXCEPT ![u] = x]
          /\ UNCHANGED <<sent, executed>>
          /\ handles[u].memory \in Generations
          /\ x \in Heard(u)
      BY <1>8, OpenedMemory
         DEF PrintResponse, ClientAt, histories, SoleInv, Conversation, Contents,
             Printed
    <2>2. x \in Sent => executed[x] = 1
      BY <2>1 DEF SoleInv, Conversation, Once
    <2> HIDE DEF x
    <2>3. CASE x \notin Sent
      <3>1. Told' = [Told EXCEPT ![u] = Empty]
        BY <1>15, <2>1, <2>3
      <3>2. Promise!Forget(u)
        BY <1>3, <2>1, <3>1 DEF Promise!Forget
      <3> QED
        BY <1>1, <3>2 DEF Promise!Next
    <2>4. CASE x \in Sent
      <3>1. x = Latest(u)
        BY <2>1, <2>4, HeardSent
      <3>2. Told' = [Told EXCEPT ![u] = x]
        BY <1>15, <2>1, <2>4
      <3>3. Promise!Tell(u)
        BY <1>3, <2>1, <2>2, <2>4, <3>1, <3>2 DEF Promise!Tell
      <3> QED
        BY <1>1, <3>3 DEF Promise!Next
    <2> QED
      BY <2>3, <2>4
  <1>16. CASE PrintRest(u)
    <2> DEFINE m == handles[u].memory
    <2>1. /\ shown' = [shown EXCEPT ![u] = Joined(shown[u], response[m].tail)]
          /\ UNCHANGED <<sent, executed>>
          /\ shown[u] = response[m].tail
      BY <1>16
         DEF PrintRest, ClientAt, histories, SoleInv, Conversation, Contents,
             Printed
    <2>2. Joined(shown[u], response[m].tail) = shown[u]
      BY <1>1, <1>2, <2>1, JoinedText
    <2>3. shown' = shown
      BY <1>1, <1>2, <2>1, <2>2
    <2> QED
      BY <1>5, <2>1, <2>3
  <1>9. ASSUME NEW g \in Generations, WriteResponse(g)
        PROVE  [Promise!Next]_(Promise!vars)
    <2>1. /\ server[g] = "respond"
          /\ executed' = [x \in Sent |->
                            executed[x] + IF x = request[g] THEN 1 ELSE 0]
          /\ UNCHANGED <<sent, shown>>
          /\ request[g] \in Heard(u)
      BY <1>9 DEF WriteResponse, Execute, ServerAt, clientVars, SoleInv,
                  Conversation, Contents, InHand
    <2>2. CASE request[g] \notin Sent
      <3>1. \A x \in Sent : executed'[x] = executed[x]
        BY <1>2, <2>1, <2>2
      <3>2. executed' = executed
        BY <1>2, <2>1, <3>1
      <3> QED
        BY <1>5, <2>1, <3>2
    <2>3. CASE request[g] \in Sent
      <3>1. request[g] = Latest(u)
        BY <2>1, <2>3, HeardSent
      <3>2. Pending(u, g)
        BY <2>1, InWork DEF SoleInv, Working
      <3>3. server[g] \in Serving
        BY <2>1 DEF Serving, ServerLabels, RunLabels, Working
      <3>4. executed[Latest(u)] = 0
        BY <2>1, <3>2, <3>3 DEF SoleInv, Conversation, Once
      <3>5. executed' = [executed EXCEPT ![Latest(u)] = 1]
        <4>1. \A x \in Sent : executed'[x] =
                  IF x = Latest(u) THEN 1 ELSE executed[x]
          BY <1>2, <2>1, <2>3, <3>1, <3>4
        <4> QED
          BY <1>2, <2>1, <2>3, <3>1, <4>1
      <3>6. Promise!Execute(u)
        <4>1. UNCHANGED <<sent, Told>>
          BY <2>1 DEF Told
        <4> QED
          BY <1>3, <2>3, <3>1, <3>4, <3>5, <4>1 DEF Promise!Execute
      <3> QED
        BY <1>1, <3>6 DEF Promise!Next
    <2> QED
      BY <2>2, <2>3
  <1>10. ASSUME NEW g \in Generations,
                serverStep(g) \/ Die(g) \/ Crash(g), ~WriteResponse(g)
         PROVE  UNCHANGED <<sent, executed, shown>>
    BY <1>10
       DEF serverStep, UnlinkOld, Unlink, CreateSemaphores, Create,
           OpenOrCreateMemory, ZeroMemory, ZeroRest, run, LoopHead, Poll,
           CopyCommand, CopyRest, WriteRest, PostResponse, cleanup, Die, Crash,
           clientVars, histories
  <1>11. CASE \/ OpenSemClient(u) \/ OpenSemServer(u) \/ PostCommand(u)
              \/ TakeResponse(u) \/ RunClient(u) \/ EnterRest(u)
    <2>1. UNCHANGED <<sent, executed, shown>>
      BY <1>11 DEF OpenSemClient, OpenSemServer, PostCommand, TakeResponse,
                   RunClient, EnterRest, histories
    <2> QED
      BY <1>5, <2>1
  <1>12. CASE OpenMemory(u)
    <2>1. Leave(u, "openMemory") \/ UNCHANGED <<sent, executed, shown>>
      BY <1>12 DEF OpenMemory, histories
    <2> QED
      BY <1>5, <1>6, <2>1
  <1>13. CASE GiveUpOpening(u) \/ TimeOut(u) \/ Exit(u) \/ Interrupt(u)
    BY <1>6, <1>13 DEF GiveUpOpening, TimeOut, Exit, Interrupt
  <1>14. CASE Start \/ Tick \/ UNCHANGED vars
    <2>1. UNCHANGED <<sent, executed, shown>>
      BY <1>14 DEF Start, Tick, vars, clientVars, histories
    <2> QED
      BY <1>5, <2>1
  <1> QED
    BY <1>1, <1>5, <1>7, <1>8, <1>9, <1>10, <1>11, <1>12, <1>13, <1>14, <1>16
       DEF Next, clientStep, userStep

\* For him the channel is the abstract service: a command is executed once at most,
\* not after the next was entered, and its response shown only when it has been.
THEOREM ServiceImplemented ==
    ASSUME NEW u, SoleUser(u)
    PROVE  Spec => ImplementsService
  <1>1. Init => Promise!Init
    <2>1. Empty \notin Sent
      BY NobodyEntered
    <2> QED
      BY <2>1 DEF Init, Told, Promise!Init, Promise!Empty, Empty, Promise!Request,
                  Sent
  <1>2. TypeInv /\ SoleInv(u) /\ [Next]_vars => [Promise!Next]_(Promise!vars)
    BY ServiceStep
  <1> QED
    BY <1>1, <1>2, SoleInvCorrect, TypeInvCorrect, PTL
       DEF Spec, ImplementsService, Promise!Spec

=============================================================================
