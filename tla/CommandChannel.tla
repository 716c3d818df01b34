--------------------------- MODULE CommandChannel ---------------------------
(***************************************************************************)
(* The conversation of client processes with server processes: a shared    *)
(* memory with one command and one response, and two semaphores.           *)
(*                                                                         *)
(* Each run of a server is a generation.  A kernel object carries the      *)
(* number of the generation that created it; a name of the kernel is bound *)
(* to the number of the object it leads to, and a process that opened an   *)
(* object keeps it when the name is unlinked or bound again.               *)
(*                                                                         *)
(* A command is known by its client and its number; the response to it is  *)
(* known by the command it answers.  Nothing keeps two processes from      *)
(* copying to or from one buffer at once: a text is copied in two parts,   *)
(* and what is read meanwhile may be of several texts.  Time passes in     *)
(* seconds.                                                                *)
(***************************************************************************)
EXTENDS Integers, FiniteSets

CONSTANTS
    Clients,         \* the users; each runs one client program at a time
    MaxServers,      \* bound: how many servers are started
    Overlap,         \* may a server start before the last one has ended?
    MaxCommands,     \* bound: how many commands each user enters
    MaxAttempts,     \* the client's max_attempts to open the semaphores
    ClientTimeout,   \* seconds sem_timedwait waits for the response
    IdleLimit,       \* seconds without a command after which run() returns
    Prompt,          \* do processes that can run do so within the second?
    MayCrash,        \* can the server be killed?
    MayInterrupt     \* can a user kill the client while it waits?

ASSUME ChannelAssumption ==
    /\ IsFiniteSet(Clients)
    /\ MaxServers \in Nat /\ MaxCommands \in Nat
    /\ MaxAttempts \in Nat \ {0}
    /\ ClientTimeout \in Nat \ {0} /\ IdleLimit \in Nat \ {0}
    /\ Overlap \in BOOLEAN /\ Prompt \in BOOLEAN
    /\ MayCrash \in BOOLEAN /\ MayInterrupt \in BOOLEAN

Generations == 1..MaxServers
Unbound     == 0                       \* a name without object, no handle
Empty       == [client |-> "nobody", number |-> 0]     \* zeroed memory
Cut         == [client |-> "nobody", number |-> -1]    \* a text without its end
Mixed       == [client |-> "nobody", number |-> -2]    \* parts of several texts
Sent        == [client : Clients, number : 1..MaxCommands]
Command     == Sent \cup {Empty, Cut, Mixed}
Buffer      == [head : Command, tail : Command]
Handles     == [client : 0..MaxServers, server : 0..MaxServers,
                memory : 0..MaxServers]
NoHandles   == [client |-> Unbound, server |-> Unbound, memory |-> Unbound]

\* What is read of a buffer: a text ends where the zeroes begin.
Joined(head, tail) ==
    CASE head \in {tail, Empty} -> head
      [] head \notin {Empty, Mixed} /\ tail = Empty -> Cut
      [] OTHER -> Mixed

VARIABLES
    names,         \* what SEM_CLIENT_NAME, SEM_SERVER_NAME, SHM_NAME lead to
    sem_client,    \* sem_client[g], the semaphore that counts commands
    sem_server,    \* sem_server[g], the semaphore that counts responses
    command,       \* command[m], the buffer in the shared memory m
    response,      \* response[m], the other buffer there
    generation,    \* the server that started last
    server,        \* where each server is
    data,          \* the shared memory it has mapped
    idle,          \* seconds since its startTime
    request,       \* the command it works on, as far as it was read
    client,        \* where each client is
    handles,       \* the objects it opened
    attempts,      \* its attempts to open the semaphores
    sent,          \* the number of its last command
    waited,        \* seconds it has waited for the response
    shown,         \* the response it printed last, or prints
    executed,      \* history: how often each command was executed
    orphans        \* history: answers of g that the clients who posted to g
                   \*   will not take, less those that others have taken

objects    == <<names, sem_client, sem_server, command, response>>
serverVars == <<generation, server, data, idle, request>>
clientVars == <<client, handles, attempts, sent, waited, shown>>
histories  == <<executed, orphans>>
vars       == <<objects, serverVars, clientVars, histories>>

Init ==
    /\ names = NoHandles
    /\ sem_client = [g \in Generations |-> 0]
    /\ sem_server = [g \in Generations |-> 0]
    /\ command = [m \in Generations |-> [head |-> Empty, tail |-> Empty]]
    /\ response = [m \in Generations |-> [head |-> Empty, tail |-> Empty]]
    /\ generation = 0
    /\ server = [g \in Generations |-> "off"]
    /\ data = [g \in Generations |-> Unbound]
    /\ idle = [g \in Generations |-> 0]
    /\ request = [g \in Generations |-> Empty]
    /\ client = [c \in Clients |-> "gone"]
    /\ handles = [c \in Clients |-> NoHandles]
    /\ attempts = [c \in Clients |-> 0]
    /\ sent = [c \in Clients |-> 0]
    /\ waited = [c \in Clients |-> 0]
    /\ shown = [c \in Clients |-> Empty]
    /\ executed = [x \in Sent |-> 0]
    /\ orphans = [g \in Generations |-> 0]

-----------------------------------------------------------------------------
(* Server: initializeSharedMemory, run and cleanup.                         *)

ServerAt(g, here, there) ==
    server[g] = here /\ server' = [server EXCEPT ![g] = there]

\* A new process: at first while no other server runs.
Start ==
    LET g == generation + 1
    IN  /\ g <= MaxServers
        /\ Overlap \/ \A h \in Generations : server[h] = "off"
        /\ generation' = g
        /\ server' = [server EXCEPT ![g] = "unlinkOldClient"]
        /\ UNCHANGED <<objects, data, idle, request, clientVars, histories>>

\* sem_unlink, shm_unlink: whatever the name leads to.
Unlink(g, here, there, name) ==
    /\ ServerAt(g, here, there)
    /\ names' = [names EXCEPT ![name] = Unbound]
    /\ UNCHANGED <<sem_client, sem_server, command, response, generation, data,
                   idle, request, clientVars, histories>>

\* Whatever names its predecessors left, or another server has just made.
UnlinkOld(g) ==
    \/ Unlink(g, "unlinkOldClient", "unlinkOldServer", "client")
    \/ Unlink(g, "unlinkOldServer", "unlinkOldMemory", "server")
    \/ Unlink(g, "unlinkOldMemory", "createClient", "memory")

\* sem_open with O_CREAT and O_EXCL, which fails when the name exists.  The
\* second semaphore is created also when the first has failed, and only then
\* are the two looked at.
Create(g, here, made, failed, name) ==
    /\ \/ /\ names[name] = Unbound
          /\ ServerAt(g, here, made)
          /\ names' = [names EXCEPT ![name] = g]
       \/ /\ names[name] # Unbound
          /\ ServerAt(g, here, failed)
          /\ UNCHANGED names
    /\ UNCHANGED <<sem_client, sem_server, command, response, generation, data,
                   idle, request, clientVars, histories>>

CreateSemaphores(g) ==
    \/ Create(g, "createClient", "createServer", "createOnlyServer", "client")
    \/ Create(g, "createServer", "openMemory", "broken", "server")
    \/ Create(g, "createOnlyServer", "broken", "broken", "server")

\* initializeSharedMemory has returned early, data is uninitialized and one of
\* the semaphores is null: the monitoring thread, sem_trywait or sem_post
\* follows a wild pointer sooner or later, and nothing is unlinked.
Die(g) ==
    /\ ServerAt(g, "broken", "off")
    /\ UNCHANGED <<objects, generation, data, idle, request, clientVars, histories>>

\* shm_open with O_CREAT alone: a memory that exists is shared.
OpenOrCreateMemory(g) ==
    LET m == IF names.memory = Unbound THEN g ELSE names.memory
    IN  /\ ServerAt(g, "openMemory", "zeroMemory")
        /\ names' = [names EXCEPT !.memory = m]
        /\ data' = [data EXCEPT ![g] = m]
        /\ UNCHANGED <<sem_client, sem_server, command, response, generation,
                       idle, request, clientVars, histories>>

\* memset, after which run() takes its startTime.
ZeroMemory(g) ==
    /\ ServerAt(g, "zeroMemory", "zeroRest")
    /\ command' = [command EXCEPT ![data[g]].head = Empty]
    /\ response' = [response EXCEPT ![data[g]].head = Empty]
    /\ UNCHANGED <<names, sem_client, sem_server, generation, data, idle, request,
                   clientVars, histories>>

ZeroRest(g) ==
    /\ ServerAt(g, "zeroRest", "head")
    /\ command' = [command EXCEPT ![data[g]].tail = Empty]
    /\ response' = [response EXCEPT ![data[g]].tail = Empty]
    /\ idle' = [idle EXCEPT ![g] = 0]
    /\ UNCHANGED <<names, sem_client, sem_server, generation, data, request,
                   clientVars, histories>>

\* while (time(nullptr) - startTime < 90)
LoopHead(g) ==
    /\ \/ idle[g] < IdleLimit /\ ServerAt(g, "head", "poll")
       \/ idle[g] >= IdleLimit /\ ServerAt(g, "head", "returned")
    /\ UNCHANGED <<objects, generation, data, idle, request, clientVars, histories>>

\* Mutant: sem_getvalue for sem_trywait, the command stays queued.
Poll_NotTaken(g) ==
    /\ \/ ServerAt(g, "poll", "process") /\ sem_client[g] > 0
       \/ ServerAt(g, "poll", "sleep") /\ sem_client[g] = 0
    /\ UNCHANGED <<objects, generation, data, idle, request, clientVars, histories>>

\* Mutant: startTime is taken again in every round.
Poll_ResetsIdle(g) ==
    /\ \/ /\ ServerAt(g, "poll", "process")
          /\ sem_client[g] > 0
          /\ sem_client' = [sem_client EXCEPT ![g] = @ - 1]
       \/ /\ ServerAt(g, "poll", "sleep")
          /\ sem_client[g] = 0
          /\ UNCHANGED sem_client
    /\ idle' = [idle EXCEPT ![g] = 0]
    /\ UNCHANGED <<names, sem_server, command, response, generation, data,
                   request, clientVars, histories>>

\* sem_trywait
Poll(g) ==
    /\ \/ /\ ServerAt(g, "poll", "process")
          /\ sem_client[g] > 0
          /\ sem_client' = [sem_client EXCEPT ![g] = @ - 1]
       \/ /\ ServerAt(g, "poll", "sleep")
          /\ sem_client[g] = 0
          /\ UNCHANGED sem_client
    /\ UNCHANGED <<names, sem_server, command, response, generation, data, idle,
                   request, clientVars, histories>>

\* processCommand(data->command): the argument is a copy of the command, which
\* is executed, and the response to it is written over the last one.
CopyCommand(g) ==
    /\ ServerAt(g, "process", "copyRest")
    /\ request' = [request EXCEPT ![g] = command[data[g]].head]
    /\ UNCHANGED <<objects, generation, data, idle, clientVars, histories>>

CopyRest(g) ==
    /\ ServerAt(g, "copyRest", "respond")
    /\ request' = [request EXCEPT ![g] = Joined(@, command[data[g]].tail)]
    /\ UNCHANGED <<objects, generation, data, idle, clientVars, histories>>

Execute(g) ==
    executed' = [x \in Sent |-> executed[x] + IF x = request[g] THEN 1 ELSE 0]

\* Mutant: processCommand takes its argument by reference, and the response
\* answers what a client has written there meanwhile.
WriteResponse_ByReference(g) ==
    /\ ServerAt(g, "respond", "writeRest")
    /\ Execute(g)
    /\ response' = [response EXCEPT ![data[g]].head = command[data[g]].head]
    /\ UNCHANGED <<names, sem_client, sem_server, command, generation, data,
                   idle, request, clientVars, orphans>>

WriteResponse(g) ==
    /\ ServerAt(g, "respond", "writeRest")
    /\ Execute(g)
    /\ response' = [response EXCEPT ![data[g]].head = request[g]]
    /\ UNCHANGED <<names, sem_client, sem_server, command, generation, data,
                   idle, request, clientVars, orphans>>

WriteRest(g) ==
    /\ ServerAt(g, "writeRest", "post")
    /\ response' = [response EXCEPT ![data[g]].tail = request[g]]
    /\ UNCHANGED <<names, sem_client, sem_server, command, generation, data,
                   idle, request, clientVars, histories>>

\* Mutant: the response is not announced.
PostResponse_Forgotten(g) ==
    /\ ServerAt(g, "post", "sleep")
    /\ request' = [request EXCEPT ![g] = Empty]
    /\ idle' = [idle EXCEPT ![g] = 0]
    /\ UNCHANGED <<objects, generation, data, clientVars, histories>>

PostResponse(g) ==
    /\ ServerAt(g, "post", "sleep")
    /\ sem_server' = [sem_server EXCEPT ![g] = @ + 1]
    /\ request' = [request EXCEPT ![g] = Empty]
    /\ idle' = [idle EXCEPT ![g] = 0]
    /\ UNCHANGED <<names, sem_client, command, response, generation, data,
                   clientVars, histories>>

\* The destructor.  The main loop of the daemon keeps the server for the
\* seconds of waitWithInterrupt, or for none when it was asked to stop.
cleanup(g) ==
    \/ Unlink(g, "returned", "unlinkClient", "memory")
    \/ Unlink(g, "unlinkClient", "unlinkServer", "client")
    \/ Unlink(g, "unlinkServer", "off", "server")

Working == {"process", "copyRest", "respond", "writeRest", "post"}

InService(g) == IF server[g] \in Working THEN 1 ELSE 0

\* SIGKILL: nothing is unlinked.
Crash(g) ==
    /\ MayCrash
    /\ server[g] # "off"
    /\ server' = [server EXCEPT ![g] = "off"]
    /\ request' = [request EXCEPT ![g] = Empty]
    /\ orphans' = [orphans EXCEPT ![g] = @ - InService(g)]
    /\ UNCHANGED <<objects, generation, data, idle, clientVars, executed>>

-----------------------------------------------------------------------------
(* Client: initializeSharedMemory, run and cleanup.                         *)

ClientAt(c, here, there) ==
    client[c] = here /\ client' = [client EXCEPT ![c] = there]

\* The user starts the program, for at least one more command.
RunClient(c) ==
    /\ ClientAt(c, "gone", "openClient")
    /\ sent[c] < MaxCommands
    /\ UNCHANGED <<objects, serverVars, handles, attempts, sent, waited, shown,
                   histories>>

OpenSemClient(c) ==
    /\ attempts[c] < MaxAttempts
    /\ ClientAt(c, "openClient", "openServer")
    /\ handles' = [handles EXCEPT ![c].client = names.client]
    /\ UNCHANGED <<objects, serverVars, attempts, sent, waited, shown, histories>>

\* Mutant: || for && in the test of the two handles.
OpenSemServer_Either(c) ==
    /\ \/ /\ handles[c].client # Unbound \/ names.server # Unbound
          /\ ClientAt(c, "openServer", "openMemory")
          /\ handles' = [handles EXCEPT ![c].server = names.server]
          /\ UNCHANGED attempts
       \/ /\ handles[c].client = Unbound /\ names.server = Unbound
          /\ ClientAt(c, "openServer", "retry")
          /\ handles' = [handles EXCEPT ![c] = NoHandles]
          /\ attempts' = [attempts EXCEPT ![c] = @ + 1]
    /\ UNCHANGED <<objects, serverVars, sent, waited, shown, histories>>

\* Mutant: attempts is not counted up.
OpenSemServer_Endless(c) ==
    /\ \/ /\ handles[c].client # Unbound /\ names.server # Unbound
          /\ ClientAt(c, "openServer", "openMemory")
          /\ handles' = [handles EXCEPT ![c].server = names.server]
       \/ /\ handles[c].client = Unbound \/ names.server = Unbound
          /\ ClientAt(c, "openServer", "retry")
          /\ handles' = [handles EXCEPT ![c] = NoHandles]
    /\ UNCHANGED <<objects, serverVars, attempts, sent, waited, shown, histories>>

\* The end of an attempt: both semaphores are open, or both are closed again
\* and the client sleeps for a second.
OpenSemServer(c) ==
    /\ \/ /\ handles[c].client # Unbound /\ names.server # Unbound
          /\ ClientAt(c, "openServer", "openMemory")
          /\ handles' = [handles EXCEPT ![c].server = names.server]
          /\ UNCHANGED attempts
       \/ /\ handles[c].client = Unbound \/ names.server = Unbound
          /\ ClientAt(c, "openServer", "retry")
          /\ handles' = [handles EXCEPT ![c] = NoHandles]
          /\ attempts' = [attempts EXCEPT ![c] = @ + 1]
    /\ UNCHANGED <<objects, serverVars, sent, waited, shown, histories>>

\* The client program ends and its handles with it.
Leave(c, here) ==
    /\ ClientAt(c, here, "gone")
    /\ handles' = [handles EXCEPT ![c] = NoHandles]
    /\ attempts' = [attempts EXCEPT ![c] = 0]
    /\ waited' = [waited EXCEPT ![c] = 0]
    /\ shown' = [shown EXCEPT ![c] = Empty]
    /\ UNCHANGED <<objects, serverVars, sent, executed>>

\* "Error: Server is not running!"
GiveUpOpening(c) ==
    /\ attempts[c] = MaxAttempts
    /\ Leave(c, "openClient")
    /\ UNCHANGED orphans

\* shm_open is tried once.
OpenMemory(c) ==
    \/ /\ names.memory # Unbound
       /\ ClientAt(c, "openMemory", "prompt")
       /\ handles' = [handles EXCEPT ![c].memory = names.memory]
       /\ UNCHANGED <<objects, serverVars, attempts, sent, waited, shown,
                      histories>>
    \/ /\ names.memory = Unbound
       /\ Leave(c, "openMemory")
       /\ UNCHANGED orphans

\* strncpy into the one command buffer.
EnterCommand(c) ==
    LET n == sent[c] + 1
    IN  /\ n <= MaxCommands
        /\ ClientAt(c, "prompt", "enterRest")
        /\ command' = [command EXCEPT ![handles[c].memory].head =
                                        [client |-> c, number |-> n]]
        /\ sent' = [sent EXCEPT ![c] = n]
        /\ shown' = [shown EXCEPT ![c] = Empty]
        /\ UNCHANGED <<names, sem_client, sem_server, response, serverVars,
                       handles, attempts, waited, histories>>

EnterRest(c) ==
    /\ ClientAt(c, "enterRest", "post")
    /\ command' = [command EXCEPT ![handles[c].memory].tail =
                                    [client |-> c, number |-> sent[c]]]
    /\ UNCHANGED <<names, sem_client, sem_server, response, serverVars, handles,
                   attempts, sent, waited, shown, histories>>

\* Mutant: the command is posted before the loop and in it.
PostCommand_Twice(c) ==
    /\ ClientAt(c, "post", "wait")
    /\ sem_client' = [sem_client EXCEPT ![handles[c].client] = @ + 2]
    /\ waited' = [waited EXCEPT ![c] = 0]
    /\ UNCHANGED <<names, sem_server, command, response, serverVars, handles,
                   attempts, sent, shown, histories>>

PostCommand(c) ==
    /\ ClientAt(c, "post", "wait")
    /\ sem_client' = [sem_client EXCEPT ![handles[c].client] = @ + 1]
    /\ waited' = [waited EXCEPT ![c] = 0]
    /\ UNCHANGED <<names, sem_server, command, response, serverVars, handles,
                   attempts, sent, shown, histories>>

\* sem_timedwait returns 0.  When the two semaphores are of different servers,
\* the answer it takes is owed to somebody else, and its own stays behind.
TakeResponse(c) ==
    /\ ClientAt(c, "wait", "print")
    /\ sem_server[handles[c].server] > 0
    /\ sem_server' = [sem_server EXCEPT ![handles[c].server] = @ - 1]
    /\ waited' = [waited EXCEPT ![c] = 0]
    /\ orphans' = [orphans EXCEPT ![handles[c].client] = @ + 1,
                                  ![handles[c].server] = @ - 1]
    /\ UNCHANGED <<names, sem_client, command, response, serverVars, handles,
                   attempts, sent, shown, executed>>

PrintResponse(c) ==
    /\ ClientAt(c, "print", "printRest")
    /\ shown' = [shown EXCEPT ![c] = response[handles[c].memory].head]
    /\ UNCHANGED <<objects, serverVars, handles, attempts, sent, waited,
                   histories>>

PrintRest(c) ==
    /\ ClientAt(c, "printRest", "prompt")
    /\ shown' = [shown EXCEPT ![c] = Joined(@, response[handles[c].memory].tail)]
    /\ UNCHANGED <<objects, serverVars, handles, attempts, sent, waited,
                   histories>>

Orphan(c) == orphans' = [orphans EXCEPT ![handles[c].client] = @ + 1]

\* "Error: Server response timeout (server may be inactive)"
TimeOut(c) ==
    /\ waited[c] >= ClientTimeout
    /\ Leave(c, "wait")
    /\ Orphan(c)

\* EXIT
Exit(c) ==
    /\ Leave(c, "prompt")
    /\ UNCHANGED orphans

\* Ctrl-C
Interrupt(c) ==
    /\ MayInterrupt
    /\ Leave(c, "wait")
    /\ Orphan(c)

-----------------------------------------------------------------------------
(* A second passes: sleepers wake, and the clocks of the others advance.    *)

RunLabels == {"head", "poll", "sleep"} \cup Working

\* A process that can take a step does so before the second is over.
Busy ==
    \/ \E g \in Generations : server[g] \notin {"off", "sleep", "returned", "broken"}
    \/ \E c \in Clients : \/ client[c] \in {"enterRest", "post", "print", "printRest"}
                          \/ /\ client[c] = "wait"
                             /\ sem_server[handles[c].server] > 0

Tick ==
    /\ Prompt => ~Busy
    /\ \A c \in Clients : client[c] = "wait" => waited[c] < ClientTimeout
    /\ server' = [g \in Generations |->
                    IF server[g] = "sleep" THEN "head" ELSE server[g]]
    /\ idle' = [g \in Generations |->
                  IF server[g] \in RunLabels /\ idle[g] < IdleLimit
                  THEN idle[g] + 1 ELSE idle[g]]
    /\ client' = [c \in Clients |->
                    IF client[c] = "retry" THEN "openClient" ELSE client[c]]
    /\ waited' = [c \in Clients |->
                    IF client[c] = "wait" THEN waited[c] + 1 ELSE waited[c]]
    /\ UNCHANGED <<objects, generation, data, request, handles, attempts, sent,
                   shown, histories>>

-----------------------------------------------------------------------------

run(g) ==
    \/ LoopHead(g) \/ Poll(g) \/ CopyCommand(g) \/ CopyRest(g)
    \/ WriteResponse(g) \/ WriteRest(g) \/ PostResponse(g)

serverStep(g) ==
    \/ UnlinkOld(g) \/ CreateSemaphores(g) \/ OpenOrCreateMemory(g)
    \/ ZeroMemory(g) \/ ZeroRest(g) \/ run(g) \/ cleanup(g)

clientStep(c) ==
    \/ OpenSemClient(c) \/ OpenSemServer(c) \/ GiveUpOpening(c) \/ OpenMemory(c)
    \/ EnterRest(c) \/ PostCommand(c) \/ TakeResponse(c) \/ PrintResponse(c)
    \/ PrintRest(c) \/ TimeOut(c)

userStep(c) == RunClient(c) \/ EnterCommand(c) \/ Exit(c) \/ Interrupt(c)

Next ==
    \/ Start
    \/ \E g \in Generations : serverStep(g) \/ Die(g) \/ Crash(g)
    \/ \E c \in Clients : clientStep(c) \/ userStep(c)
    \/ Tick

Spec == Init /\ [][Next]_vars

\* Processes that can run do run, and time passes; users owe nothing, and
\* nobody has to start a server.
Fairness ==
    /\ \A g \in Generations : WF_vars(serverStep(g))
    /\ \A c \in Clients : WF_vars(clientStep(c))
    /\ WF_vars(Tick)

FairSpec == Spec /\ Fairness

-----------------------------------------------------------------------------
(* Properties *)

ServerLabels ==
    RunLabels \cup
    {"off", "unlinkOldClient", "unlinkOldServer", "unlinkOldMemory",
     "createClient", "createServer", "createOnlyServer", "broken", "openMemory",
     "zeroMemory", "zeroRest", "returned", "unlinkClient", "unlinkServer"}
ClientLabels ==
    {"gone", "openClient", "openServer", "retry", "openMemory", "prompt",
     "enterRest", "post", "wait", "print", "printRest"}

ObjectsOK ==
    /\ names \in Handles
    /\ sem_client \in [Generations -> Nat]
    /\ sem_server \in [Generations -> Nat]
    /\ command \in [Generations -> Buffer]
    /\ response \in [Generations -> Buffer]

ServersOK ==
    /\ generation \in 0..MaxServers
    /\ server \in [Generations -> ServerLabels]
    /\ data \in [Generations -> 0..MaxServers]
    /\ idle \in [Generations -> 0..IdleLimit]
    /\ request \in [Generations -> Command]

ClientsOK ==
    /\ client \in [Clients -> ClientLabels]
    /\ handles \in [Clients -> Handles]
    /\ attempts \in [Clients -> 0..MaxAttempts]
    /\ sent \in [Clients -> 0..MaxCommands]
    /\ waited \in [Clients -> 0..ClientTimeout]
    /\ shown \in [Clients -> Command]

HistoriesOK ==
    /\ executed \in [Sent -> Nat]
    /\ orphans \in [Generations -> Int]

\* A server that serves has mapped a memory, and a client that talks to one has
\* opened all three objects.
Mapped ==
    \A g \in Generations :
        server[g] \in RunLabels \cup {"zeroMemory", "zeroRest"} => data[g] # Unbound

Opened ==
    \A c \in Clients :
        client[c] \in {"prompt", "enterRest", "post", "wait", "print", "printRest"} =>
            /\ handles[c].client # Unbound
            /\ handles[c].server # Unbound
            /\ handles[c].memory # Unbound

\* The types, and that no handle or mapping is used that is not there.
TypeOK == ObjectsOK /\ ServersOK /\ ClientsOK /\ HistoriesOK /\ Mapped /\ Opened

\* The response a client prints answers the command it sent last (or what the
\* memset of a starting server left of it, nothing or its beginning), and neither
\* an earlier command nor somebody else's, in no part of it.
ReplyIsOwn ==
    \A c \in Clients :
        shown[c] \in {Empty, Cut, [client |-> c, number |-> sent[c]]}

\* The semaphores keep the copies of a sole user apart: he does not write a
\* command that a server is reading, nor read a response that one is writing or
\* wiping, so that no command is executed, and no response shown, that is a
\* mixture of two.  A command may be written while a server that starts wipes it.
CopiesApart ==
    \A c \in Clients, g \in Generations :
        handles[c].memory = data[g] =>
            /\ client[c] = "enterRest" => server[g] # "copyRest"
            /\ client[c] = "printRest" => server[g] \notin {"writeRest", "zeroRest"}

\* Also when several users share the channel, and servers the memory, and their
\* copies overlap: a command that is executed whole was entered by a user, and a
\* response that is shown whole is to a command that has been executed whole, be
\* it another user's.  (What is a mixture of several, nobody entered.)
RepliesAreReal ==
    /\ \A x \in Sent : executed[x] > 0 => x.number <= sent[x.client]
    /\ \A c \in Clients : shown[c] \in Sent => executed[shown[c]] > 0

\* A client waits its ClientTimeout out only when its server has left run().
AnsweredInTime ==
    \A c \in Clients, g \in Generations :
        /\ client[c] = "wait" /\ server[g] \in RunLabels
        /\ handles[c].client = g /\ handles[c].server = g
        => waited[c] < ClientTimeout

\* Every post to sem_client is answered by one post to sem_server: what is
\* queued, in work or answered is what the waiting clients are owed, and what
\* those that left without an answer have left behind.
Waiting(g) == {c \in Clients : client[c] = "wait" /\ handles[c].client = g}

RepliesMatchCommands ==
    \A g \in Generations :
        sem_client[g] + InService(g) + sem_server[g]
            = Cardinality(Waiting(g)) + orphans[g]

\* For a sole user the channel is the service of module Service: a command is
\* executed once at most, not after a later one was entered, and its response
\* is shown only when it has been executed.  The response to what is left of a
\* command tells him nothing about the command.
Told == [c \in Clients |-> IF shown[c] \in Sent THEN shown[c] ELSE Empty]

Promise == INSTANCE Service
    WITH asked <- sent, told <- Told

ImplementsService == Promise!Spec

\* An upper bound of the steps and seconds a client has before it until it is
\* at the prompt or gone.
StepsLeft(c) ==
    LET tries == 3 * (MaxAttempts - attempts[c])
    IN  CASE client[c] = "openClient" -> tries + 3
          [] client[c] = "openServer" -> tries + 2
          [] client[c] = "retry"      -> tries + 4
          [] client[c] = "enterRest"  -> ClientTimeout + 5
          [] client[c] = "post"       -> ClientTimeout + 4
          [] client[c] = "wait"       -> ClientTimeout - waited[c] + 3
          [] client[c] = "print"      -> 2
          [] client[c] \in {"openMemory", "printRest"} -> 1
          [] OTHER -> 0

\* A client opens and waits for a bounded time: whatever servers and other
\* clients do, each of its steps and each second brings it closer to the prompt
\* or to its end.
EveryStepNears ==
    [][\A c \in Clients :
          /\ client[c] \notin {"prompt", "gone"}
          /\ \/ client'[c] # client[c]
             \/ attempts'[c] # attempts[c] \/ waited'[c] # waited[c]
          => StepsLeft(c)' \in 0..(StepsLeft(c) - 1)]_vars

\* Once the users fall silent, every server leaves run().
InactivityShutdown ==
    \A g \in Generations : server[g] \in RunLabels ~> server[g] \notin RunLabels

\* A client is never stuck: it gets to the prompt or gives up.
ClientNeverHangs ==
    \A c \in Clients :
        client[c] \notin {"prompt", "gone"} ~> client[c] \in {"prompt", "gone"}

=============================================================================
