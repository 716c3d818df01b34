------------------------------- MODULE Service -------------------------------
(***************************************************************************)
(* What the radio control server promises a user who has it to himself:    *)
(* commands asked one after the other, each executed once at most and not  *)
(* after the next one was asked, each told the outcome of no other.        *)
(***************************************************************************)
EXTENDS Naturals

CONSTANTS
    Clients,        \* the users
    MaxCommands     \* bound: how many commands each of them asks

Empty   == [client |-> "nobody", number |-> 0]      \* nothing was told
Request == [client : Clients, number : 1..MaxCommands]

VARIABLES
    asked,          \* the number of each user's last command
    executed,       \* how often each command was executed
    told            \* the command whose outcome the user was told last

vars == <<asked, executed, told>>

Init ==
    /\ asked = [c \in Clients |-> 0]
    /\ executed = [x \in Request |-> 0]
    /\ told = [c \in Clients |-> Empty]

Latest(c) == [client |-> c, number |-> asked[c]]

Ask(c) ==
    /\ asked[c] < MaxCommands
    /\ asked' = [asked EXCEPT ![c] = @ + 1]
    /\ told' = [told EXCEPT ![c] = Empty]
    /\ UNCHANGED executed

Execute(c) ==
    /\ Latest(c) \in Request
    /\ executed[Latest(c)] = 0
    /\ executed' = [executed EXCEPT ![Latest(c)] = 1]
    /\ UNCHANGED <<asked, told>>

Tell(c) ==
    /\ Latest(c) \in Request
    /\ executed[Latest(c)] = 1
    /\ told' = [told EXCEPT ![c] = Latest(c)]
    /\ UNCHANGED <<asked, executed>>

\* The client program has ended, and its output is of the past.
Forget(c) ==
    /\ told' = [told EXCEPT ![c] = Empty]
    /\ UNCHANGED <<asked, executed>>

Next == \E c \in Clients : Ask(c) \/ Execute(c) \/ Tell(c) \/ Forget(c)

Spec == Init /\ [][Next]_vars

=============================================================================
