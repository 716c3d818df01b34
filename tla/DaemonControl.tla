---------------------------- MODULE DaemonControl ----------------------------
(***************************************************************************)
(* What the control program promises those who call it one after the       *)
(* other: what it answers is so at the moment it answers, whatever becomes *)
(* of the daemon and of its PID file in the meantime.                      *)
(***************************************************************************)
CONSTANTS
    Calls,      \* the calls; a start gives its daemon its own name
    MayCrash,   \* can a daemon be killed by others than stop?
    MayFail     \* can a start fail for want of resources?

VARIABLES
    asked,      \* what each call asks for
    answer,     \* what it was answered
    up,         \* the daemons that are there
    leaving,    \* the processes of daemons that have signed off
    spoiled     \* is there a record of a daemon that cannot be read?

vars == <<asked, answer, up, leaving, spoiled>>

Init ==
    /\ asked = [i \in Calls |-> "none"]
    /\ answer = [i \in Calls |-> "none"]
    /\ up = {} /\ leaving = {} /\ spoiled = FALSE

Ask(i, k) ==
    /\ asked[i] = "none"
    /\ asked' = [asked EXCEPT ![i] = k]
    /\ UNCHANGED <<answer, up, leaving, spoiled>>

Answer(i, k, value) ==
    /\ asked[i] = k /\ answer[i] = "none"
    /\ answer' = [answer EXCEPT ![i] = value]
    /\ UNCHANGED <<asked, spoiled>>

\* Somebody answers to the name of the daemon.
Somebody == up # {} \/ leaving # {} \/ spoiled

\* A start finds nobody there, and makes a daemon or fails to without noticing;
\* or it refuses, for somebody is there.
Start(i) ==
    \/ /\ up = {} /\ Answer(i, "start", "ok")
       /\ up' = {i} \/ (MayFail /\ up' = {})
       /\ UNCHANGED leaving
    \/ /\ Somebody \/ MayFail
       /\ Answer(i, "start", "failed")
       /\ UNCHANGED <<up, leaving>>

\* A stop leaves nobody there; or there was nobody.
Stop(i) ==
    \/ Answer(i, "stop", "ok") /\ up' = {} /\ leaving' \in SUBSET leaving
    \/ up = {} /\ Answer(i, "stop", "failed") /\ UNCHANGED <<up, leaving>>

Status(i) ==
    /\ \/ Somebody /\ Answer(i, "status", "ok")
       \/ up = {} /\ Answer(i, "status", "failed")
    /\ UNCHANGED <<up, leaving>>

\* A daemon signs off, dies or is killed; when others kill it, its record may
\* stay behind unfinished, until a later call removes it.
Vanish(p) ==
    /\ p \in up
    /\ up' = up \ {p}
    /\ leaving' \in {leaving, leaving \cup {p}}
    /\ spoiled' \in {spoiled, MayCrash}
    /\ UNCHANGED <<asked, answer>>

Depart(p) ==
    /\ leaving' = leaving \ {p}
    /\ UNCHANGED <<asked, answer, up, spoiled>>

Mend == spoiled' = FALSE /\ UNCHANGED <<asked, answer, up, leaving>>

Next ==
    \/ \E i \in Calls : \/ \E k \in {"start", "stop", "status"} : Ask(i, k)
                        \/ Start(i) \/ Stop(i) \/ Status(i)
                        \/ Vanish(i) \/ Depart(i)
    \/ Mend

Spec == Init /\ [][Next]_vars

=============================================================================
