------------------------------ MODULE AlarmLog ------------------------------
(***************************************************************************)
(* What the alarm store of SystemData promises to its callers, as if every *)
(* call were one step: alarms get the ids 1, 2, 3, ... in the order they   *)
(* enter the store, an acknowledgement sticks, and an alarm leaves the     *)
(* store only by being acknowledged first and cleared afterwards.          *)
(***************************************************************************)
EXTENDS Naturals

VARIABLES
    issued,   \* the number of alarms raised so far
    log       \* log[id]: has the stored alarm id been acknowledged?

vars == <<issued, log>>

Init ==
    /\ issued = 0
    /\ log = [id \in {} |-> FALSE]

Raise ==
    /\ issued' = issued + 1
    /\ log' = [id \in DOMAIN log \cup {issued + 1} |->
                 IF id \in DOMAIN log THEN log[id] ELSE FALSE]

Acknowledge(id) ==
    /\ id \in DOMAIN log
    /\ log' = [log EXCEPT ![id] = TRUE]
    /\ UNCHANGED issued

ClearAcknowledged ==
    /\ log' = [id \in {x \in DOMAIN log : ~log[x]} |-> log[id]]
    /\ UNCHANGED issued

Next ==
    \/ Raise
    \/ \E id \in DOMAIN log : Acknowledge(id)
    \/ ClearAcknowledged

Spec == Init /\ [][Next]_vars

=============================================================================
