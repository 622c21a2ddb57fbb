--------------------------- MODULE AiAcquisition ---------------------------
(***************************************************************************)
(* What an analog-input subdevice promises the reader of its Comedi       *)
(* buffer (spec: "a subdevice is either idle or has exactly one active     *)
(* command"; an acquisition that fails to start leaves nothing running).  *)
(* A command is submitted with a sample limit; it either starts, with the *)
(* buffer reset, or is refused. Samples reach the buffer only while a     *)
(* command is active, never beyond its limit; an active command may raise *)
(* an error; cancel returns the subdevice to idle.                        *)
(***************************************************************************)
EXTENDS Naturals

CONSTANT Limits      \* the sample limits a command may carry

VARIABLES
    state,      \* "IDLE" or "ACTIVE"
    limit,      \* the sample limit of the command last submitted
    delivered,  \* samples put into the buffer since that command
    errored     \* an error event was raised for that command

vars == <<state, limit, delivered, errored>>

Init ==
    /\ state = "IDLE"
    /\ limit \in Limits
    /\ delivered = 0
    /\ errored = FALSE

\* A command is accepted (ok) or fails after the buffer was reset.
Start(l, ok) ==
    /\ state = "IDLE"
    /\ state' = IF ok THEN "ACTIVE" ELSE "IDLE"
    /\ limit' = l
    /\ delivered' = 0
    /\ errored' = FALSE

\* A command refused before anything was touched.
Refuse(l) ==
    /\ state = "IDLE"
    /\ limit' = l
    /\ UNCHANGED <<state, delivered, errored>>

\* Some samples, as many as the limit leaves room for, reach the buffer.
Deliver ==
    /\ state = "ACTIVE"
    /\ \E n \in (delivered + 1)..limit : delivered' = n
    /\ UNCHANGED <<state, limit, errored>>

\* An active command raises an error, possibly with a last batch of
\* samples put into the buffer in the same step.
RaiseError ==
    /\ state = "ACTIVE"
    /\ errored' = TRUE
    /\ delivered' \in delivered..limit
    /\ UNCHANGED <<state, limit>>

\* Cancel stops whatever runs; the samples already delivered stay.
Cancel ==
    /\ state' = "IDLE"
    /\ UNCHANGED <<limit, delivered, errored>>

Next ==
    \/ \E l \in Limits, ok \in BOOLEAN : Start(l, ok)
    \/ \E l \in Limits : Refuse(l)
    \/ Deliver
    \/ RaiseError
    \/ Cancel

Spec == Init /\ [][Next]_vars

=============================================================================
