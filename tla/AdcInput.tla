------------------------------ MODULE AdcInput ------------------------------
(***************************************************************************)
(* What the analog-input single-read instruction promises its caller,     *)
(* independent of how the configuration memory is programmed: a read of  *)
(* a channel descriptor converts that channel, or, with CR_ALT_SOURCE,    *)
(* the calibration source most recently selected with                     *)
(* INSN_CONFIG_ALT_SOURCE. Loading a command's channel list changes       *)
(* neither.                                                                *)
(***************************************************************************)
CONSTANTS
    Chans,       \* channel numbers
    CalSources   \* calibration sources that can be selected

VARIABLES
    calibSource,  \* the calibration source selected last
    request,      \* the descriptor of the last read
    converted     \* the input the last read converted

Descs == [chan : Chans, rng : {"BI", "UNI"}, alt : BOOLEAN]

Chan(n) == [kind |-> "CHAN", n |-> n]
Cal(n)  == [kind |-> "CAL", n |-> n]

\* The input a descriptor names.
Named(d) == IF d.alt THEN Cal(calibSource) ELSE Chan(d.chan)

Init ==
    /\ calibSource = 0
    /\ request \in Descs
    /\ converted \in { Chan(n) : n \in Chans }

Read(d) ==
    /\ request' = d
    /\ converted' = Named(d)
    /\ UNCHANGED calibSource

Select ==
    /\ calibSource' \in CalSources
    /\ UNCHANGED <<request, converted>>

Next == (\E d \in Descs : Read(d)) \/ Select

Spec == Init /\ [][Next]_<<calibSource, request, converted>>

=============================================================================
