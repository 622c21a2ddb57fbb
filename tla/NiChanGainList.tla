--------------------------- MODULE NiChanGainList ---------------------------
(***************************************************************************)
(* The AI configuration memory (channel/gain list) of the NI E/M-series   *)
(* driver, mio_common.c: ni_load_channelgain_list with its single-channel *)
(* cache (changain_state, changain_spec), the M-series variant with the   *)
(* FIFO bypass register, the 6143 calibration relay, and                  *)
(* INSN_CONFIG_ALT_SOURCE of ni_ai_insn_config, which selects the          *)
(* calibration source a CR_ALT_SOURCE channel descriptor converts.         *)
(*                                                                         *)
(* The callers are ni_ai_insn_read (one descriptor) and ni_ai_cmd (the    *)
(* command's list); all run in the calling thread.                        *)
(***************************************************************************)
EXTENDS Naturals, Sequences

CONSTANTS
    Boards,      \* board types: "E", "611x", "6143", "M"
    Chans,       \* CR_CHAN values submitted
    CalSources,  \* INSN_CONFIG_ALT_SOURCE values (data[1]) submitted
    MaxN         \* longest channel list of a command

\* A channel descriptor: channel, range polarity (ni_gainlkup & 0x100
\* marks the unipolar ranges) and CR_ALT_SOURCE.
Descs == [chan : Chans, rng : {"BI", "UNI"}, alt : BOOLEAN]

Lists == UNION { [1..n -> Descs] : n \in 1..MaxN }

\* What an ADC input is connected to: an analog channel or a calibration
\* source.
Chan(n) == [kind |-> "CHAN", n |-> n]
Cal(n)  == [kind |-> "CAL", n |-> n]
Inputs  == { Chan(n) : n \in Chans } \cup { Cal(n) : n \in CalSources }

NoBypass == [on |-> FALSE, cal |-> 0]

VARIABLES
    board,          \* boardtype.reg_type
    mem,            \* configuration memory: the input of each position
    bypass,         \* M_Offset_AI_Config_FIFO_Bypass: on, calibration bits
    relay,          \* devpriv->ai_calib_source_enabled (6143 relay)
    changainState,  \* devpriv->changain_state
    changainSpec,   \* devpriv->changain_spec
    aiCalibSource,  \* devpriv->ai_calib_source
    converted,      \* the input the last ni_ai_insn_read converted
    lastRead        \* history: the descriptor of that read

vars == <<board, mem, bypass, relay, changainState, changainSpec,
          aiCalibSource, converted, lastRead>>

-----------------------------------------------------------------------------
PhysSourceNoAlt(d, b) == Chan(d.chan)

\* ni_load_channelgain_list: the input a position is programmed with;
\* CR_ALT_SOURCE selects the calibration source, except on the 6143
\* (which switches it through the relay instead).
PhysSource(d, b) ==
    IF b # "6143" /\ d.alt THEN Cal(aiCalibSource) ELSE Chan(d.chan)

\* ni_m_series_load_channelgain_list: clear the configuration memory,
\* program the FIFO bypass from list[0] (CR_ALT_SOURCE: the calibration
\* bits of ai_calib_source) and one entry per descriptor; the cache is
\* not used.
MSeriesLoad(l) ==
    /\ mem' = [i \in DOMAIN l |-> Chan(l[i].chan)]
    /\ bypass' = IF l[1].alt THEN [on |-> TRUE, cal |-> aiCalibSource]
                             ELSE NoBypass
    /\ UNCHANGED <<relay, changainState, changainSpec>>

\* The 6143 relay strobes of ni_load_channelgain_list: on when list[0]
\* asks for the calibration source and the relay is off, off in the
\* converse case.
Relay6143(l) ==
    IF l[1].alt /\ ~relay THEN TRUE
    ELSE IF ~l[1].alt /\ relay THEN FALSE
    ELSE relay

\* ni_load_channelgain_list. A single descriptor on a board other than the
\* 611x and 6143 that equals the cached one returns at once ("ready to
\* go"); otherwise the cache is set (single) or invalidated, the memory
\* cleared and reprogrammed.
LoadChannelgainList(l) ==
    IF board = "M"
    THEN MSeriesLoad(l)
    ELSE LET single == Len(l) = 1 /\ board \notin {"611x", "6143"}
         IN  IF single /\ changainState /\ changainSpec = l[1]
             THEN UNCHANGED <<mem, bypass, relay, changainState, changainSpec>>
             ELSE /\ changainState' = single
                  /\ changainSpec' = IF single THEN l[1] ELSE changainSpec
                  /\ relay' = IF board = "6143" THEN Relay6143(l) ELSE relay
                  /\ mem' = [i \in DOMAIN l |-> PhysSource(l[i], board)]
                  /\ UNCHANGED bypass

\* What the ADC converts at position 1: the bypass on the M series, the
\* calibration source through the relay on the 6143, else the memory.
Converting(b, m, byp, rel, cs) ==
    CASE b = "M" /\ byp.on -> Cal(byp.cal)
      [] b = "6143" /\ rel -> Cal(cs)
      [] OTHER             -> m[1]

AltSourceValidNoCheck(v) == TRUE

\* ni_ai_insn_config, INSN_CONFIG_ALT_SOURCE: the M series accepts the
\* calibration bits, the 6143 takes data[1] & 0xf, the others refuse a
\* source of 8 or more.
AltSourceValid(v) ==
    CASE board = "M"    -> TRUE
      [] board = "6143" -> TRUE
      [] OTHER          -> v % 16 < 8

AltSourceValue(v) == IF board = "M" THEN v ELSE v % 16

-----------------------------------------------------------------------------
\* At attach devpriv is zeroed: the cache is invalid, no calibration source
\* and the relay off; the memory holds whatever ni_ai_reset left.
Init ==
    /\ board \in Boards
    /\ mem \in { <<Chan(n)>> : n \in Chans }
    /\ bypass = NoBypass
    /\ relay = FALSE
    /\ changainState = FALSE
    /\ changainSpec \in Descs
    /\ aiCalibSource = 0
    /\ converted = mem[1]
    /\ lastRead \in Descs

\* ni_ai_insn_read: load the one descriptor, then pulse AI_CONVERT and
\* poll the FIFO (the 611x and 6143 through their own FIFO registers) for
\* each sample; if the FIFO stays empty for NI_TIMEOUT polls it returns
\* -ETIME, with the load already done and nothing converted.
InsnRead(d) ==
    /\ LoadChannelgainList(<<d>>)
    /\ \/ UNCHANGED <<converted, lastRead>>
       \/ /\ converted' = Converting(board, mem', bypass', relay',
                                    aiCalibSource)
          /\ lastRead' = d
    /\ UNCHANGED <<board, aiCalibSource>>

\* ni_ai_cmd: load the command's channel list.
AiCmdLoad(l) ==
    /\ LoadChannelgainList(l)
    /\ UNCHANGED <<board, aiCalibSource, converted, lastRead>>

\* ni_ai_insn_config, INSN_CONFIG_ALT_SOURCE (-EINVAL leaves all as is).
ConfigAltSource(v) ==
    /\ IF AltSourceValid(v)
       THEN aiCalibSource' = AltSourceValue(v)
       ELSE UNCHANGED aiCalibSource
    /\ UNCHANGED <<board, mem, bypass, relay, changainState, changainSpec,
                   converted, lastRead>>

Next ==
    \/ \E d \in Descs : InsnRead(d)
    \/ \E l \in Lists : AiCmdLoad(l)
    \/ \E v \in CalSources : ConfigAltSource(v)

Spec == Init /\ [][Next]_vars

-----------------------------------------------------------------------------
(* Properties.                                                             *)

TypeOK ==
    /\ board \in Boards
    /\ mem \in UNION { [1..n -> Inputs] : n \in 1..MaxN }
    /\ bypass \in [on : BOOLEAN, cal : CalSources]
    /\ relay \in BOOLEAN /\ changainState \in BOOLEAN
    /\ changainSpec \in Descs
    /\ aiCalibSource \in CalSources
    /\ board \in {"E", "611x"} => aiCalibSource < 8
    /\ converted \in Inputs
    /\ lastRead \in Descs

\* The promise of the single-read instruction, with devpriv->ai_calib_source
\* as the selected calibration source.
Abstract == INSTANCE AdcInput WITH calibSource <- aiCalibSource,
                                   request <- lastRead

\* ni_ai_insn_read, ni_ai_cmd and INSN_CONFIG_ALT_SOURCE together implement
\* AdcInput: every read converts the channel its descriptor names, or with
\* CR_ALT_SOURCE the calibration source selected last, whatever was loaded
\* before (the single-channel cache, the 6143 relay, the M-series bypass),
\* and a command load or a source selection converts nothing.
AdcInputRefined == Abstract!Spec

====
