---------------------------- MODULE NiAoCommand ----------------------------
(***************************************************************************)
(* The analog-output waveform command of the NI E/M-series driver,        *)
(* src/ksrc/drivers/comedi/national_instruments/mio_common.c, in the      *)
(* MITE DMA build: ni_ao_cmd programs the STC, ni_ao_inttrig (the only    *)
(* start source, TRIG_INT) takes a MITE channel, waits for the DMA to     *)
(* load the DAC FIFO and starts the update clock, ni_E_interrupt handles  *)
(* the B side (handle_b_interrupt) and ni_ao_reset cancels. On the       *)
(* M-series the digital I/O subdevice has a command too, correlated       *)
(* digital output (ni_cdio_cmd, ni_cdo_inttrig, ni_cdio_cancel), which    *)
(* takes its MITE channel from the same pool and is serviced by           *)
(* handle_cdio_interrupt in the same ni_E_interrupt.                      *)
(*                                                                         *)
(* Data are counts of samples, one per update (the channels of a scan are *)
(* abstracted to one): written by the user into the ring (buf), moved by  *)
(* the MITE into the DAC FIFO (fifo), and output by an update.            *)
(***************************************************************************)
EXTENDS Naturals, FiniteSets

CONSTANTS
    StopArgs,        \* stop_arg values of TRIG_COUNT commands submitted
    MaxUpdates,      \* bound on the updates of a TRIG_NONE command
    FifoDepth,       \* samples of the DAC FIFO (ao_fifo_depth)
    BufSize,         \* samples the Comedi ring buffer holds
    NumMite,         \* MITE DMA channels shared by AI, AO, CDO and GPCT
    MaxTrigPerCmd,   \* ni_ao_inttrig calls the user makes per command
    DioChans         \* the DIO lines (num_p0_dio_channels)

ASSUME StopArgs \subseteq Nat \ {0} /\ FifoDepth >= 2
ASSUME MaxUpdates \in Nat /\ BufSize \in Nat /\ NumMite \in Nat
ASSUME MaxTrigPerCmd \in Nat \ {0}

\* Commands ni_ao_cmdtest lets through, abstracted to the stop source and
\* count (start_src is always TRIG_INT, stop_arg is 0 for TRIG_NONE).
Cmds == [stop : {"COUNT"}, arg : StopArgs] \cup [stop : {"NONE"}, arg : {0}]
NoCmd == [stop |-> "NONE", arg |-> 0]

\* Latched AO status bits the driver acts on: AO_BC_TC_St and
\* AO_Overrun_St (the DAC FIFO ran empty at an update); as enable bits
\* they stand for AO_BC_TC_Interrupt_Enable and AO_Error_Interrupt_Enable.
StatusBits == {"BC_TC", "OVERRUN"}

TrigResults == {"NONE", "OK", "EBUSY", "EPIPE", "EIO"}

\* CDIO status bits handle_cdio_interrupt acts on: CDO_Overrun_Bit or
\* CDO_Underflow_Bit ("ERROR") and CDO_FIFO_Empty_Bit ("EMPTY"); as enable
\* bits, CDO_Error_Interrupt_Enable and CDO_Empty_FIFO_Interrupt_Enable.
CdoBits == {"ERROR", "EMPTY"}

VARIABLES
    irqLine,     \* comedi_get_irq(dev) != COMEDI_IRQ_UNUSED
    subd,        \* subdevice registry state: "IDLE" or "ACTIVE"
    cmd,         \* the command last handed to ni_ao_cmd
    aoMiteChan,  \* devpriv->ao_mite_chan != NULL (channel held and armed)
    otherMite,   \* MITE channels held by the other transfer roles
    armed,       \* STC: UI/UC/BC counters armed
    started,     \* STC: START1 received, updates running
    ucLeft,      \* STC: updates until BC_TC (update counter)
    intEnable,   \* Interrupt_B_Enable_Register, restricted to StatusBits
    status,      \* STC: latched AO status bits
    linkc,       \* MITE: CHSR_LINKC of the AO channel
    buf,         \* samples written to the ring, not yet read by the MITE
    fifo,        \* samples in the DAC FIFO
    supplied,    \* history: samples the user wrote for this command
    output,      \* history: updates of this command
    events,      \* buffer events posted: "ERROR", "EOA"
    trigCalls,   \* ni_ao_inttrig calls made for this command
    trigRet,     \* what the last ni_ao_inttrig returned
    oops,        \* a BUG_ON fired: the kernel stopped
    ioBits,      \* devpriv->io_bits: the DIO lines configured as outputs
    cdioSubd,    \* registry state of the DIO subdevice: "IDLE" or "ACTIVE"
    cdoMiteChan, \* devpriv->cdo_mite_chan != NULL
    cdoArmed,    \* CDO armed (CDO_Arm_Bit) and generating
    cdoIntEnable,\* CDO interrupt enables, restricted to CdoBits
    cdoStatus,   \* latched CDIO status bits
    cdoEvents,   \* events handle_cdio_interrupt posted for the CDO transfer
    cdioRet      \* what the last ni_cdio_cmd or ni_cdo_inttrig returned

cdioVars == <<ioBits, cdioSubd, cdoMiteChan, cdoArmed, cdoIntEnable, cdoStatus,
              cdoEvents, cdioRet>>

aoVars == <<irqLine, subd, cmd, aoMiteChan, armed, started, ucLeft,
            intEnable, status, linkc, buf, fifo, supplied, output, events,
            trigCalls, trigRet>>

vars == <<irqLine, subd, cmd, aoMiteChan, otherMite, armed, started, ucLeft,
          intEnable, status, linkc, buf, fifo, supplied, output, events,
          trigCalls, trigRet, oops, cdioVars>>

-----------------------------------------------------------------------------
(* Driver helpers.                                                         *)

\* mite_request_channel finds a channel no role holds.
MiteChannelFree ==
    otherMite + (IF aoMiteChan THEN 1 ELSE 0)
              + (IF cdoMiteChan THEN 1 ELSE 0) < NumMite

\* ni_ao_setup_MITE_dma: ni_request_ao_mite_channel (-EBUSY when the pool
\* is empty), then prep and arm the DMA of the channel it got.
AoSetupMiteDma == MiteChannelFree

\* ni_ao_wait_for_dma_load: polls AO_FIFO_Half_Full_St, -EPIPE when the
\* FIFO holding n samples never gets half full.
HalfFull(n) == 2 * n >= FifoDepth

\* Samples the user writes in all for a command.
Total(c) == IF c.stop = "COUNT" THEN c.arg ELSE MaxUpdates

AoUcLoadPlusOne(c) == c.arg + 1

\* ni_ao_cmd, TRIG_COUNT: UC_Load_A = stop_arg, AO_UC_Load, then the
\* reload value stop_arg - 1 for the following buffers. That BC_TC comes
\* after stop_arg updates is the counter's behaviour, assumed here.
AoUcLoad(c) == c.arg

AoCmdIntBitsNone(c) == {}

\* ni_ao_cmd: the B interrupts it enables, AO_BC_TC_Interrupt_Enable for a
\* counted command.
AoCmdIntBits(c) == IF c.stop = "COUNT" THEN {"BC_TC"} ELSE {}

DacFifoClearNoop(f) == f

\* ni_ao_inttrig: the write to DAC_FIFO_Clear.
DacFifoClear(f) == 0

ReleaseAoMiteChannelKeep == /\ aoMiteChan' = aoMiteChan /\ linkc' = linkc

\* ni_release_ao_mite_channel.
ReleaseAoMiteChannel == /\ aoMiteChan' = FALSE /\ linkc' = FALSE

\* ack_b_interrupt: every latched bit the handler read is acknowledged,
\* AO_Overrun_St through AO_Error_Interrupt_Ack.
AckBInterrupt(s) == status \ s

\* handle_b_interrupt: the events posted for status s (LINKC only syncs the
\* output DMA: mite_sync_output_dma moves no sample of the model).
HandleB(s) ==
    (IF "OVERRUN" \in s THEN {"ERROR"} ELSE {})
    \cup (IF "BC_TC" \in s THEN {"EOA"} ELSE {})

ReleaseCdoMiteChannelKeep == cdoMiteChan' = cdoMiteChan

\* ni_release_cdo_mite_channel.
ReleaseCdoMiteChannel == cdoMiteChan' = FALSE

CdioCancelNoDisarm ==
    /\ cdoArmed' = cdoArmed
    /\ cdoIntEnable' = {}
    /\ ReleaseCdoMiteChannel

\* ni_cdio_cancel: CDO_Disarm_Bit with every CDO interrupt enable cleared,
\* the mask enable zeroed, and the CDO MITE channel released.
NiCdioCancel ==
    /\ cdoArmed' = FALSE
    /\ cdoIntEnable' = {}
    /\ ReleaseCdoMiteChannel

HandleCdioNoError ==
    /\ cdoIntEnable' = IF "EMPTY" \in cdoStatus THEN cdoIntEnable \ {"EMPTY"}
                                                ELSE cdoIntEnable
    /\ UNCHANGED <<cdoStatus, cdoEvents>>

\* handle_cdio_interrupt, run by every ni_E_interrupt on an M-series board:
\* under mite_channel_lock, clear LINKC and sync the output DMA of a held
\* CDO channel (no CDO sample is modelled); on CDO_Overrun_Bit or
\* CDO_Underflow_Bit confirm the error and post ERROR; on
\* CDO_FIFO_Empty_Bit disable the empty-FIFO interrupt.
HandleCdio ==
    /\ cdoStatus' = cdoStatus \ {"ERROR"}
    /\ cdoIntEnable' = IF "EMPTY" \in cdoStatus THEN cdoIntEnable \ {"EMPTY"}
                                                ELSE cdoIntEnable
    /\ cdoEvents' = IF "ERROR" \in cdoStatus THEN cdoEvents \cup {"ERROR"}
                                             ELSE cdoEvents

IrqAsserted == \/ status \cap intEnable # {}
               \/ aoMiteChan /\ linkc
               \/ cdoStatus \cap cdoIntEnable # {}

-----------------------------------------------------------------------------
Init ==
    /\ irqLine \in BOOLEAN
    /\ subd = "IDLE"
    /\ cmd = NoCmd
    /\ aoMiteChan = FALSE
    /\ otherMite = 0
    /\ armed = FALSE
    /\ started = FALSE
    /\ ucLeft = 0
    /\ intEnable = {}
    /\ status = {}
    /\ linkc = FALSE
    /\ buf = 0
    /\ fifo = 0
    /\ supplied = 0
    /\ output = 0
    /\ events = {}
    /\ trigCalls = 0
    /\ trigRet = "NONE"
    /\ oops = FALSE
    /\ ioBits = {}
    /\ cdioSubd = "IDLE"
    /\ cdoMiteChan = FALSE
    /\ cdoArmed = FALSE
    /\ cdoIntEnable = {}
    /\ cdoStatus = {}
    /\ cdoEvents = {}
    /\ cdioRet = "NONE"

\* ni_ao_cmd, with the registry: the command goes to an IDLE subdevice, a
\* new buffer is started, and a 0 return makes the subdevice ACTIVE.
\* Without an irq it returns -EIO before touching the board. Otherwise it
\* disarms, loads the update counter and, for TRIG_COUNT, acknowledges
\* and enables BC_TC. It neither clears the DAC FIFO nor looks at the
\* MITE channel.
AoCmd(c) ==
    /\ ~oops
    /\ UNCHANGED cdioVars
    /\ subd = "IDLE"
    /\ IF ~irqLine
       THEN UNCHANGED vars
       ELSE /\ subd' = "ACTIVE"
            /\ cmd' = c
            /\ armed' = FALSE
            /\ started' = FALSE
            /\ ucLeft' = IF c.stop = "COUNT" THEN AoUcLoad(c) ELSE 0
            /\ status' = IF c.stop = "COUNT" THEN status \ {"BC_TC"}
                                             ELSE status
            /\ intEnable' = intEnable \cup AoCmdIntBits(c)
            /\ buf' = 0
            /\ supplied' = 0
            /\ output' = 0
            /\ events' = {}
            /\ trigCalls' = 0
            /\ trigRet' = "NONE"
            /\ UNCHANGED <<irqLine, aoMiteChan, otherMite, linkc, fifo, oops>>

\* ni_ao_inttrig (trignum 0): disable the FIFO and error interrupts, clear
\* the DAC FIFO, ni_ao_setup_MITE_dma (BUG_ON if the AO channel is held,
\* -EBUSY if none is free), ni_ao_wait_for_dma_load (-EPIPE unless the
\* FIFO reaches half full), the wait for the DAC writes (-EIO on timeout,
\* a hardware fault), acknowledge the error, enable it, arm and START1.
\* The load is what the MITE moves while the driver polls.
AoInttrig ==
    /\ ~oops
    /\ UNCHANGED cdioVars
    /\ subd = "ACTIVE"
    /\ trigCalls < MaxTrigPerCmd
    /\ trigCalls' = trigCalls + 1
    /\ IF aoMiteChan
       THEN /\ oops' = TRUE
            /\ UNCHANGED <<irqLine, subd, cmd, aoMiteChan, otherMite, armed,
                           started, ucLeft, intEnable, status, linkc, buf,
                           fifo, supplied, output, events, trigRet>>
       ELSE IF ~AoSetupMiteDma
       THEN /\ intEnable' = intEnable \ {"OVERRUN"}
            /\ fifo' = DacFifoClear(fifo)
            /\ trigRet' = "EBUSY"
            /\ UNCHANGED <<irqLine, subd, cmd, aoMiteChan, otherMite, armed,
                           started, ucLeft, status, linkc, buf, supplied,
                           output, events, oops>>
       ELSE LET f0   == DacFifoClear(fifo)
                load == IF buf < FifoDepth - f0 THEN buf ELSE FifoDepth - f0
            IN  /\ aoMiteChan' = TRUE
                /\ fifo' = f0 + load
                /\ buf' = buf - load
                /\ linkc' \in {linkc, linkc \/ load > 0}
                /\ \E dacTimeout \in BOOLEAN :
                     IF ~HalfFull(f0 + load) \/ dacTimeout
                     THEN /\ intEnable' = intEnable \ {"OVERRUN"}
                          /\ trigRet' = IF HalfFull(f0 + load) THEN "EIO"
                                                               ELSE "EPIPE"
                          /\ UNCHANGED <<armed, started, status>>
                     ELSE /\ status' = status \ {"OVERRUN"}
                          /\ intEnable' = intEnable \cup {"OVERRUN"}
                          /\ armed' = TRUE
                          /\ started' = TRUE
                          /\ trigRet' = "OK"
                /\ UNCHANGED <<irqLine, subd, cmd, otherMite, ucLeft,
                               supplied, output, events, oops>>

\* ni_ao_reset (the cancel handler), with the registry going IDLE: release
\* the MITE channel, disarm, disable and acknowledge every B interrupt.
\* The DAC FIFO is left as it is.
AoReset ==
    /\ ~oops
    /\ UNCHANGED cdioVars
    /\ subd = "ACTIVE"
    /\ subd' = "IDLE"
    /\ ReleaseAoMiteChannel
    /\ armed' = FALSE
    /\ started' = FALSE
    /\ intEnable' = {}
    /\ status' = {}
    /\ UNCHANGED <<irqLine, cmd, otherMite, ucLeft, buf, fifo, supplied,
                   output, events, trigCalls, trigRet, oops>>

\* The user writes a sample of the waveform into the ring buffer.
Write ==
    /\ ~oops
    /\ UNCHANGED cdioVars
    /\ subd = "ACTIVE"
    /\ supplied < Total(cmd)
    /\ buf < BufSize
    /\ buf' = buf + 1
    /\ supplied' = supplied + 1
    /\ UNCHANGED <<irqLine, subd, cmd, aoMiteChan, otherMite, armed, started,
                   ucLeft, intEnable, status, linkc, fifo, output, events,
                   trigCalls, trigRet, oops>>

\* The AI, CDO and counter roles take and give back MITE channels
\* (ni_request_*_mite_channel / ni_release_*_mite_channel).
OtherMiteRequest ==
    /\ ~oops
    /\ UNCHANGED cdioVars
    /\ otherMite + (IF aoMiteChan THEN 1 ELSE 0) < NumMite
    /\ otherMite' = otherMite + 1
    /\ UNCHANGED <<irqLine, subd, cmd, aoMiteChan, armed, started, ucLeft,
                   intEnable, status, linkc, buf, fifo, supplied, output,
                   events, trigCalls, trigRet, oops>>

OtherMiteRelease ==
    /\ ~oops
    /\ UNCHANGED cdioVars
    /\ otherMite > 0
    /\ otherMite' = otherMite - 1
    /\ UNCHANGED <<irqLine, subd, cmd, aoMiteChan, armed, started, ucLeft,
                   intEnable, status, linkc, buf, fifo, supplied, output,
                   events, trigCalls, trigRet, oops>>

\* The MITE reads the ring into the DAC FIFO while the channel is armed
\* (AO_FIFO_Mode_HF_to_F only pauses it while the FIFO is at least half
\* full, which delays no update and is left out). It may complete a link
\* of the ring and set LINKC.
DmaOut ==
    /\ ~oops
    /\ UNCHANGED cdioVars
    /\ aoMiteChan
    /\ buf > 0
    /\ fifo < FifoDepth
    /\ buf' = buf - 1
    /\ fifo' = fifo + 1
    /\ linkc' \in {linkc, TRUE}
    /\ UNCHANGED <<irqLine, subd, cmd, aoMiteChan, otherMite, armed, started,
                   ucLeft, intEnable, status, supplied, output, events,
                   trigCalls, trigRet, oops>>

\* An update of the STC: the DACs take the next FIFO sample. An empty FIFO
\* latches AO_Overrun_St and, by AO_Stop_On_Overrun_Error, stops the
\* output; the last update of a counted command latches BC_TC and, by
\* AO_Trigger_Once, stops it.
Update ==
    /\ ~oops
    /\ UNCHANGED cdioVars
    /\ armed /\ started
    /\ cmd.stop = "NONE" => output < MaxUpdates
    /\ IF fifo = 0
       THEN /\ status' = status \cup {"OVERRUN"}
            /\ armed' = FALSE
            /\ started' = FALSE
            /\ UNCHANGED <<fifo, output, ucLeft>>
       ELSE /\ fifo' = fifo - 1
            /\ output' = output + 1
            /\ IF cmd.stop = "COUNT"
               THEN /\ ucLeft' = ucLeft - 1
                    /\ IF ucLeft = 1
                       THEN /\ status' = status \cup {"BC_TC"}
                            /\ armed' = FALSE
                            /\ started' = FALSE
                       ELSE UNCHANGED <<status, armed, started>>
               ELSE UNCHANGED <<ucLeft, status, armed, started>>
    /\ UNCHANGED <<irqLine, subd, cmd, aoMiteChan, otherMite, intEnable, linkc,
                   buf, supplied, events, trigCalls, trigRet, oops>>

\* ni_E_interrupt for the B side, under dev->lock: read AO_Status_1 and,
\* with the AO channel held, the MITE status, clearing LINKC;
\* ack_b_interrupt acknowledges every bit read, whichever side raised the
\* interrupt; handle_b_interrupt runs if Interrupt_B_St (an enabled bit
\* pending) or the MITE interrupt is set. aSide: the interrupt was raised
\* by the A side (or a counter) alone.
IrqB(aSide) ==
    /\ ~oops
    /\ IrqAsserted \/ aSide
    /\ LET s  == status
           lk == aoMiteChan /\ linkc
       IN  /\ status' = AckBInterrupt(s)
           /\ linkc' = (linkc /\ ~aoMiteChan)
           /\ events' = IF s \cap intEnable # {} \/ lk
                        THEN events \cup HandleB(s)
                        ELSE events
    /\ HandleCdio
    /\ UNCHANGED <<irqLine, subd, cmd, aoMiteChan, otherMite, armed, started,
                   ucLeft, intEnable, buf, fifo, supplied, output, trigCalls,
                   trigRet, oops, ioBits, cdioSubd, cdoMiteChan, cdoArmed,
                   cdioRet>>

-----------------------------------------------------------------------------
(* The correlated digital output of the DIO subdevice (M-series).         *)

\* ni_m_series_dio_insn_config, INSN_CONFIG_DIO_OUTPUT or _INPUT on line
\* ch: set or clear its bit of io_bits (and write M_Offset_DIO_Direction).
\* Nothing checks for a running CDO command.
DioInsnConfig(ch, out) ==
    /\ ~oops
    /\ ioBits' = IF out THEN ioBits \cup {ch} ELSE ioBits \ {ch}
    /\ UNCHANGED <<aoVars, otherMite, oops, cdioSubd, cdoMiteChan, cdoArmed,
                   cdoIntEnable, cdoStatus, cdoEvents, cdioRet>>

\* ni_cdio_cmd, with the registry: the command goes to an IDLE subdevice,
\* and a 0 return makes it ACTIVE with a new buffer. CDO_Reset_Bit, the
\* mode bits (TRIG_EXT sample clock, CDO_Halt_On_Error_Bit); the reset is
\* taken to clear the latched CDO status as well; -EIO when no
\* line is an output; else ni_request_cdo_mite_channel: BUG_ON if the CDO
\* channel is held, -EBUSY if no MITE channel is free.
CdioCmd ==
    /\ ~oops
    /\ cdioSubd = "IDLE"
    /\ cdoArmed' = FALSE
    /\ cdoStatus' = {}
    /\ IF ioBits = {}
       THEN /\ cdioRet' = "EIO"
            /\ UNCHANGED <<oops, cdioSubd, cdoMiteChan, cdoEvents>>
       ELSE IF cdoMiteChan
       THEN /\ oops' = TRUE
            /\ UNCHANGED <<cdioSubd, cdoMiteChan, cdoEvents, cdioRet>>
       ELSE IF ~MiteChannelFree
       THEN /\ cdioRet' = "EBUSY"
            /\ UNCHANGED <<oops, cdioSubd, cdoMiteChan, cdoEvents>>
       ELSE /\ cdoMiteChan' = TRUE
            /\ cdioSubd' = "ACTIVE"
            /\ cdoEvents' = {}
            /\ cdioRet' = "OK"
            /\ UNCHANGED oops
    /\ UNCHANGED <<aoVars, otherMite, ioBits, cdoIntEnable>>

\* ni_cdo_inttrig: under mite_channel_lock, prep and arm the DMA of the CDO
\* channel, or -EIO without one; wait up to 100 polls for CDO_FIFO_Full
\* (filled: the MITE got there in time), and on timeout ni_cdio_cancel and
\* -EIO, the registry still holding the command; else arm the CDO and
\* enable its error and empty-FIFO interrupts.
CdoInttrig ==
    /\ ~oops
    /\ cdioSubd = "ACTIVE"
    /\ IF ~cdoMiteChan
       THEN /\ cdioRet' = "EIO"
            /\ UNCHANGED <<cdoMiteChan, cdoArmed, cdoIntEnable>>
       ELSE \E filled \in BOOLEAN :
              IF filled
              THEN /\ cdoArmed' = TRUE
                   /\ cdoIntEnable' = cdoIntEnable \cup CdoBits
                   /\ cdioRet' = "OK"
                   /\ UNCHANGED cdoMiteChan
              ELSE /\ NiCdioCancel
                   /\ cdioRet' = "EIO"
    /\ UNCHANGED <<aoVars, otherMite, oops, ioBits, cdioSubd, cdoStatus,
                   cdoEvents>>

\* ni_cdio_cancel, called by the registry, which makes the subdevice IDLE.
CdioCancel ==
    /\ ~oops
    /\ cdioSubd = "ACTIVE"
    /\ cdioSubd' = "IDLE"
    /\ NiCdioCancel
    /\ UNCHANGED <<aoVars, otherMite, oops, ioBits, cdoStatus, cdoEvents,
                   cdioRet>>

\* The armed CDO outputs samples faster than its DMA refills the FIFO:
\* CDO_FIFO_Empty_Bit latches.
CdoFifoEmpty ==
    /\ ~oops
    /\ cdoArmed
    /\ cdoStatus' = cdoStatus \cup {"EMPTY"}
    /\ UNCHANGED <<aoVars, otherMite, oops, ioBits, cdioSubd, cdoMiteChan,
                   cdoArmed, cdoIntEnable, cdoEvents, cdioRet>>

\* The MITE refills the FIFO of the armed CDO from a held channel.
CdoFifoRefill ==
    /\ ~oops
    /\ cdoArmed /\ cdoMiteChan
    /\ cdoStatus' = cdoStatus \ {"EMPTY"}
    /\ UNCHANGED <<aoVars, otherMite, oops, ioBits, cdioSubd, cdoMiteChan,
                   cdoArmed, cdoIntEnable, cdoEvents, cdioRet>>

\* A sample clock edge with the FIFO empty: CDO_Underflow_Bit latches and,
\* by CDO_Halt_On_Error_Bit of ni_cdio_cmd, the CDO stops.
CdoUnderflow ==
    /\ ~oops
    /\ cdoArmed /\ "EMPTY" \in cdoStatus
    /\ cdoStatus' = cdoStatus \cup {"ERROR"}
    /\ cdoArmed' = FALSE
    /\ UNCHANGED <<aoVars, otherMite, oops, ioBits, cdioSubd, cdoMiteChan,
                   cdoIntEnable, cdoEvents, cdioRet>>

Next ==
    \/ \E c \in Cmds : AoCmd(c)
    \/ AoInttrig
    \/ AoReset
    \/ Write
    \/ OtherMiteRequest
    \/ OtherMiteRelease
    \/ DmaOut
    \/ Update
    \/ \E aSide \in BOOLEAN : IrqB(aSide)
    \/ \E ch \in DioChans, out \in BOOLEAN : DioInsnConfig(ch, out)
    \/ CdioCmd
    \/ CdoInttrig
    \/ CdioCancel
    \/ CdoFifoEmpty
    \/ CdoFifoRefill
    \/ CdoUnderflow

\* The update clock and the MITE run by themselves; the interrupt line is
\* level-triggered and stays asserted until acknowledged. The user (write,
\* trigger, cancel) and the other roles get no fairness.
Fairness == WF_vars(DmaOut) /\ WF_vars(Update) /\ WF_vars(IrqB(FALSE))

Spec == Init /\ [][Next]_vars /\ Fairness

-----------------------------------------------------------------------------
(* Properties.                                                             *)

TypeOK ==
    /\ irqLine \in BOOLEAN
    /\ subd \in {"IDLE", "ACTIVE"}
    /\ cmd \in Cmds \cup {NoCmd}
    /\ aoMiteChan \in BOOLEAN /\ linkc \in BOOLEAN /\ oops \in BOOLEAN
    /\ otherMite \in 0..NumMite
    /\ armed \in BOOLEAN /\ started \in BOOLEAN
    /\ ucLeft \in 0..Total(cmd)
    /\ intEnable \subseteq StatusBits /\ status \subseteq StatusBits
    /\ buf \in 0..BufSize /\ fifo \in 0..FifoDepth
    /\ supplied \in 0..Total(cmd) /\ output \in 0..Total(cmd)
    /\ events \subseteq {"ERROR", "EOA"}
    /\ trigCalls \in 0..MaxTrigPerCmd /\ trigRet \in TrigResults
    /\ ioBits \subseteq DioChans /\ cdioSubd \in {"IDLE", "ACTIVE"}
    /\ cdoMiteChan \in BOOLEAN /\ cdoArmed \in BOOLEAN
    /\ cdoIntEnable \subseteq CdoBits /\ cdoStatus \subseteq CdoBits
    /\ cdoEvents \subseteq {"ERROR"}
    /\ cdioRet \in {"NONE", "OK", "EIO", "EBUSY"}

\* Once ni_ao_inttrig has started the output, and as long as no ERROR was
\* posted, every sample the user wrote for the command is in the ring, in
\* the DAC FIFO or output, and nothing else is output: the FIFO clear of
\* ni_ao_inttrig drops what a cancelled command left there, which
\* ni_ao_cmd and ni_ao_reset keep.
AoSamplesAccounted ==
    trigRet = "OK" /\ "ERROR" \notin events =>
        supplied = buf + fifo + output

\* A started counted output ends: handle_b_interrupt posts EOA (all
\* updates done) or ERROR (underrun), or the command is cancelled.
AllUpdatesOrError ==
    (subd = "ACTIVE" /\ started /\ cmd.stop = "COUNT")
        ~> ("EOA" \in events \/ "ERROR" \in events \/ subd = "IDLE")

\* Neither BUG_ON(devpriv->ao_mite_chan) of ni_request_ao_mite_channel
\* nor BUG_ON(devpriv->cdo_mite_chan) of ni_request_cdo_mite_channel
\* fires.
NoBugOn == ~oops

\* The CDO generates only from a MITE channel it holds, for an ACTIVE
\* command: the timeout path of ni_cdo_inttrig, a cancel and a new
\* ni_cdio_cmd all leave it disarmed, so a released channel (which AO or
\* the AI may take next) is never read by a running CDO.
CdoArmedHoldsChannel == cdoArmed => cdoMiteChan /\ cdioSubd = "ACTIVE"

\* An underflow of an active CDO command is reported: the next
\* ni_E_interrupt runs handle_cdio_interrupt, which posts ERROR, unless
\* ni_cdio_cancel runs first (a cancel, or a later ni_cdo_inttrig whose
\* FIFO wait timed out and returned -EIO after clearing the enables).
CdoErrorReported ==
    (cdioSubd = "ACTIVE" /\ "ERROR" \in cdoStatus)
        ~> ("ERROR" \in cdoEvents \/ ~cdoMiteChan)

====
