---------------------------- MODULE NiAiCommand ----------------------------
(***************************************************************************)
(* The analog-input acquisition command of the NI E/M-series driver,      *)
(* src/ksrc/drivers/comedi/national_instruments/mio_common.c, in the      *)
(* build with the MITE DMA controller (CONFIG_XENO_DRIVERS_COMEDI_NI_MITE, *)
(* the only build in which shutdown_ai_command links).                    *)
(*                                                                         *)
(* Three contexts interleave:                                              *)
(*  - the calling thread: ni_ai_cmd, ni_ai_cancel, ni_ai_inttrig and the   *)
(*    consumer reading the Comedi buffer;                                  *)
(*  - the DAQ-STC and the MITE, which convert, latch status bits and move *)
(*    FIFO words into the ring buffer on their own;                        *)
(*  - the interrupt handler ni_E_interrupt, split into the status read and *)
(*    acknowledge (IrqEnter) and the A-side handling (IrqHandle), between  *)
(*    which the hardware keeps running.                                    *)
(*                                                                         *)
(* Data are counts of samples: a sample is in the FIFO, moved by the DMA  *)
(* into the ring but not yet committed (dma), or committed to the Comedi  *)
(* buffer (buf, with delivered counting every commit of the command).      *)
(***************************************************************************)
EXTENDS Naturals, FiniteSets

CONSTANTS
    NbChan,          \* cmd->nb_chan: conversions per scan
    MaxScans,        \* largest stop_arg of a TRIG_COUNT command
    FifoDepth,       \* words of the AI FIFO (half full is FifoDepth \div 2)
    BufSize,         \* samples the Comedi ring buffer holds
    NumMite,         \* MITE DMA channels shared by AI, AO, CDO and GPCT
    MaxConversions   \* bound on conversions of a TRIG_NONE command

ASSUME NbChan \in Nat \ {0} /\ MaxScans \in Nat \ {0} /\ FifoDepth >= 2
ASSUME BufSize \in Nat /\ NumMite \in Nat /\ MaxConversions \in Nat

\* The commands cmdtest lets through, abstracted to what ni_ai_cmd branches
\* on: the start source, the stop source and count (stop_arg is forced to 0
\* for TRIG_NONE) and the TRIG_WAKE_EOS flag.
Cmds == [start : {"NOW", "INT", "EXT"}, stop : {"COUNT"},
         arg : 1..MaxScans, wakeEos : BOOLEAN]
        \cup [start : {"NOW", "INT", "EXT"}, stop : {"NONE"},
              arg : {0}, wakeEos : BOOLEAN]
NoCmd == [start |-> "NOW", stop |-> "NONE", arg |-> 0, wakeEos |-> FALSE]

\* Status bits of AI_Status_1_Register the handler acts on; "OVERFLOW"
\* stands for AI_Overflow_St and, as an enable bit, for
\* AI_Error_Interrupt_Enable.
StatusBits == {"OVERFLOW", "SC_TC", "STOP"}

VARIABLES
    irqLine,       \* comedi_get_irq(dev) != COMEDI_IRQ_UNUSED (set at attach)
    subd,          \* subdevice registry state: "IDLE" or "ACTIVE"
    cmd,           \* the command last handed to ni_ai_cmd
    aiContinuous,  \* devpriv->ai_continuous
    endOnEos,      \* devpriv->ai_cmd2 & AI_End_On_End_Of_Scan
    aimode,        \* devpriv->aimode: "HALF_FULL" or "SCAN"
    intEnable,     \* devpriv->int_a_enable_reg, restricted to StatusBits
    aiMiteChan,    \* devpriv->ai_mite_chan != NULL (channel held and armed)
    otherMite,     \* MITE channels held by the other transfer roles
    armed,         \* STC: SC/SI/SI2/DIV counters armed
    started,       \* STC: START1 received
    scansLeft,     \* STC: scans until SC_TC (scan counter)
    inScan,        \* STC: conversions done in the current scan
    fifoMode,      \* AI_Mode_3 FIFO mode: "NE" or "HF_TO_E"
    status,        \* STC: latched AI status bits
    linkc,         \* MITE: CHSR_LINKC of the AI channel
    d,             \* data path: [fifo, req, dma, buf, delivered, events]
    irqPhase,      \* "IDLE" or "HANDLE": inside ni_E_interrupt
    snapStatus,    \* a_status read by ni_E_interrupt
    snapLinkc,     \* ai_mite_status & CHSR_LINKC read by ni_E_interrupt
    snapIntA,      \* a_status & Interrupt_A_St
    converted,     \* history: conversions of the current command
    errorIrqs      \* history: error interrupts of the command (saturates)

vars == <<irqLine, subd, cmd, aiContinuous, endOnEos, aimode, intEnable,
          aiMiteChan, otherMite, armed, started, scansLeft, inScan, fifoMode,
          status, linkc, d, irqPhase, snapStatus, snapLinkc, snapIntA,
          converted, errorIrqs>>

MaxErrorIrqs == 2

-----------------------------------------------------------------------------
(* Hardware behaviour of the DAQ-STC and the MITE (not driver code).       *)

\* DMA request line of the AI FIFO: in AI_FIFO_Mode_NE while not empty, in
\* AI_FIFO_Mode_HF_to_E from half full until empty.
DmaRequest(mode, f, prev) ==
    IF mode = "NE" THEN f > 0
    ELSE f > 0 /\ (prev \/ 2 * f >= FifoDepth)

\* Interrupt_A_St: a latched status bit whose interrupt is enabled.
IntAPending == status \cap intEnable # {}

\* The interrupt line is asserted while an enabled A status bit is latched
\* or the MITE channel signals link complete.
IrqAsserted == IntAPending \/ (aiMiteChan /\ linkc)


-----------------------------------------------------------------------------
(* Driver helpers, as functions of the data-path record d.                 *)

\* comedi_buf_put: copy n samples into the Comedi buffer; it returns an
\* error and copies nothing when the free space is short.
BufPut(dd, n) ==
    IF dd.buf + n <= BufSize
    THEN [dd EXCEPT !.buf = @ + n, !.delivered = @ + n]
    ELSE dd

\* Mutant of SyncAiDma: the committed count is not reset after a commit.
SyncAiDmaNoReset(dd) ==
    IF ~aiMiteChan THEN dd
    ELSE IF dd.buf + dd.dma <= BufSize
         THEN [dd EXCEPT !.buf = @ + dd.dma, !.delivered = @ + dd.dma]
         ELSE [dd EXCEPT !.events = @ \cup {"ERROR"}]

\* ni_sync_ai_dma: under mite_channel_lock, if the AI channel is held,
\* mite_sync_input_dma commits what the DMA wrote; an overwrite of the
\* unread part of the ring raises COMEDI_BUF_ERROR and commits nothing.
SyncAiDma(dd) ==
    IF ~aiMiteChan THEN dd
    ELSE IF dd.buf + dd.dma <= BufSize
         THEN [dd EXCEPT !.buf = @ + dd.dma, !.delivered = @ + dd.dma,
                         !.dma = 0]
         ELSE [dd EXCEPT !.events = @ \cup {"ERROR"}]

\* ni_ai_drain_dma: if the AI channel is held, poll until the FIFO is empty
\* and nothing is in transit; the MITE empties the FIFO only while the DMA
\* request is asserted, otherwise the poll times out. Then ni_sync_ai_dma.
AiDrainDma(dd) ==
    LET drained == IF aiMiteChan /\ dd.req
                   THEN [dd EXCEPT !.dma = @ + dd.fifo, !.fifo = 0,
                                   !.req = FALSE]
                   ELSE dd
    IN  SyncAiDma(drained)

\* ni_handle_fifo_dregs (E series): read the FIFO by programmed I/O until
\* it is empty and comedi_buf_put each chunk, ignoring its return value.
FifoDregs(dd) ==
    IF dd.fifo = 0 THEN dd
    ELSE BufPut([dd EXCEPT !.fifo = 0, !.req = FALSE], dd.fifo)

\* shutdown_ai_command: drain the DMA, then the FIFO dregs; the acquisition
\* itself is not stopped ("TODO: stop the acquisiton").
ShutdownAiCommand(dd) == FifoDregs(AiDrainDma(dd))

\* ni_handle_eos: in AIMODE_SCAN sync the DMA; shut down if the command
\* ends on its first end of scan.
HandleEos(dd) ==
    LET synced == IF aimode = "SCAN" THEN SyncAiDma(dd) ELSE dd
    IN  IF endOnEos THEN ShutdownAiCommand(synced) ELSE synced

\* Mutant of HandleA: SC_TC of a counted command does not shut down.
HandleANoTcShutdown(dd, s, lk) ==
    LET synced == IF lk THEN SyncAiDma(dd) ELSE dd
    IN  IF "OVERFLOW" \in s
        THEN [ShutdownAiCommand(synced) EXCEPT !.events = @ \cup {"ERROR"}]
        ELSE IF "STOP" \in s THEN HandleEos(synced) ELSE synced

\* handle_a_interrupt for status s and LINKC seen lk: sync on LINKC; an
\* error shuts down, raises COMEDI_BUF_ERROR and returns; SC_TC of a counted
\* command shuts down; AI_STOP handles the end of scan.
HandleA(dd, s, lk) ==
    LET synced == IF lk THEN SyncAiDma(dd) ELSE dd
    IN  IF "OVERFLOW" \in s
        THEN [ShutdownAiCommand(synced) EXCEPT !.events = @ \cup {"ERROR"}]
        ELSE LET tc == IF "SC_TC" \in s /\ ~aiContinuous
                       THEN ShutdownAiCommand(synced) ELSE synced
             IN  IF "STOP" \in s THEN HandleEos(tc) ELSE tc

\* ack_a_interrupt: acknowledges SC_TC, START1, START and STOP; there is no
\* AI_Error_Interrupt_Ack among them.
AckAInterrupt(s) == s \ {"SC_TC", "STOP"}

\* Mutant of StopCount: stop_arg loaded without the - 1.
StopCountNoDecrement(c) == c.arg

\* ni_ai_cmd, TRIG_COUNT: stop_count = stop_arg - 1 is loaded into the
\* scan counter, which reaches terminal count after stop_count + 1 scans.
StopCount(c) == c.arg - 1

\* Mutant of ClearAiFifo: the FIFO clear is left out.
ClearAiFifoNoop(dd) == dd

\* ni_clear_ai_fifo: ADC_FIFO_Clear empties the FIFO (and so drops the DMA
\* request).
ClearAiFifo(dd) == [dd EXCEPT !.fifo = 0, !.req = FALSE]

\* Mutant of ReleaseAiMiteChannel: the channel pointer is not cleared.
ReleaseAiMiteChannelKeep ==
    /\ aiMiteChan' = aiMiteChan
    /\ linkc' = linkc

\* ni_release_ai_mite_channel: if the AI channel is held, deselect it,
\* mite_release_channel (which stops it) and clear the pointer.
ReleaseAiMiteChannel ==
    /\ aiMiteChan' = FALSE
    /\ linkc' = FALSE

\* ni_request_ai_mite_channel: mite_request_channel finds a free channel.
MiteChannelFree == otherMite < NumMite

\* ni_ai_setup_MITE_dma: request the AI channel (-EBUSY when none is
\* free), prepare and arm it; TRUE when the channel is held afterwards.
AiSetupMiteDma == MiteChannelFree

\* ni_ai_cmd: AIMODE_SCAN when the caller asked for TRIG_WAKE_EOS or the
\* command ends on its first end of scan, else AIMODE_HALF_FULL.
AiMode(c, eoe) == IF c.wakeEos \/ eoe THEN "SCAN" ELSE "HALF_FULL"

\* ni_ai_cmd, MITE build: AI_Mode_3 FIFO mode of each aimode (DMA requests
\* from half full until empty, or on not empty).
AiFifoMode(mode) == IF mode = "SCAN" THEN "NE" ELSE "HF_TO_E"

\* ni_ai_cmd with an irq: error and SC_TC interrupts (no FIFO interrupt in
\* the MITE build), plus AI_STOP in AIMODE_SCAN, ORed into the enables by
\* ni_set_bits.
AiIntEnable(mode) ==
    {"OVERFLOW", "SC_TC"} \cup (IF mode = "SCAN" THEN {"STOP"} ELSE {})

\* ni_ai_cmd: START1 is pulsed only for TRIG_NOW, and only once the DMA
\* set-up succeeded; TRIG_EXT and TRIG_INT wait for their trigger.
AiStartNow(c, dma) == dma /\ c.start = "NOW"

-----------------------------------------------------------------------------
Init ==
    /\ irqLine \in BOOLEAN
    /\ subd = "IDLE"
    /\ cmd = NoCmd
    /\ aiContinuous = FALSE
    /\ endOnEos = FALSE
    /\ aimode = "HALF_FULL"
    /\ intEnable = {}
    /\ aiMiteChan = FALSE
    /\ otherMite = 0
    /\ armed = FALSE
    /\ started = FALSE
    /\ scansLeft = 0
    /\ inScan = 0
    /\ fifoMode = "NE"
    /\ status = {}
    /\ linkc = FALSE
    /\ d = [fifo |-> 0, req |-> FALSE, dma |-> 0, buf |-> 0,
            delivered |-> 0, events |-> {}]
    /\ irqPhase = "IDLE"
    /\ snapStatus = {}
    /\ snapLinkc = FALSE
    /\ snapIntA = FALSE
    /\ converted = 0
    /\ errorIrqs = 0


-----------------------------------------------------------------------------
(* Calling thread.                                                         *)

\* ni_ai_cmd (the registry hands a command to an idle subdevice; the
\* interrupt handler is not running, the caller holds dev->lock). Without
\* an irq it returns -EIO. Otherwise it clears the FIFO, programs the stop
\* count, the aimode and FIFO mode, acknowledges all A interrupts, ORs the
\* enables in, arms the counters, and only then ni_ai_setup_MITE_dma, whose
\* -EBUSY is returned as is; on success TRIG_NOW pulses START1. The
\* registry returns to IDLE when ni_ai_cmd fails; the Comedi buffer is
\* reset for the new acquisition.
AiCmd(c) ==
    /\ subd = "IDLE"
    /\ irqPhase = "IDLE"
    /\ cmd' = c
    /\ IF ~irqLine
       THEN UNCHANGED <<subd, aiContinuous, endOnEos, aimode, intEnable,
                        aiMiteChan, armed, started, scansLeft, inScan,
                        fifoMode, status, linkc, d, converted, errorIrqs>>
       ELSE LET eoe  == c.stop = "COUNT" /\ StopCount(c) = 0
                mode == AiMode(c, eoe)
                dma  == AiSetupMiteDma
            IN  /\ endOnEos' = eoe
                /\ aiContinuous' = (c.stop = "NONE")
                /\ aimode' = mode
                /\ fifoMode' = AiFifoMode(mode)
                /\ intEnable' = intEnable \cup AiIntEnable(mode)
                /\ status' = {}
                /\ scansLeft' = IF c.stop = "COUNT" THEN StopCount(c) + 1
                                ELSE 0
                /\ inScan' = 0
                /\ armed' = TRUE
                /\ aiMiteChan' = dma
                /\ linkc' = FALSE
                /\ started' = AiStartNow(c, dma)
                /\ subd' = IF dma THEN "ACTIVE" ELSE "IDLE"
                /\ d' = [ClearAiFifo(d) EXCEPT !.dma = 0, !.buf = 0,
                                               !.delivered = 0, !.events = {}]
                /\ converted' = 0
                /\ errorIrqs' = 0
    /\ UNCHANGED <<irqLine, otherMite, irqPhase, snapStatus, snapLinkc,
                   snapIntA>>

\* ni_ai_inttrig(trignum = 0): writes AI_START1_Pulse whatever the state of
\* the subdevice; the STC starts if it is armed and not yet started. No
\* trigger hook is installed by ni_ai_cmd (TODO at TRIG_INT), so any
\* caller of the exported function may issue it.
AiInttrig ==
    /\ armed /\ ~started
    /\ started' = TRUE
    /\ UNCHANGED <<irqLine, subd, cmd, aiContinuous, endOnEos, aimode,
                   intEnable, aiMiteChan, otherMite, armed, scansLeft, inScan,
                   fifoMode, status, linkc, d, irqPhase, snapStatus,
                   snapLinkc, snapIntA, converted, errorIrqs>>

\* ni_ai_reset: release the AI MITE channel (what the DMA wrote and nobody
\* committed is dropped), AI_Reset, disable every AI interrupt, clear the
\* FIFO, disarm, FIFO mode back to non-empty, acknowledge every A interrupt
\* including the error.
AiReset ==
    /\ ReleaseAiMiteChannel
    /\ intEnable' = {}
    /\ d' = [ClearAiFifo(d) EXCEPT !.dma = 0]
    /\ armed' = FALSE
    /\ started' = FALSE
    /\ scansLeft' = 0
    /\ inScan' = 0
    /\ fifoMode' = "NE"
    /\ status' = {}

\* ni_ai_cancel: ni_ai_reset; the registry is back to IDLE. The caller
\* holds dev->lock, so the handler is not running.
AiCancel ==
    /\ irqPhase = "IDLE"
    /\ AiReset
    /\ subd' = "IDLE"
    /\ UNCHANGED <<irqLine, cmd, aiContinuous, endOnEos, aimode, otherMite,
                   irqPhase, snapStatus, snapLinkc, snapIntA, converted,
                   errorIrqs>>

\* The consumer reads one sample out of the Comedi buffer.
Read ==
    /\ d.buf > 0
    /\ d' = [d EXCEPT !.buf = @ - 1]
    /\ UNCHANGED <<irqLine, subd, cmd, aiContinuous, endOnEos, aimode,
                   intEnable, aiMiteChan, otherMite, armed, started,
                   scansLeft, inScan, fifoMode, status, linkc, irqPhase,
                   snapStatus, snapLinkc, snapIntA, converted, errorIrqs>>

\* Another transfer role (AO, CDO, GPCT) takes or gives back a MITE channel.
OtherMiteRequest ==
    /\ otherMite + (IF aiMiteChan THEN 1 ELSE 0) < NumMite
    /\ otherMite' = otherMite + 1
    /\ UNCHANGED <<irqLine, subd, cmd, aiContinuous, endOnEos, aimode,
                   intEnable, aiMiteChan, armed, started, scansLeft, inScan,
                   fifoMode, status, linkc, d, irqPhase, snapStatus,
                   snapLinkc, snapIntA, converted, errorIrqs>>

OtherMiteRelease ==
    /\ otherMite > 0
    /\ otherMite' = otherMite - 1
    /\ UNCHANGED <<irqLine, subd, cmd, aiContinuous, endOnEos, aimode,
                   intEnable, aiMiteChan, armed, started, scansLeft, inScan,
                   fifoMode, status, linkc, d, irqPhase, snapStatus,
                   snapLinkc, snapIntA, converted, errorIrqs>>


-----------------------------------------------------------------------------
(* Hardware.                                                               *)

\* An external START1 edge on the selected PFI line.
ExtTrigger ==
    /\ armed /\ ~started /\ cmd.start = "EXT"
    /\ started' = TRUE
    /\ UNCHANGED <<irqLine, subd, cmd, aiContinuous, endOnEos, aimode,
                   intEnable, aiMiteChan, otherMite, armed, scansLeft, inScan,
                   fifoMode, status, linkc, d, irqPhase, snapStatus,
                   snapLinkc, snapIntA, converted, errorIrqs>>

\* One conversion of the started STC. A full FIFO latches AI_Overflow_St
\* and the sample is lost; the last conversion of a scan latches AI_STOP;
\* the last scan of a counted acquisition latches SC_TC and, with
\* AI_Trigger_Once, disarms the counters. A continuous acquisition is cut
\* off after MaxConversions.
Convert ==
    /\ armed /\ started
    /\ aiContinuous => converted < MaxConversions
    /\ LET full == d.fifo = FifoDepth
           f    == IF full THEN d.fifo ELSE d.fifo + 1
           eos  == inScan = NbChan - 1
           tc   == eos /\ ~aiContinuous /\ scansLeft = 1
       IN  /\ d' = [d EXCEPT !.fifo = f, !.req = DmaRequest(fifoMode, f, @)]
           /\ inScan' = IF eos THEN 0 ELSE inScan + 1
           /\ scansLeft' = IF eos /\ ~aiContinuous THEN scansLeft - 1
                           ELSE scansLeft
           /\ status' = status \cup (IF full THEN {"OVERFLOW"} ELSE {})
                               \cup (IF eos THEN {"STOP"} ELSE {})
                               \cup (IF tc THEN {"SC_TC"} ELSE {})
           /\ armed' = ~tc
    /\ converted' = converted + 1
    /\ UNCHANGED <<irqLine, subd, cmd, aiContinuous, endOnEos, aimode,
                   intEnable, aiMiteChan, otherMite, started, fifoMode, linkc,
                   irqPhase, snapStatus, snapLinkc, snapIntA, errorIrqs>>

\* The MITE moves one word from the FIFO into the ring while the DMA
\* request is asserted; a finished link sets CHSR_LINKC.
DmaXfer ==
    /\ aiMiteChan /\ d.req
    /\ LET f == d.fifo - 1
       IN  d' = [d EXCEPT !.fifo = f, !.req = DmaRequest(fifoMode, f, @),
                          !.dma = @ + 1]
    /\ linkc' \in {linkc, TRUE}
    /\ UNCHANGED <<irqLine, subd, cmd, aiContinuous, endOnEos, aimode,
                   intEnable, aiMiteChan, otherMite, armed, started,
                   scansLeft, inScan, fifoMode, status, irqPhase, snapStatus,
                   snapLinkc, snapIntA, converted, errorIrqs>>

-----------------------------------------------------------------------------
(* Interrupt context.                                                      *)

\* ni_E_interrupt up to the handlers: with dev->lock held, read a_status;
\* under mite_channel_lock read the AI channel status and clear LINKC;
\* ack_a_interrupt.
IrqEnter ==
    /\ irqLine /\ irqPhase = "IDLE" /\ IrqAsserted
    /\ snapStatus' = status
    /\ snapIntA' = IntAPending
    /\ snapLinkc' = (aiMiteChan /\ linkc)
    /\ linkc' = FALSE
    /\ status' = AckAInterrupt(status)
    /\ irqPhase' = "HANDLE"
    /\ UNCHANGED <<irqLine, subd, cmd, aiContinuous, endOnEos, aimode,
                   intEnable, aiMiteChan, otherMite, armed, started,
                   scansLeft, inScan, fifoMode, d, converted, errorIrqs>>

\* ni_E_interrupt, the rest: handle_a_interrupt if Interrupt_A_St or the
\* MITE interrupt was seen (the B side, GPCT and CDIO handlers touch no AI
\* state), then release dev->lock.
IrqHandle ==
    /\ irqPhase = "HANDLE"
    /\ LET run == snapIntA \/ snapLinkc
       IN  /\ d' = IF run THEN HandleA(d, snapStatus, snapLinkc) ELSE d
           /\ errorIrqs' = IF run /\ "OVERFLOW" \in snapStatus
                           /\ errorIrqs < MaxErrorIrqs
                           THEN errorIrqs + 1 ELSE errorIrqs
    /\ irqPhase' = "IDLE"
    /\ UNCHANGED <<irqLine, subd, cmd, aiContinuous, endOnEos, aimode,
                   intEnable, aiMiteChan, otherMite, armed, started,
                   scansLeft, inScan, fifoMode, status, linkc, snapStatus,
                   snapLinkc, snapIntA, converted>>

-----------------------------------------------------------------------------
Next ==
    \/ \E c \in Cmds : AiCmd(c)
    \/ AiInttrig
    \/ AiCancel
    \/ Read
    \/ OtherMiteRequest
    \/ OtherMiteRelease
    \/ ExtTrigger
    \/ Convert
    \/ DmaXfer
    \/ IrqEnter
    \/ IrqHandle

\* The STC clock, the MITE and interrupt delivery make progress on their
\* own; the calling thread, the consumer and external triggers need not.
Fairness ==
    /\ WF_vars(Convert)
    /\ WF_vars(DmaXfer)
    /\ WF_vars(IrqEnter)
    /\ WF_vars(IrqHandle)

Spec == Init /\ [][Next]_vars /\ Fairness

-----------------------------------------------------------------------------
(* Properties.                                                             *)

TypeOK ==
    /\ irqLine \in BOOLEAN
    /\ subd \in {"IDLE", "ACTIVE"}
    /\ cmd \in Cmds \cup {NoCmd}
    /\ aiContinuous \in BOOLEAN /\ endOnEos \in BOOLEAN
    /\ aimode \in {"HALF_FULL", "SCAN"}
    /\ intEnable \subseteq StatusBits
    /\ aiMiteChan \in BOOLEAN
    /\ otherMite \in 0..NumMite
    /\ armed \in BOOLEAN /\ started \in BOOLEAN
    /\ scansLeft \in 0..MaxScans /\ inScan \in 0..(NbChan - 1)
    /\ fifoMode \in {"NE", "HF_TO_E"}
    /\ status \subseteq StatusBits
    /\ linkc \in BOOLEAN
    /\ d.fifo \in 0..FifoDepth /\ d.req \in BOOLEAN
    /\ d.dma \in Nat /\ d.buf \in 0..BufSize /\ d.delivered \in Nat
    /\ d.events \subseteq {"ERROR"}
    /\ irqPhase \in {"IDLE", "HANDLE"}
    /\ snapStatus \subseteq StatusBits
    /\ snapLinkc \in BOOLEAN /\ snapIntA \in BOOLEAN
    /\ converted \in Nat /\ errorIrqs \in 0..MaxErrorIrqs


\* Samples requested by the current counted command.
Requested == cmd.arg * NbChan

\* ni_ai_cmd loads stop_arg - 1 into the scan counter and the STC stops on
\* its terminal count, so the Comedi buffer never receives more samples
\* than the counted command asked for, whatever the interrupt handler, the
\* drain and the dregs read do.
NoOverDelivery ==
    cmd.stop = "COUNT" => d.delivered <= Requested

\* While a command is active and no error has been raised or latched,
\* every sample the STC converted is in the FIFO, written by the MITE and
\* not yet committed, or committed to the Comedi buffer: the handler's
\* syncs, drain and dregs lose and duplicate nothing.
SamplesAccounted ==
    (subd = "ACTIVE" /\ "ERROR" \notin d.events /\ "OVERFLOW" \notin status)
        => converted = d.fifo + d.dma + d.delivered

\* ni_request_ai_mite_channel BUG()s if the AI channel is still held; the
\* registry starts a command only on an idle subdevice, so an idle
\* subdevice must hold no AI MITE channel (ni_ai_reset released it and a
\* failed ni_ai_cmd never got one).
IdleHoldsNoMiteChannel ==
    subd = "IDLE" => ~aiMiteChan

\* A started counted acquisition ends with every requested sample in the
\* Comedi buffer, unless an error is raised or the command is cancelled:
\* SC_TC and end-of-scan handling must drain both the DMA and the FIFO
\* dregs left below the half-full DMA threshold.
AllScansDelivered ==
    (subd = "ACTIVE" /\ started /\ cmd.stop = "COUNT")
        ~> (d.delivered = Requested \/ "ERROR" \in d.events
            \/ subd = "IDLE")

\* The sample limit of the command last handed to ni_ai_cmd: what a
\* counted command asks for, and the cut-off of a continuous one.
SampleLimit == IF cmd.stop = "COUNT" THEN Requested ELSE MaxConversions

Acquisition == INSTANCE AiAcquisition
                   WITH Limits    <- {n * NbChan : n \in 1..MaxScans}
                                     \cup {MaxConversions},
                        state     <- subd,
                        limit     <- SampleLimit,
                        delivered <- d.delivered,
                        errored   <- "ERROR" \in d.events

\* Spec: a subdevice is idle or runs exactly one command, and a command
\* whose start fails leaves nothing running; so the Comedi buffer receives
\* samples, and error events, only while a command is active. ni_ai_cmd
\* arms the counters and enables the SC_TC and error interrupts before
\* ni_ai_setup_MITE_dma can fail with -EBUSY; a trigger then starts an
\* acquisition the registry does not know of, and the SC_TC handler's
\* dregs read puts its samples into the buffer.
AiAcquisitionRefined == Acquisition!Spec

\* Spec: a data-integrity error is fatal to the command: shutdown drains,
\* disarms and releases the DMA. shutdown_ai_command only drains.
ErrorShutsDown ==
    "ERROR" \in d.events => (~armed /\ ~aiMiteChan)

\* Spec: the handler acknowledges the status bits it acts on, so one
\* overflow is reported once. ack_a_interrupt never writes
\* AI_Error_Interrupt_Ack, so the overflow stays latched and re-enters.
ErrorHandledOnce ==
    errorIrqs <= 1

=============================================================================
