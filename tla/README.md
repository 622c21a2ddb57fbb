# TLA+ models of the Comedi acquisition engine (NI E/M-series driver)

This directory holds TLA+ models of the Xenomai Comedi acquisition engine. They
are checked with TLC. The engine is in
`src/ksrc/drivers/comedi/national_instruments/mio_common.c` and is driven
through the buffer and IRQ facilities declared in
`src/ksrc/skins/comedi/driver_facilities.c`.

## The system

### Parts and how they interact

- **Command validator** (`ni_ai_cmdtest`, `ni_ao_cmdtest`, `ni_cdio_cmdtest`)
  - Clamps and quantises a `comedi_cmd_t`, in passes that return on the first
    correction.
  - Timer arguments go through `ni_ns_to_timer` and `ni_timer_to_ns`.
- **Command executor** (`ni_ai_cmd`, `ni_ao_cmd`, `ni_cdio_cmd`)
  - Programs the DAQ-STC: start, stop, scan and convert sources, the scan
    count, the FIFO mode and the interrupt enables.
  - Arms the counters.
  - Acquires a MITE DMA channel from a pool shared by AI, AO and CDO
    (`ni_request_*_mite_channel`; the counter command bodies are compiled
    out and take none).
  - Pulses START1 for `TRIG_NOW`.
  - `ni_ai_inttrig`, `ni_ao_inttrig` and `ni_cdo_inttrig` are exported trigger
    functions.
- **Cancel** (`ni_ai_cancel`/`ni_ai_reset`, `ni_ao_reset`, `ni_cdio_cancel`)
  - Resets the side.
  - Disables its interrupts.
  - Clears its FIFO.
  - Releases its MITE channel.
- **Interrupt handler** (`ni_E_interrupt`)
  - Under `dev->lock`, it reads the A and B status, reads and clears the MITE
    LINKC bit, then acknowledges.
  - It then runs `handle_a_interrupt`, `handle_b_interrupt`, the counter
    handlers and `handle_cdio_interrupt`.
  - On the A side it handles LINKC (DMA sync), errors (shutdown and ERROR
    event), SC_TC (shutdown) and end of scan (`ni_handle_eos`).
  - `shutdown_ai_command` drains the DMA (`ni_ai_drain_dma`) and then reads the
    FIFO dregs by programmed I/O (`ni_handle_fifo_dregs`).
- **Ring buffer and events** (driver facilities; only prototypes and
  documentation are in the repository)
  - `comedi_buf_put` copies into the ring.
  - The DMA prepare/commit pairs account for what the MITE wrote.
  - `comedi_buf_evt` posts ERROR.
- **Subdevice registry** (outside the repository)
  - A subdevice is IDLE or ACTIVE.
  - A command is handed only to an IDLE subdevice.
  - `cancel` (called with the device lock held) returns it to IDLE, and a
    failing `do_cmd` leaves it IDLE.
- **Register shadow copies** (`ni_set_bitfield`)
  - Read-modify-write of soft copies shared by all of the above, under
    `soft_reg_copy_lock` for the whole read-modify-write. Every caller makes
    one such call, so the models take it as part of one atomic step.

### Hard behaviours

- The hardware, the DMA engine and the interrupt handler run concurrently with
  the calling thread.
- The handler acts on a status snapshot while the hardware keeps converting.
- DMA requests depend on the FIFO mode. In half-full-to-empty mode the last
  samples stay in the FIFO until the dregs read.
- The MITE channel pool can be exhausted by other roles.
- The error and overflow paths.

Only the MITE (DMA) build is modelled: `shutdown_ai_command` calls
`ni_ai_drain_dma`, which exists only with `CONFIG_XENO_DRIVERS_COMEDI_NI_MITE`.

## Modules

### `NiAiCommand`: AI command, interrupt handler and DMA path

**State**
- Registry: `subd`.
- Driver: `cmd`, `aiContinuous`, `endOnEos` (`ai_cmd2 & AI_End_On_End_Of_Scan`),
  `aimode`, `intEnable` (the soft copy of Interrupt_A_Enable),
  `aiMiteChan` (`ai_mite_chan != NULL`), and `otherMite` (channels held by
  other roles).
- STC: `armed`, `started`, `scansLeft`, `inScan`, `fifoMode`, `status`
  (latched OVERFLOW, SC_TC, STOP).
- MITE: `linkc`.
- Data path, the record `d`:
  - `fifo`, and the DMA request `req`;
  - `dma`: written by the MITE, not committed;
  - `buf`: in the Comedi buffer;
  - `delivered`: committed by this command;
  - `events`.
- Handler snapshot: `snapStatus`, `snapLinkc`, `snapIntA`, between `IrqEnter`
  and `IrqHandle`.

Data are counts of samples. Sample values, channel numbers and the munging
are abstracted away, because no property distinguishes them.

**Actions and the code they model**

| Action | Code |
|---|---|
| `AiCmd(c)` | the whole `ni_ai_cmd`: the -EIO path without an irq, FIFO clear, stop count, aimode and FIFO mode, enables ORed in, arm, `ni_ai_setup_MITE_dma` failing with -EBUSY, START1 for TRIG_NOW, plus the registry going ACTIVE or staying IDLE. Its parts are operators of their own: `AiMode` (SCAN or HALF_FULL), `AiFifoMode`, `AiIntEnable`, `AiSetupMiteDma` (`ni_ai_setup_MITE_dma`) and `AiStartNow` |
| `AiInttrig` | `ni_ai_inttrig` with trignum 0 |
| `AiCancel` | `ni_ai_cancel` → `ni_ai_reset` (with `ReleaseAiMiteChannel` and `ClearAiFifo`) |
| `IrqEnter` | `ni_E_interrupt` up to `ack_a_interrupt` |
| `IrqHandle` | the rest of `ni_E_interrupt`, including `handle_a_interrupt` |

`handle_a_interrupt` is the operator `HandleA`, composed of `SyncAiDma`,
`ShutdownAiCommand` (= `FifoDregs ∘ AiDrainDma`) and `HandleEos`.

Hardware and environment actions:
- `Convert` (an STC conversion: overflow, STOP, SC_TC with Trigger_Once);
- `DmaXfer` (the MITE moves a word and may set LINKC);
- `ExtTrigger`;
- `Read` (the consumer);
- `OtherMiteRequest` / `OtherMiteRelease` (the AO and CDO channel
  requests).

The B side, counters and CDIO parts of the handler touch no AI state.

**Fairness.** Weak fairness applies to `Convert`, `DmaXfer`, `IrqEnter` and
`IrqHandle`:
- the STC clock and the MITE make progress by themselves;
- the interrupt line is level-triggered, so an asserted line stays asserted
  until acknowledged;
- the handler runs to completion.

The calling thread, the consumer and external triggers get no fairness.

**Abstractions**
- The handler's two halves are atomic steps. The hardware interleaves between
  them but not inside them, so the 10 syncs of `ni_handle_eos` are one.
- `ni_ai_drain_dma`'s poll loop either empties the FIFO (DMA request asserted)
  or times out.
- `ni_ai_cmd` and `ni_ai_cancel` run while the handler is not inside (the
  registry holds the device lock).

**Abstract specification `AiAcquisition`.** What the AI subdevice promises
the reader of its buffer, from the spec's subdevice invariant:
- a submitted command either starts, with the buffer reset, or is refused;
- samples, and error events, reach the buffer only while a command is active,
  and never beyond its limit;
- cancel returns to idle.

`NiAiCommand` instantiates it as `Acquisition` with `state <- subd`,
`limit <- SampleLimit` (`stop_arg × nb_chan`, or the continuous cut-off),
`delivered <- d.delivered` and `errored <- "ERROR" \in d.events`. The
property is `AiAcquisitionRefined == Acquisition!Spec`. `AiCmd` maps to
`Start` (or to `Refuse` without an irq), the handler's syncs, drain and dregs
to `Deliver` or `RaiseError`, and `AiCancel` to `Cancel`. Every other step
stutters. With the MITE channel always free, the refinement holds. The
`ai_dma_busy_leaves_armed` run shows how it fails when another role holds the
channel.

### `NiCmdtest`: command validation (AI, AO, CDIO), timer conversions and the calibration subdevice (PWM and caldacs)

**State.** The caller of the subdevice's `do_cmdtest`: `prev` (the command handed to the
last call), `cmd` (the command as the call left it, corrected in place) and
`ret` (`"NONE"` before the first call, then `"EINVAL"` or `"OK"`). A command
is a record of the sources and arguments, `nb_chan` and the rounding mode
(`cmd->flags & TRIG_ROUND_MASK`), with the subdevice (`subd`: AI, AO or
DIO) and, for CDIO, whether the channel list is in order (`inOrder`).

**Operators and the code they model**

| Operator | Code |
|---|---|
| `NsToTimer`, `TimerToNs`, `Quantize` | `ni_ns_to_timer` (all three rounding modes), `ni_timer_to_ns`, the step 4 round trip |
| `MinScanPeriod` | `ni_min_ai_scan_period_ns` |
| `StartFix`, `ScanFix`, `ConvFix`, `StopFix` | the step 2/3 passes: the value each argument is corrected to |
| `Fixup` | step 4: quantise the scan period, then the convert period, then raise the scan period to `convert_arg * scan_end_arg` |
| `AiCmdtest` | the whole of `ni_ai_cmdtest`: the first correction is made and -EINVAL returned |
| `AoCmdtest`, `AoFixup` | `ni_ao_cmdtest`: `start_arg` and the scan bounds corrected silently (counted in `err`, never returned), then `convert_arg`, `scan_end_arg` and `stop_arg` corrected with an immediate -EINVAL, then step 4, which rejects an unquantised scan period without correcting it |
| `DioCmdtest` | `ni_cdio_cmdtest`: every check returns at once; `scan_begin_arg` must be the one packed sample source (`CdoScanArg`) and the channel list in order, and neither is corrected |
| `Cmdtest` | the `do_cmdtest` of each subdevice, as `ni_E_init` installs it |
| `Submit` | the caller's loop (spec section 7): resubmit while -EINVAL |
| `PwmCount` | the rounding switch of `ni_m_series_pwm_config`: `(ns + clock_ns/2) / clock_ns`, `ns / clock_ns` or `(ns + clock_ns - 1) / clock_ns`, with the sum taken modulo 2^`PwmWidth` (`Word`), since `insn->data` is an unsigned 32-bit `lsampl_t` |
| `PwmConfig` | `INSN_CONFIG_PWM_OUTPUT`: an unknown rounding mode gives -EINVAL; counts whose times differ from the request are written back to `data[2]`/`data[4]` with -EAGAIN; otherwise the register is written and the counts stored in `devpriv` |
| `PwmGet` | `ni_get_pwm_config`: the stored counts times `clock_ns` |
| `PwmSubmit`, `PwmRequest` | the caller's loop for a PWM request (resubmit the -EAGAIN answer), and a new request once one was accepted |
| `NChans`, `NBits` | the `caldacs[]` table: channels and bits of each chip type |
| `Pack` (with `Bit`, `Low`) | the six `pack_*` functions: the frame for a chip channel and its length in bits (the mb88341 counts from 1 with reversed address bits; the ad8522 selects with control nibble 0xa or 0xc) |
| `CaldacLocate` | the chip loop of `ni_write_caldac`: the first chip whose `n_chans` exceeds `addr`, subtracting each earlier chip's count |
| `WriteCaldac` | `ni_write_caldac`: skip when the cache holds `val`; otherwise store `val` in the cache, shift the frame out and pulse the load bit of the chip found |
| `NCaldacs`, `DiffBits`, `ChanNbBits`, `Midscale`, `CaldacSetup` | `caldac_setup`: the channel total, per-channel `nb_bits` when the chips differ in width (else chip 0's), and midscale `(1 << nb_bits) / 2` written to every channel in order |
| `CalibRead`, `CalibInsnWrite` | `ni_calib_insn_read` (the cached value) and `ni_calib_insn_write` |
| `CalibAttach` | the calibration branch of `ni_E_init` for boards that are neither M-series nor 6143 |

`Init` takes every command allowed by `mio_ai_cmd_mask`, `mio_ao_cmd_mask`
and `mio_dio_cmd_mask` (for the subdevices in `Subds`) over small argument
sets. A lower-bound and an upper-bound check of the same argument are one
`Clamp`, because the code checks the upper bound only on the call after the
lower bound held, which gives the same value. Divider widths are scaled
(`MaxScanTicks` for 0xffffff, `MaxConvTicks` for 0xffff). Trigger-line
arguments are the channel number alone: the polarity bits are carried through
unchanged.

`Valid`, `ValidAo` and `ValidDio` (what a board runs as written) and
`RefQuantize` (the nearest, lower or upper multiple of the clock) are
reference definitions written from the contract, not from the code.

The PWM state is `pwm` (`devpriv->pwm_up_count`, `pwm_down_count`, zero at
attach, when `ni_E_init` also writes 0 to `M_Offset_Cal_PWM`) and the history
variable `programmed` (the times of the last accepted request).
`ni_6143_pwm_config` computes the same counts and writes them to two
registers, so `PwmConfig` stands for both.

The caldac state is `caldacs` (`devpriv->caldacs[]`, zero at attach) and
`dac`, the register of each chip channel, indexed `<<chip, channel>>`. Before
attach the registers hold a power-up value unknown to the driver (0, which the
zeroed cache agrees with, or 1, which it does not). A chip latches the low
`bits` bits of the frame: `Latch` decodes them as the comments in the
`pack_*` functions describe each chip. `Latch` is a reference for the chips, not a model of
the code. When no chip holds the channel, `bits` is 0 and the shift count is
undefined, but the load bit is 0 and nothing is latched.

**Fairness.** `WF(Submit)` and `WF(PwmSubmit)`: the caller is expected to loop
until success. A new PWM request is up to the caller and gets no fairness. The
command loop stops at `"OK"`, so the run does not check deadlock.

### `NiAoCommand`: AO command, internal trigger, B-side interrupt, reset, and the correlated digital output

State: the AO subdevice's registry state (`subd`), the command, whether
the AO side holds a MITE channel (`aoMiteChan`, with its LINKC interrupt
bit `linkc`) and how many channels other roles hold (`otherMite`), the STC
arm/start bits, the update counter `ucLeft`, the interrupt enables and
latched status bits (`BC_TC`, `OVERRUN`), and the data as sample counts:
in the user buffer (`buf`), in the DAC FIFO (`fifo`), written by the user
(`supplied`) and output (`output`). `trigCalls`/`trigRet` record the
inttrig calls and their result; `oops` records either `BUG_ON`.

The M-series correlated digital output (CDIO) is composed into the same
module, because it shares the two things AO shares with nothing else
modelled: the MITE channel pool (`MiteChannelFree` counts AO, CDO and the
other roles) and `ni_E_interrupt`, which runs `handle_cdio_interrupt` after
the B side. Its state: `ioBits` (`devpriv->io_bits`), the DIO subdevice's
registry state `cdioSubd`, `cdoMiteChan`, `cdoArmed`, the CDO interrupt
enables and latched status (`ERROR` for overrun/underflow, `EMPTY`), the
events posted for the CDO transfer, and the last return value.

| Action | Code |
|---|---|
| `AoCmd(c)` | `ni_ao_cmd`: -EIO without an irq, the update count (`AoUcLoad`), the interrupt enables ORed in (`AoCmdIntBits`) |
| `AoInttrig` | `ni_ao_inttrig`: -EBUSY without a free MITE channel, the `BUG_ON` in `ni_request_ao_mite_channel`, FIFO clear, preload and `ni_ao_wait_for_dma_load` (-EPIPE when it times out short of half full), -EIO when `DAC_FIFO` does not report full, then arm and start |
| `AoReset` | `ni_ao_reset` (the cancel), releasing the MITE channel |
| `Write` | the user writing samples into the ring buffer |
| `OtherMiteRequest`, `OtherMiteRelease` | another role (AI, CDO, a counter) taking or giving back a channel of the shared pool |
| `DmaOut` | the MITE moving a sample from the buffer into the DAC FIFO |
| `Update` | the STC update counter: one sample out; an empty FIFO sets `OVERRUN`, the last update sets `BC_TC` |
| `IrqB(aSide)` | `ni_E_interrupt`'s B side: `ack_b_interrupt` of what was read and `handle_b_interrupt`; `aSide` is the call made for an A-side interrupt, which still acks the B bits; then `handle_cdio_interrupt` (`HandleCdio`): confirm an error and post ERROR, disable the empty-FIFO interrupt |
| `DioInsnConfig(ch, out)` | `ni_m_series_dio_insn_config`: a line to output or input |
| `CdioCmd` | `ni_cdio_cmd`: CDO reset, -EIO with no output line, then `ni_request_cdo_mite_channel` (`BUG_ON` if held, -EBUSY if the pool is empty) |
| `CdoInttrig` | `ni_cdo_inttrig`: -EIO without a channel; the `CDO_FIFO_Full` wait, whose timeout calls `ni_cdio_cancel` (`NiCdioCancel`) and returns -EIO while the registry keeps the command ACTIVE; else arm and enable the error and empty interrupts |
| `CdioCancel` | `ni_cdio_cancel` through the registry: disarm, clear the enables, release the channel |
| `CdoFifoEmpty`, `CdoFifoRefill`, `CdoUnderflow` | the CDO hardware: the FIFO runs empty, the MITE refills it, or a sample clock finds it empty, latches the underflow and halts (`CDO_Halt_On_Error_Bit`) |

`AoSetupMiteDma` is `ni_ao_setup_MITE_dma` (the channel request and DMA arm
inside `ni_ao_inttrig`). The CDO reset in `ni_cdio_cmd` is taken to clear
the latched CDO status; the register semantics are not in the repository.
CDO samples are not counted: no CDIO property depends on them.

**Fairness.** Weak fairness on `DmaOut`, `Update` and `IrqB(FALSE)`: the
MITE, the update clock and a pending level-triggered interrupt (AO or CDO)
make progress by themselves. The user, the CDO hardware and the other roles
get none.

### `NiChanGainList`: the channel/gain list and its cache

State: the board type, the configuration memory (`mem`, the input of each
position), the M-series FIFO bypass (`bypass`), the 6143 relay (`relay`,
`ai_calib_source_enabled`), the single-channel cache (`changainState`,
`changainSpec`), `ai_calib_source`, the input the last
`ni_ai_insn_read` converted, and `lastRead`, the descriptor of that read (a
history variable: the code keeps no copy). A descriptor is a channel, a polarity and
`CR_ALT_SOURCE`. The gain, aref, dither and offset are left out.

| Action | Code |
|---|---|
| `InsnRead(d)` | `ni_ai_insn_read`: load `<<d>>`, then convert position 1 (`Converting`), or time out with -ETIME and convert nothing |
| `AiCmdLoad(l)` | `ni_ai_cmd`'s load of the command's channel list |
| `ConfigAltSource(v)` | `ni_ai_insn_config`, `INSN_CONFIG_ALT_SOURCE`: -EINVAL for a source of 8 or more on E/611x |

`LoadChannelgainList` is the whole of `ni_load_channelgain_list`. That
includes the early return on a cache hit, the cache update, the 6143 relay
strobes (`Relay6143`) and the `ai_calib_source` substitution
(`PhysSource`), or on the M series `MSeriesLoad`. No fairness is needed:
only safety is checked.

**Refinement.** `AdcInput` is the abstract specification of the analog input
as a caller sees it: a calibration source can be selected, and a read of a
descriptor converts the channel it names, or the selected calibration source
when `CR_ALT_SOURCE` is set. Nothing in it knows about the configuration
memory, the cache or the relay. `NiChanGainList` instantiates it with
`calibSource <- aiCalibSource, request <- lastRead` and checks
`AdcInputRefined == Abstract!Spec` as a property. Command loads and failed
reads are stuttering steps of the abstract specification.

## Runs

| Run | Configuration | Expect | What it shows |
|---|---|---|---|
| `ai_core` | `NiAiCommand.cfg` | pass | `TypeOK`; `NoOverDelivery` (a counted command never delivers more than `stop_arg × nb_chan`); `SamplesAccounted` (without an error, every converted sample is in the FIFO, in flight or committed); `IdleHoldsNoMiteChannel` (so the `BUG_ON` in `ni_request_ai_mite_channel` cannot fire); `AllScansDelivered` (a started counted acquisition ends with all samples delivered, an ERROR, or a cancel) |
| `ai_dma_busy_leaves_armed` | `NiAiCommand_DmaBusy.cfg` | violation | `AiAcquisitionRefined`: a command failing for want of a MITE channel leaves the STC armed and its interrupts enabled; a later trigger runs a scan the registry does not know of, and the SC_TC handler puts its samples into the buffer of the idle subdevice (8 states) |
| `ai_error_keeps_running` | `NiAiCommand_ErrorShutsDown.cfg` | violation | after an overflow ERROR the STC stays armed and the DMA channel stays held |
| `ai_error_reenters` | `NiAiCommand_ErrorHandledOnce.cfg` | violation | the overflow is never acknowledged, so the error interrupt is taken again |
| `cmdtest` | `NiCmdtest.cfg` | pass | `AcceptsExactlyValid` (`ni_ai_cmdtest` returns 0 exactly for runnable commands, and leaves them unchanged); `QuantizeMatchesReference` (the round trip gives the nearest/lower/upper tick multiple); `OutputAcceptsOnlyRunnable` (whatever `ni_ao_cmdtest` and `ni_cdio_cmdtest` corrected silently, a command they accept is runnable); `PwmGetReportsProgrammed` (`ni_get_pwm_config` reports the times of the last accepted PWM request, never counts from a rejected one); `CmdtestConverges` (the AI resubmit loop ends); `PwmConfigConverges` (a PWM request answered -EAGAIN is accepted when the answer is resubmitted); `CalibReadMatchesDac` (after attach, `ni_calib_insn_read` reports for every channel the value its chip latched: setup overwrote the power-up registers, the cache skip never hides a difference, and the chip loop routes each frame to the right chip and channel) |
| `ai_cmdtest_cycle_many_channels` | `NiCmdtest_ManyChannels.cfg` | violation | with `convert_arg * nb_chan` above the scan divider's range, step 4 and the scan clamp undo each other and cmdtest never returns 0 |
| `ai_dregs_silent_loss` | `NiAiCommand_SmallBuffer.cfg` | violation | with a lagging consumer, the FIFO dregs are dropped without an ERROR |
| `ao_core` | `NiAoCommand.cfg` | pass | `TypeOK`; `AoSamplesAccounted` (after a successful trigger and without an error, every sample written is in the buffer, the FIFO or output); `AllUpdatesOrError` (a started command ends with all updates or an error); `NoBugOn` (neither the AO nor the CDO channel `BUG_ON`); `CdoArmedHoldsChannel` (the CDO runs only from a channel it holds, for an ACTIVE command, across trigger timeouts and cancels); `CdoErrorReported` (an underflow of an active CDO command is posted as ERROR unless `ni_cdio_cancel` ran first) |
| `ao_inttrig_retry_oops` | `NiAoCommand_Retrigger.cfg` | violation | `ni_ao_inttrig` called again after -EPIPE still holds the MITE channel and hits `BUG_ON` |
| `ao_cmdtest_never_converges` | `NiCmdtest_AoResubmit.cfg` | violation | `AoCmdtestConverges`: an AO scan period that is not a whole number of ticks (5 ns on a 2 ns clock) is rejected by step 4 without a correction, so the resubmit loop never ends |
| `chan_gain_list` | `NiChanGainList.cfg` | pass | `TypeOK` (including the E/611x limit on `ai_calib_source`); `AdcInputRefined` (on the 611x, 6143 and M series the read, command-load and ALT_SOURCE paths implement `AdcInput`: every read converts the channel or calibration source it names) |
| `chan_gain_cache_stale_alt_source` | `NiChanGainList_ESeries.cfg` | violation | `AdcInputRefined` fails on an E-series board: the single-channel cache survives `INSN_CONFIG_ALT_SOURCE`, so an alt-source read converts the old calibration source |

**Bounds.** Two channels, up to three scans, a 4-word FIFO, a 6-sample buffer,
and one MITE channel.
- Two channels separate the end of a scan from a conversion.
- Three scans with a 4-word FIFO let the FIFO overflow when the DMA lags, and
  let the half-full DMA threshold (2 words) leave a single word for the dregs
  read.
- One MITE channel lets another role take it.
- Continuous commands are cut after 6 conversions.
- The small-buffer run uses a 2-sample buffer.

For `NiCmdtest`: an E-series board with a 2 ns clock and a 4 ns minimum
convert period (a multiple of the clock, as on the real boards), up to 8 scan
and 4 convert ticks, one or two channels. The argument sets hold values below
the minimum, at it, between ticks (odd values, which make NEAREST ties), and
above the maximum. The violation run uses 3 channels: more convert periods
than the scan divider holds. In the STC that takes at least 257 channels
(0xffffff / 0xffff) and a slow convert clock. AO commands use a 4 ns
`ao_speed` and a stop limit of 2; CDIO commands use `CdoScanArg = 17`, one of
the two trigger-line arguments, so both an accepted and a refused sample
source are submitted. The AO violation run submits AO commands only. PWM
requests take times 0, 3, 4 and 31 with every rounding mode and an invalid
one, in a 5-bit `lsampl_t`. Odd times need rounding, and 31 makes the sum in
`TRIG_ROUND_UP` and `TRIG_ROUND_NEAREST` wrap to a count of 0, as a request
within `clock_ns` of 2^32 ns does on the board. Both PWM properties hold
through the wrap: the loop ends by accepting a 0 ns time. That the -EAGAIN
answer is not the next achievable period there is listed as a hazard and no
run checks it.

Caldac boards (`CaldacCombinations`; the real `boardtype.caldac` tables are
not in the repository): one mb88341; dac8800 with dac8043 (8 and 12 bits,
so per-channel `nb_bits`); ad8842 with ad8804_debug; and mb88341, ad8804 and
ad8522 (three chips, 26 channels). The client writes 0 and maxdata to the
first and the last channel of each chip. Those are the channels where the
chip loop's subtraction changes. The mutant that drops the subtraction sends
the second chip's channels to nothing.

For `NiAoCommand`: counted waveforms of 1, 2 or 3 samples (shorter than, at
and above half the FIFO), continuous commands cut
after 3 updates, a 4-sample FIFO (half full is 2), a 3-sample buffer, and
one MITE channel, so another role (or the CDO) can hold the only one. Each
AO command gets one trigger call. The retrigger run allows two. One DIO line
is enough for `io_bits` to be zero or not; CDO trigger calls are not bounded
(a repeated call changes nothing once it has failed).

The AO model does not check two things:

- **Short waveforms.** `ni_ao_wait_for_dma_load` (608-631) waits for the DAC
  FIFO to be half full. A fully written waveform shorter than half the FIFO
  never fills it that far, so `ni_ao_inttrig` refuses it with -EPIPE. TLC
  reaches this with `stop_arg` 1. It is a hazard of the code, and no
  property asserts the opposite.
- **Which counter load ends the output.** `ni_ao_cmd` loads the update
  counter with `stop_arg` and then the reload value `stop_arg - 1`. Whether
  `BC_TC` comes after the one or the other is STC hardware that is not in
  the repository. The model assumes `stop_arg` updates, so no property
  judges the two loads.

For `NiChanGainList`: two channels, both polarities and both values of
`CR_ALT_SOURCE`, lists of up to two descriptors, and calibration sources 0,
1 and 9. 9 is refused on E/611x and accepted on the 6143 and M series. Two
sources are enough to change the selection between two equal reads.

Each property of a passing run is also checked against a mutant of the code
it depends on (listed in `PROJECT.json`), and TLC finds each mutant.

## Plan (later modules)

1. `SoftRegCopy`: `ni_set_bitfield`'s read-modify-write under
   `soft_reg_copy_lock`. Every caller makes one locked call, which the models
   take as one atomic step, so this module would only show the lock's value.
2. Subdevice registration in `ni_E_init`: the index checks after each
   `comedi_add_subd` (the DIO one compares with `COMEDI_SUBD_DIO`). The
   index constants are defined outside the repository, so a model needs them
   as parameters.

Done: `NiAoCommand` (AO command, inttrig, B-side interrupt, reset, with CDIO
on the shared MITE pool), `NiChanGainList` (the single-channel cache against
`INSN_CONFIG_ALT_SOURCE`, shown to refine `AdcInput`) and `ni_ao_cmdtest` and
`ni_cdio_cmdtest` in `NiCmdtest`, the abstract `AiAcquisition` refined by
`NiAiCommand`, and the calibration PWM and caldacs in `NiCmdtest`.

## Not modelled

- **Counter (GPCT) commands:** `ni_gpct_cmd`, `ni_gpct_cmdtest` and
  `ni_gpct_cancel` keep their bodies under `#if 0`. They return 0 and touch
  no state, so no counter ever holds a MITE channel.
- **Analog trigger configuration (`ni_ai_config_analog_trig`):** it writes
  `atrig_low`, `atrig_high` and `atrig_mode`, which nothing in the repository
  reads. `ni_ai_cmd` disables analog triggering. Its -EAGAIN answer, which
  keeps the new levels and clears the mode byte so that the retry fails again,
  is visible in the code; no model state would observe it.
- **The non-MITE PIO build:** it does not link.
- **The 611x/6143 pipeline and last-sample paths.**
- **`comedi_config`:** argument parsing.
- **`cmd_write`:** a user-space utility the spec puts out of scope. Its mmap
  loop copies `front` bytes to `map + cnt % buf_size` with no split at the end
  of the ring, and its channel parser fills `chans[MAX_NB_CHAN]` without a
  bound. Both are memory errors of a single thread, listed as hazards, not
  behaviours a model checker adds to a test. Its default command (start
  `TRIG_NOW`, convert `TRIG_TIMER`) is also outside `mio_ao_cmd_mask`, so on
  an NI board it would be refused before `ni_ao_cmdtest` runs.
- **Caldac values above maxdata and `MAX_N_CALDACS`:** the cache keeps
  `data[0]` unmasked while the chip gets its low 8 or 12 bits. Whether the
  core range-checks `data[0]` is decided outside the repository, so the model
  writes values within maxdata. `MAX_N_CALDACS` is defined in a header that
  is not in the repository. Both are listed as hazards.
- **Serial DIO, the frequency output and the E-series DIO instructions:**
  register writes with no state that the command paths read.
- **`8255.h` and `asm-arm/system.h`:** constants and architecture macros.
- **The Alchemy test programs:** the API they test is not in the repository.
