----------------------------- MODULE NiCmdtest -----------------------------
(***************************************************************************)
(* ni_ai_cmdtest, ni_ao_cmdtest and ni_cdio_cmdtest of mio_common.c and  *)
(* the timer conversions they rely on                                      *)
(* (ni_ns_to_timer, ni_timer_to_ns, ni_min_ai_scan_period_ns), as pure     *)
(* operators, driven by the caller's loop: submit the command, and while  *)
(* cmdtest returns -EINVAL after correcting it in place, resubmit.         *)
(* The calibration PWM of M-series and 6143 boards follows the same       *)
(* protocol (ni_m_series_pwm_config answers -EAGAIN with the achievable    *)
(* times written back), and keeps the programmed counts in devpriv.       *)
(*                                                                         *)
(* Widths are scaled: the scan divider holds MaxScanTicks ticks (0xffffff  *)
(* in the STC), the convert divider MaxConvTicks (0xffff) and the scan     *)
(* counter MaxCount scans (0x01000000). Trigger-line arguments are the     *)
(* channel number alone (CR_INVERT, CR_EDGE and CR_ALT_FILTER are carried  *)
(* through unchanged by the code and left out).                            *)
(* The calibration DACs of the other boards (ni_calib_insn_write and      *)
(* _read, caldac_setup at attach) keep a cache beside the chips.           *)
(***************************************************************************)
EXTENDS Integers, Sequences, FiniteSetsExt

CONSTANTS
    Board,         \* "E" (multiplexed inputs) or "611x" (simultaneous)
    ClockNs,       \* devpriv->clock_ns
    AiSpeed,       \* boardtype.ai_speed
    MaxScanTicks,  \* scan_begin divider limit (0xffffff)
    MaxConvTicks,  \* convert divider limit (0xffff)
    MaxCount,      \* stop_arg limit (0x01000000)
    NumAdcStages,  \* num_adc_stages_611x
    NbChans,       \* channel counts submitted
    ScanArgs,      \* scan_begin_arg values submitted with TRIG_TIMER
    ConvArgs,      \* convert_arg values submitted with TRIG_TIMER
    LineArgs,      \* start/scan/convert args submitted with TRIG_EXT
    StopArgs,      \* stop_arg values submitted
    Subds,         \* subdevices whose cmdtest is exercised: "AI", "AO", "DIO"
    AoSpeed,       \* boardtype.ao_speed
    MaxAoCount,    \* AO stop_arg limit (0x00ffffff)
    CdoScanArg,    \* PACK_FLAGS(CDO_Sample_Source_Select_Mask, 0, 0, CR_INVERT)
    PwmTimes,      \* up and down times (ns) requested of the calibration PWM
    PwmWidth,      \* bits of lsampl_t, the type of insn->data (32)
    CaldacBoards   \* boardtype.caldac[] of the boards attached (1 to 3 chips)

ASSUME ClockNs \in Nat \ {0} /\ AiSpeed \in Nat \ {0}

Rounds == {"NEAREST", "DOWN", "UP"}

\* TRIG_ROUND_* arithmetic of ni_ns_to_timer: the divider minus one.
NsToTimerRoundUpPlusOne(ns, round) ==
    LET divider == CASE round = "NEAREST" -> (ns + ClockNs \div 2) \div ClockNs
                     [] round = "DOWN"    -> ns \div ClockNs
                     [] round = "UP"      -> (ns + ClockNs) \div ClockNs
    IN  divider - 1

\* ni_ns_to_timer: divider for nanosec in the rounding mode, minus one.
NsToTimer(ns, round) ==
    LET divider == CASE round = "NEAREST" -> (ns + ClockNs \div 2) \div ClockNs
                     [] round = "DOWN"    -> ns \div ClockNs
                     [] round = "UP"      -> (ns + ClockNs - 1) \div ClockNs
    IN  divider - 1

\* ni_timer_to_ns.
TimerToNs(timer) == ClockNs * (timer + 1)

\* The period actually achievable for ns: the step 4 round trip.
Quantize(ns, round) == TimerToNs(NsToTimer(ns, round))

\* ni_min_ai_scan_period_ns.
MinScanPeriod(nb) == IF Board = "611x" THEN AiSpeed ELSE AiSpeed * nb

\* CR_CHAN(arg) clamped to the 16 PFI lines plus RTSI.
LineArg(a) == IF a > 16 THEN 16 ELSE a

\* ni_ai_cmdtest, stop_src = TRIG_COUNT limit.
MaxStopArg == IF Board = "611x" THEN MaxCount - NumAdcStages ELSE MaxCount


\* The commands submitted: sources within mio_ai_cmd_mask, mio_ao_cmd_mask
\* and mio_dio_cmd_mask (the registry rejects the others before cmdtest),
\* arguments from the sets above. An AO or DIO start_arg is the trigger
\* number; inOrder: chan_descs[i] = i for every channel (AI and AO
\* cmdtest do not look at the list).
AiInputs ==
    { c \in [subd : {"AI"}, start : {"NOW", "INT", "EXT"}, startArg : LineArgs,
             scan : {"TIMER", "EXT"}, scanArg : ScanArgs \cup LineArgs,
             conv : {"TIMER", "EXT", "NOW"}, convArg : ConvArgs \cup LineArgs,
             nb : NbChans, scanEnd : NbChans,
             stop : {"COUNT", "NONE"}, stopArg : StopArgs, round : Rounds,
             inOrder : {TRUE}] :
        /\ c.scan = "EXT" => c.scanArg \in LineArgs
        /\ c.scan = "TIMER" => c.scanArg \in ScanArgs
        /\ c.conv = "TIMER" => c.convArg \in ConvArgs
        /\ c.conv # "TIMER" => c.convArg \in LineArgs }

AoInputs ==
    { c \in [subd : {"AO"}, start : {"INT"}, startArg : {0, 1},
             scan : {"TIMER", "EXT"}, scanArg : ScanArgs \cup LineArgs,
             conv : {"NOW"}, convArg : {0, 1},
             nb : NbChans, scanEnd : NbChans,
             stop : {"COUNT", "NONE"}, stopArg : StopArgs, round : Rounds,
             inOrder : {TRUE}] :
        /\ c.scan = "EXT" => c.scanArg \in LineArgs
        /\ c.scan = "TIMER" => c.scanArg \in ScanArgs }

DioInputs ==
    [subd : {"DIO"}, start : {"INT"}, startArg : {0, 1},
     scan : {"EXT"}, scanArg : LineArgs, conv : {"NOW"}, convArg : {0, 1},
     nb : NbChans, scanEnd : NbChans, stop : {"NONE"}, stopArg : StopArgs,
     round : {"NEAREST"}, inOrder : BOOLEAN]

\* INSN_CONFIG_PWM_OUTPUT requests: data[1] and data[3] are the rounding
\* modes (anything else is "INVALID"), data[2] and data[4] the times.
PwmInputs ==
    [subd : {"PWM"}, upRound : Rounds \cup {"INVALID"}, up : PwmTimes,
     downRound : Rounds \cup {"INVALID"}, down : PwmTimes]

\* boardtype.caldac[] combinations for the configurations: one chip, two
\* of different widths, two with channel counts 8 and 16, and three with
\* the address-reversed and the two-control-nibble formats.
CaldacCombinations == {<<"mb88341">>, <<"dac8800", "dac8043">>,
                       <<"ad8842", "ad8804_debug">>,
                       <<"mb88341", "ad8804", "ad8522">>}

\* A board with calibration DACs, from attach on.
CalibInputs == [subd : {"CALIB"}, board : CaldacBoards]

Inputs == (IF "AI" \in Subds THEN AiInputs ELSE {})
          \cup (IF "AO" \in Subds THEN AoInputs ELSE {})
          \cup (IF "DIO" \in Subds THEN DioInputs ELSE {})
          \cup (IF "PWM" \in Subds THEN PwmInputs ELSE {})
          \cup (IF "CALIB" \in Subds THEN CalibInputs ELSE {})

Clamp(x, lo, hi) == IF x < lo THEN lo ELSE IF x > hi THEN hi ELSE x

\* Step 2 and 3 of ni_ai_cmdtest: the value each argument is corrected to
\* (the code checks the lower bound, returns, and checks the upper bound on
\* the next call only if the lower one held, which yields the same value).
StartFix(c) == IF c.start = "EXT" THEN LineArg(c.startArg) ELSE 0

ScanFix(c) ==
    IF c.scan = "TIMER"
    THEN Clamp(c.scanArg, MinScanPeriod(c.nb), ClockNs * MaxScanTicks)
    ELSE LineArg(c.scanArg)

ConvFixOffByOne(c) ==
    CASE c.conv = "TIMER" /\ Board = "611x" -> 0
      [] c.conv = "TIMER" -> Clamp(c.convArg, AiSpeed - 1, ClockNs * MaxConvTicks)
      [] c.conv = "EXT"   -> LineArg(c.convArg)
      [] c.conv = "NOW"   -> 0

ConvFix(c) ==
    CASE c.conv = "TIMER" /\ Board = "611x" -> 0
      [] c.conv = "TIMER" -> Clamp(c.convArg, AiSpeed, ClockNs * MaxConvTicks)
      [] c.conv = "EXT"   -> LineArg(c.convArg)
      [] c.conv = "NOW"   -> 0

StopFix(c) == IF c.stop = "COUNT" THEN Clamp(c.stopArg, 1, MaxStopArg) ELSE 0

Reject(c) == [ret |-> "EINVAL", cmd |-> c]
Accept(c) == [ret |-> "OK", cmd |-> c]

FixupNoScanFloor(c) ==
    LET sq == Quantize(c.scanArg, c.round)
        cq == Quantize(c.convArg, c.round)
    IN  IF c.scan = "TIMER" /\ sq # c.scanArg
        THEN Reject([c EXCEPT !.scanArg = sq])
        ELSE IF c.conv = "TIMER" /\ Board # "611x" /\ cq # c.convArg
        THEN Reject([c EXCEPT !.convArg = cq])
        ELSE Accept(c)

\* Step 4: quantize scan_begin_arg, then convert_arg (not on 611x/6143),
\* then raise scan_begin_arg to convert_arg * scan_end_arg; each change is
\* returned as -EINVAL at once.
Fixup(c) ==
    LET sq == Quantize(c.scanArg, c.round)
        cq == Quantize(c.convArg, c.round)
    IN  IF c.scan = "TIMER" /\ sq # c.scanArg
        THEN Reject([c EXCEPT !.scanArg = sq])
        ELSE IF c.conv = "TIMER" /\ Board # "611x" /\ cq # c.convArg
        THEN Reject([c EXCEPT !.convArg = cq])
        ELSE IF c.conv = "TIMER" /\ Board # "611x" /\ c.scan = "TIMER"
                /\ c.scanArg < c.convArg * c.scanEnd
        THEN Reject([c EXCEPT !.scanArg = c.convArg * c.scanEnd])
        ELSE Accept(c)

\* ni_ai_cmdtest: the first argument that needs a correction is corrected
\* in place and -EINVAL returned; 0 only if no pass changes anything.
AiCmdtest(c) ==
    IF c.startArg # StartFix(c) THEN Reject([c EXCEPT !.startArg = StartFix(c)])
    ELSE IF c.scanArg # ScanFix(c) THEN Reject([c EXCEPT !.scanArg = ScanFix(c)])
    ELSE IF c.convArg # ConvFix(c) THEN Reject([c EXCEPT !.convArg = ConvFix(c)])
    ELSE IF c.scanEnd # c.nb THEN Reject([c EXCEPT !.scanEnd = c.nb])
    ELSE IF c.stopArg # StopFix(c) THEN Reject([c EXCEPT !.stopArg = StopFix(c)])
    ELSE Fixup(c)

\* Mutant of AoFixup: step 4 is left out.
AoFixupNoQuantize(c) == Accept(c)

\* ni_ao_cmdtest step 4: a TRIG_TIMER scan_begin_arg that the round trip
\* through ni_ns_to_timer changes is rejected, and left as it was.
AoFixup(c) ==
    IF c.scan = "TIMER" /\ Quantize(c.scanArg, c.round) # c.scanArg
    THEN Reject(c)
    ELSE Accept(c)

\* ni_ao_cmdtest: start_arg and the scan_begin_arg bounds are corrected
\* and counted in err, which is never returned; convert_arg, scan_end_arg
\* and stop_arg corrections return -EINVAL at once (with the earlier
\* corrections kept), then step 4.
AoCmdtest(c) ==
    LET c1 == [c EXCEPT !.startArg = 0,
                        !.scanArg = IF c.scan = "TIMER"
                                    THEN Clamp(c.scanArg, AoSpeed,
                                               ClockNs * MaxScanTicks)
                                    ELSE c.scanArg]
    IN  IF c1.convArg # 0 THEN Reject([c1 EXCEPT !.convArg = 0])
        ELSE IF c1.scanEnd # c1.nb THEN Reject([c1 EXCEPT !.scanEnd = c1.nb])
        ELSE IF c1.stop = "COUNT" /\ c1.stopArg > MaxAoCount
        THEN Reject([c1 EXCEPT !.stopArg = MaxAoCount])
        ELSE IF c1.stop = "NONE" /\ c1.stopArg # 0
        THEN Reject([c1 EXCEPT !.stopArg = 0])
        ELSE AoFixup(c1)

\* ni_cdio_cmdtest: each check returns -EINVAL at once, correcting
\* start_arg, convert_arg, scan_end_arg and stop_arg; a scan_begin_arg
\* other than the one packed sample source, or a channel list out of
\* order, is rejected as it is.
DioCmdtest(c) ==
    IF c.startArg # 0 THEN Reject([c EXCEPT !.startArg = 0])
    ELSE IF c.scanArg # CdoScanArg THEN Reject(c)
    ELSE IF c.convArg # 0 THEN Reject([c EXCEPT !.convArg = 0])
    ELSE IF c.scanEnd # c.nb THEN Reject([c EXCEPT !.scanEnd = c.nb])
    ELSE IF c.stopArg # 0 THEN Reject([c EXCEPT !.stopArg = 0])
    ELSE IF ~c.inOrder THEN Reject(c)
    ELSE Accept(c)

\* The subdevice's do_cmdtest, as installed by ni_E_init.
Cmdtest(c) ==
    CASE c.subd = "AI"  -> AiCmdtest(c)
      [] c.subd = "AO"  -> AoCmdtest(c)
      [] c.subd = "DIO" -> DioCmdtest(c)

-----------------------------------------------------------------------------
(* Calibration PWM (insn_config of the CALIB subdevice on M-series boards; *)
(* ni_6143_pwm_config is the same code with two register writes).          *)

\* insn->data[] and the counts are unsigned 32-bit: sums wrap.
Word(x) == x % (2 ^ PwmWidth)

\* Mutant of PwmCount: TRIG_ROUND_UP adds a whole clock period.
PwmCountRoundUpPlusOne(ns, round) ==
    CASE round = "NEAREST" -> Word(ns + ClockNs \div 2) \div ClockNs
      [] round = "DOWN"    -> ns \div ClockNs
      [] round = "UP"      -> Word(ns + ClockNs) \div ClockNs

\* The up_count / down_count switch: clock ticks for ns in the rounding
\* mode, the sum computed in unsigned arithmetic.
PwmCount(ns, round) ==
    CASE round = "NEAREST" -> Word(ns + ClockNs \div 2) \div ClockNs
      [] round = "DOWN"    -> ns \div ClockNs
      [] round = "UP"      -> Word(ns + ClockNs - 1) \div ClockNs

\* Mutant of PwmConfig: the counts are stored before the exactness check.
PwmConfigStoreEarly(c, p) ==
    IF c.upRound \notin Rounds \/ c.downRound \notin Rounds
    THEN [ret |-> "EINVAL", cmd |-> c, pwm |-> p]
    ELSE LET u == PwmCount(c.up, c.upRound)
             n == PwmCount(c.down, c.downRound)
             q == [up |-> u, down |-> n]
         IN  IF Word(u * ClockNs) # c.up \/ Word(n * ClockNs) # c.down
             THEN [ret |-> "EAGAIN", pwm |-> q,
                   cmd |-> [c EXCEPT !.up = Word(u * ClockNs),
                                     !.down = Word(n * ClockNs)]]
             ELSE [ret |-> "OK", cmd |-> c, pwm |-> q]

\* ni_m_series_pwm_config, INSN_CONFIG_PWM_OUTPUT, with the programmed
\* counts p: an unknown rounding mode is -EINVAL; counts whose times
\* differ from the request are written back to data[2] and data[4] with
\* -EAGAIN; otherwise M_Offset_Cal_PWM is written and the counts stored.
PwmConfig(c, p) ==
    IF c.upRound \notin Rounds \/ c.downRound \notin Rounds
    THEN [ret |-> "EINVAL", cmd |-> c, pwm |-> p]
    ELSE LET u == PwmCount(c.up, c.upRound)
             n == PwmCount(c.down, c.downRound)
         IN  IF Word(u * ClockNs) # c.up \/ Word(n * ClockNs) # c.down
             THEN [ret |-> "EAGAIN", pwm |-> p,
                   cmd |-> [c EXCEPT !.up = Word(u * ClockNs),
                                     !.down = Word(n * ClockNs)]]
             ELSE [ret |-> "OK", cmd |-> c, pwm |-> [up |-> u, down |-> n]]

\* ni_get_pwm_config (INSN_CONFIG_GET_PWM_OUTPUT): the stored counts in
\* nanoseconds.
PwmGet(p) == [up |-> Word(p.up * ClockNs), down |-> Word(p.down * ClockNs)]

-----------------------------------------------------------------------------
(* The calibration DACs of E-series boards: up to three serial DAC chips   *)
(* (boardtype.caldac[]), whose channels are numbered one chip after the    *)
(* other. Each write is shifted MSB first into Serial_Command and latched  *)
(* by the load bit of the chip it is meant for; devpriv->caldacs[] caches   *)
(* the value last written to each channel.                                 *)

\* The caldacs[] table: n_chans and n_bits of each chip type.
NChans == [mb88341 |-> 12, dac8800 |-> 8, dac8043 |-> 1, ad8522 |-> 2,
           ad8804 |-> 12, ad8842 |-> 8, ad8804_debug |-> 16]
NBits  == [mb88341 |-> 8, dac8800 |-> 8, dac8043 |-> 12, ad8522 |-> 12,
           ad8804 |-> 8, ad8842 |-> 8, ad8804_debug |-> 8]

\* Bit k of x, and x & (2^k - 1).
Bit(x, k) == (x \div 2 ^ k) % 2
Low(x, k) == x % 2 ^ k

\* The pack_* functions: the frame shifted into a chip of type t for its
\* channel a, and its length in bits. The or-ed fields are disjoint.
Pack(t, a, v) ==
    CASE t = "mb88341" ->
           LET b == a + 1 IN
           [bits |-> 12, string |-> Bit(b, 0) * 2^11 + Bit(b, 1) * 2^10
                                    + Bit(b, 2) * 2^9 + Bit(b, 3) * 2^8
                                    + Low(v, 8)]
      [] t = "dac8800" -> [bits |-> 11, string |-> Low(a, 3) * 2^8 + Low(v, 8)]
      [] t = "dac8043" -> [bits |-> 12, string |-> Low(v, 12)]
      [] t = "ad8522"  -> [bits |-> 16, string |-> Low(v, 12) +
                                       (IF a # 0 THEN 49152 ELSE 40960)]
      [] t \in {"ad8804", "ad8804_debug"} ->
                          [bits |-> 12, string |-> Low(a, 4) * 2^8 + Low(v, 8)]
      [] t = "ad8842"  -> [bits |-> 12, string |-> (a + 1) * 2^8 + Low(v, 8)]

\* What the chip latches from the frame it received: the channel and the
\* value, from the pack_* comments (mb88341 and ad8842 count channels from
\* 1, the mb88341 address bits are reversed, the ad8522 selects DAC A with
\* control nibble 0xa and DAC B with 0xc). A channel the chip does not
\* have is ignored.
Latch(t, s) ==
    CASE t = "mb88341" ->
           [addr |-> Bit(s, 11) + 2 * Bit(s, 10) + 4 * Bit(s, 9)
                     + 8 * Bit(s, 8) - 1, val |-> Low(s, 8)]
      [] t = "dac8800" -> [addr |-> Low(s \div 2^8, 3), val |-> Low(s, 8)]
      [] t = "dac8043" -> [addr |-> 0, val |-> Low(s, 12)]
      [] t = "ad8522"  -> [addr |-> CASE s \div 2^12 = 10 -> 0
                                      [] s \div 2^12 = 12 -> 1
                                      [] OTHER -> -1, val |-> Low(s, 12)]
      [] t \in {"ad8804", "ad8804_debug"} ->
                          [addr |-> Low(s \div 2^8, 4), val |-> Low(s, 8)]
      [] t = "ad8842"  -> [addr |-> Low(s \div 2^8, 4) - 1, val |-> Low(s, 8)]

\* The DAC channels of board b: <<chip, channel of that chip>>.
Slots(b) == UNION {{<<i, a>> : a \in 0..(NChans[b[i]] - 1)} : i \in DOMAIN b}

\* Subdevice channels: the sum of n_chans over the chips (caldac_setup).
NCaldacs(b) ==
    LET RECURSIVE S(_)
        S(i) == IF i = 0 THEN 0 ELSE NChans[b[i]] + S(i - 1)
    IN  S(Len(b))

\* Mutant of CaldacLocate: addr is not decreased past a chip.
RECURSIVE CaldacLocateNoSubtract(_, _, _)
CaldacLocateNoSubtract(b, addr, i) ==
    IF i > Len(b) THEN [chip |-> 0, addr |-> addr]
    ELSE IF addr < NChans[b[i]] THEN [chip |-> i, addr |-> addr]
    ELSE CaldacLocateNoSubtract(b, addr, i + 1)

\* The chip loop of ni_write_caldac: the chip i whose channels hold addr,
\* with addr made relative to it; chip 0 when no chip does (bits stays 0).
RECURSIVE CaldacLocate(_, _, _)
CaldacLocate(b, addr, i) ==
    IF i > Len(b) THEN [chip |-> 0, addr |-> addr]
    ELSE IF addr < NChans[b[i]] THEN [chip |-> i, addr |-> addr]
    ELSE CaldacLocate(b, addr - NChans[b[i]], i + 1)

\* ni_write_caldac on the cache c and the chips' registers d: nothing when
\* the cache already holds val; otherwise the cache takes val, the frame
\* is shifted out (the chips see its last bits bits) and the load bit of
\* the chip found latches it. With no chip found, bits is 0 and the shift
\* count of 1 << (bits - 1) is out of range; whatever bits go out, the
\* load bit is 0 and no chip latches them.
WriteCaldac(b, c, d, addr, val) ==
    IF c[addr] = val THEN [cache |-> c, dac |-> d]
    ELSE LET loc == CaldacLocate(b, addr, 1)
             p   == Pack(b[loc.chip], loc.addr, val)
             l   == Latch(b[loc.chip], Low(p.string, p.bits))
         IN  [cache |-> [c EXCEPT ![addr] = val],
              dac   |-> IF loc.chip # 0 /\ <<loc.chip, l.addr>> \in DOMAIN d
                        THEN [d EXCEPT ![<<loc.chip, l.addr>>] = l.val]
                        ELSE d]

\* caldac_setup: nb_bits per channel when the chips differ in width
\* (the chan_desc loop), else that of chip 0 for every channel.
DiffBits(b) == \E i \in DOMAIN b : NBits[b[i]] # NBits[b[1]]
ChanNbBits(b) ==
    LET RECURSIVE D(_)
        D(i) == IF i > Len(b) THEN <<>>
                ELSE [j \in 1..NChans[b[i]] |-> NBits[b[i]]] \o D(i + 1)
    IN  D(1)
Midscale(b, chan) ==
    2 ^ (IF DiffBits(b) THEN ChanNbBits(b)[chan + 1] ELSE NBits[b[1]]) \div 2

\* caldac_setup's last loop: midscale written to every channel in order.
CaldacSetup(b, c, d) ==
    LET RECURSIVE W(_, _)
        W(chan, s) == IF chan = NCaldacs(b) THEN s
                      ELSE W(chan + 1, WriteCaldac(b, s.cache, s.dac, chan,
                                                   Midscale(b, chan)))
    IN  W(0, [cache |-> c, dac |-> d])

\* ni_calib_insn_read: the cached value.
CalibRead(c, chan) == c[chan]

-----------------------------------------------------------------------------
VARIABLES
    prev,       \* the command as handed to the last cmdtest call
    cmd,        \* the command as that call left it
    ret,        \* what it returned: "NONE" before the first call
    pwm,        \* devpriv->pwm_up_count, pwm_down_count
    programmed, \* history: the times of the last accepted PWM request
    caldacs,    \* devpriv->caldacs[]: the value last written to each channel
    dac         \* the register of each caldac chip channel: <<chip, chan>>

vars == <<prev, cmd, ret, pwm, programmed, caldacs, dac>>

\* The chips' registers before attach: not known to the driver. One value
\* the zeroed cache agrees with and one it does not.
PowerUpValues == {0, 1}

\* The channels the calibration client writes: the first and the last of
\* each chip, where the chip loop's arithmetic changes.
CalibChans(b) ==
    {chan \in 0..(NCaldacs(b) - 1) :
        \E i \in DOMAIN b : LET lo == NCaldacs(SubSeq(b, 1, i - 1))
                           IN  chan \in {lo, lo + NChans[b[i]] - 1}}

\* The data written: 0 and the channel's maxdata.
CalibVals(b, chan) == {0, 2 * Midscale(b, chan) - 1}

\* devpriv is zero-allocated and ni_E_init writes 0 to M_Offset_Cal_PWM.
Init ==
    /\ cmd \in Inputs
    /\ prev = cmd
    /\ ret = "NONE"
    /\ pwm = [up |-> 0, down |-> 0]
    /\ programmed = [up |-> 0, down |-> 0]
    /\ IF cmd.subd = "CALIB"
       THEN /\ caldacs = [chan \in 0..(NCaldacs(cmd.board) - 1) |-> 0]
            /\ dac \in {[s \in Slots(cmd.board) |-> v] : v \in PowerUpValues}
       ELSE caldacs = <<>> /\ dac = <<>>

\* The caller submits the command (as corrected by the previous call) to
\* cmdtest until it returns 0.
Submit ==
    /\ ret # "OK" /\ cmd.subd \in {"AI", "AO", "DIO"}
    /\ LET r == Cmdtest(cmd)
       IN  /\ prev' = cmd
           /\ cmd' = r.cmd
           /\ ret' = r.ret
    /\ UNCHANGED <<pwm, programmed, caldacs, dac>>

\* The same loop for a PWM_OUTPUT request, resubmitted until it returns 0.
PwmSubmit ==
    /\ ret # "OK" /\ cmd.subd = "PWM"
    /\ LET r == PwmConfig(cmd, pwm)
       IN  /\ prev' = cmd
           /\ cmd' = r.cmd
           /\ ret' = r.ret
           /\ pwm' = r.pwm
           /\ programmed' = IF r.ret = "OK" THEN [up |-> cmd.up,
                                                  down |-> cmd.down]
                             ELSE programmed
    /\ UNCHANGED <<caldacs, dac>>

\* Once a PWM request is accepted, the caller may ask for new times.
PwmRequest ==
    /\ ret = "OK" /\ cmd.subd = "PWM"
    /\ \E c \in PwmInputs : cmd' = c /\ prev' = c
    /\ ret' = "NONE"
    /\ UNCHANGED <<pwm, programmed, caldacs, dac>>

\* ni_E_init on a board with caldacs: caldac_setup writes midscale to
\* every channel through ni_write_caldac.
CalibAttach ==
    /\ ret = "NONE" /\ cmd.subd = "CALIB"
    /\ LET r == CaldacSetup(cmd.board, caldacs, dac)
       IN  caldacs' = r.cache /\ dac' = r.dac
    /\ ret' = "OK"
    /\ UNCHANGED <<prev, cmd, pwm, programmed>>

\* ni_calib_insn_write: ni_write_caldac(CR_CHAN(chan_desc), data[0]).
CalibInsnWrite(chan, val) ==
    /\ ret = "OK" /\ cmd.subd = "CALIB"
    /\ LET r == WriteCaldac(cmd.board, caldacs, dac, chan, val)
       IN  caldacs' = r.cache /\ dac' = r.dac
    /\ UNCHANGED <<prev, cmd, ret, pwm, programmed>>

Next == \/ Submit \/ PwmSubmit \/ PwmRequest \/ CalibAttach
        \/ /\ cmd.subd = "CALIB"
           /\ \E chan \in CalibChans(cmd.board) :
                 \E val \in CalibVals(cmd.board, chan) : CalibInsnWrite(chan, val)

\* The caller's loop resubmits until it is answered 0; new requests are
\* up to the caller.
Spec == Init /\ [][Next]_vars /\ WF_vars(Submit) /\ WF_vars(PwmSubmit)

-----------------------------------------------------------------------------
(* Reference definitions, from the contract of the command validator.      *)

\* A command the board can run exactly as written.
Valid(c) ==
    /\ c.start = "EXT" => c.startArg <= 16
    /\ c.start # "EXT" => c.startArg = 0
    /\ c.scan = "TIMER" => /\ MinScanPeriod(c.nb) <= c.scanArg
                           /\ c.scanArg <= ClockNs * MaxScanTicks
                           /\ c.scanArg % ClockNs = 0
    /\ c.scan = "EXT" => c.scanArg <= 16
    /\ c.conv = "TIMER" /\ Board = "611x" => c.convArg = 0
    /\ c.conv = "TIMER" /\ Board # "611x" =>
           /\ AiSpeed <= c.convArg /\ c.convArg <= ClockNs * MaxConvTicks
           /\ c.convArg % ClockNs = 0
           /\ c.scan = "TIMER" => c.scanArg >= c.convArg * c.nb
    /\ c.conv = "EXT" => c.convArg <= 16
    /\ c.conv = "NOW" => c.convArg = 0
    /\ c.scanEnd = c.nb
    /\ c.stop = "COUNT" => c.stopArg \in 1..MaxStopArg
    /\ c.stop = "NONE" => c.stopArg = 0

\* An AO command the board can run as written.
ValidAo(c) ==
    /\ c.startArg = 0
    /\ c.scan = "TIMER" => /\ AoSpeed <= c.scanArg
                           /\ c.scanArg <= ClockNs * MaxScanTicks
                           /\ c.scanArg % ClockNs = 0
    /\ c.convArg = 0
    /\ c.scanEnd = c.nb
    /\ c.stop = "COUNT" => c.stopArg <= MaxAoCount
    /\ c.stop = "NONE" => c.stopArg = 0

\* A CDIO command ni_cdio_cmd runs as the caller meant it.
ValidDio(c) ==
    /\ c.startArg = 0 /\ c.convArg = 0 /\ c.stopArg = 0
    /\ c.scanArg = CdoScanArg
    /\ c.scanEnd = c.nb
    /\ c.inOrder

\* The achievable periods: whole numbers of clock ticks.
Achievable(ns) == { ClockNs * k : k \in 0..(ns \div ClockNs + 1) }

\* Nearest achievable period (ties to the longer one), the longest not
\* above and the shortest not below.
RefQuantize(ns, round) ==
    LET below == Max({a \in Achievable(ns) : a <= ns})
        above == Min({a \in Achievable(ns) : a >= ns})
    IN  CASE round = "DOWN" -> below
          [] round = "UP"   -> above
          [] round = "NEAREST" -> IF ns - below < above - ns THEN below
                                  ELSE above


-----------------------------------------------------------------------------
(* Properties.                                                             *)

\* ni_ai_cmdtest returns 0 exactly for the commands the board can run as
\* written, and leaves such a command untouched (spec 8.1: idempotence);
\* any other command is rejected.
AcceptsExactlyValid ==
    ret # "NONE" /\ prev.subd = "AI" =>
                    /\ (ret = "OK") = Valid(prev)
                    /\ ret = "OK" => cmd = prev

\* The step 4 round trip ni_timer_to_ns(ni_ns_to_timer(t, round)) gives
\* the nearest, the next lower or the next higher whole number of clock
\* ticks, for every timer argument the caller holds.
QuantizeMatchesReference ==
    cmd.subd \notin {"PWM", "CALIB"} => \A r \in Rounds :
        /\ cmd.scan = "TIMER" =>
               Quantize(cmd.scanArg, r) = RefQuantize(cmd.scanArg, r)
        /\ cmd.conv = "TIMER" =>
               Quantize(cmd.convArg, r) = RefQuantize(cmd.convArg, r)

\* ni_ao_cmdtest may return 0 after correcting the command in place, but
\* the command it leaves behind, which ni_ao_cmd then runs, is one the
\* board can run: its step 4 rejects any period the scan timer cannot
\* produce, whatever the silent corrections before it did. Likewise
\* ni_cdio_cmdtest accepts only the packed sample source ni_cdio_cmd
\* decodes and a channel list in order, whatever its earlier corrections.
OutputAcceptsOnlyRunnable ==
    ret = "OK" =>
        /\ prev.subd = "AO" => ValidAo(cmd)
        /\ prev.subd = "DIO" => ValidDio(cmd)

\* The submit / correct / resubmit loop the validator is designed for
\* terminates: every AI command is eventually accepted by ni_ai_cmdtest.
CmdtestConverges == cmd.subd = "AI" => <>(ret = "OK")

\* The same loop for the AO subdevice: every AO command is eventually
\* accepted by ni_ao_cmdtest.
AoCmdtestConverges == cmd.subd = "AO" => <>(ret = "OK")

\* The times ni_get_pwm_config reports are those of the last PWM_OUTPUT
\* request ni_m_series_pwm_config accepted: a request answered -EAGAIN or
\* -EINVAL leaves the stored counts alone, and accepted counts convert
\* back to exactly the times asked for.
PwmGetReportsProgrammed == PwmGet(pwm) = programmed

\* The -EAGAIN answer is a configuration the board produces exactly:
\* resubmitting it unchanged, with the same rounding modes, is accepted.
PwmConfigConverges == (cmd.subd = "PWM" /\ ret = "EAGAIN") ~> (ret = "OK")

\* Once attached, what ni_calib_insn_read reports for a channel is the
\* value its DAC holds: caldac_setup has overwritten the unknown power-up
\* registers, a write the cache skips is one the chip already holds, and
\* the chip loop of ni_write_caldac routes each frame to the chip and chip
\* channel that hold the subdevice channel (channels numbered chip after
\* chip), in the format that chip decodes.
CalibReadMatchesDac ==
    cmd.subd = "CALIB" /\ ret = "OK" =>
        \A i \in DOMAIN cmd.board : \A a \in 0..(NChans[cmd.board[i]] - 1) :
            CalibRead(caldacs, NCaldacs(SubSeq(cmd.board, 1, i - 1)) + a)
                = dac[<<i, a>>]

=============================================================================
