----------------------------- MODULE AdcMcp3008 -----------------------------
(***************************************************************************)
(* One input channel of the MCP3008 driver, adc_mcp3008.c: the ring of     *)
(* samples, its running sum, the filtered value the driver reports and the *)
(* flag that tells the API server that the value is news.                  *)
(*                                                                         *)
(* The channels share a mutex and nothing else: every function below does  *)
(* its work on ADC_MCP3008[id] in one critical section, so one channel is  *)
(* one state machine, and each function is one action.                     *)
(***************************************************************************)
EXTENDS Integers, Sequences, Sums

CONSTANTS
    FifoSize,   \* ADC_MCP3008_FIFO_MAX_SIZE
    DeadBand,   \* ADC_MCP3008_DEAD_BAND
    MinValue,   \* ADC_MCP3008_MIN_VALUE
    MaxValue,   \* ADC_MCP3008_MAX_VALUE
    Samples     \* what the ten bits received from the converter can be

ASSUME FifoAssumption  == FifoSize \in Nat /\ FifoSize > 0
ASSUME BandAssumption  == DeadBand \in Nat /\ DeadBand > 0
\* raw_value starts at 0, whatever ADC_MCP3008_MIN_VALUE is.
ASSUME RangeAssumption == /\ MinValue \in Int /\ MaxValue \in Int
                          /\ MinValue <= 0 /\ 0 <= MaxValue
ASSUME SampleAssumption == Samples \subseteq Nat \cap (MinValue..MaxValue)

VARIABLES
    fd,            \* of the channel's spidev: -1 when the device is missing
    fifo_values, fifo_pos, fifo_sum, fifo_count,
    raw_value,     \* the value reported to the API server
    is_updated

fifo == <<fifo_values, fifo_pos, fifo_sum, fifo_count>>
vars == <<fd, fifo, raw_value, is_updated>>

Slots == 0..FifoSize - 1

-----------------------------------------------------------------------------
(* adc_mcp3008_init has run. A spidev that cannot be found is not an error *)
(* and leaves its descriptor at -1.                                        *)
Init ==
    /\ fd \in {-1, 0}
    /\ fifo_values = [k \in Slots |-> 0]
    /\ fifo_pos = 0
    /\ fifo_sum = 0
    /\ fifo_count = 0
    /\ raw_value = 0
    /\ is_updated = FALSE

\* The definitions named Slip... are slips a programmer could make in the
\* definition that follows them; PROJECT.json pairs each with the property
\* that notices it. No definition of the model uses them.
SlipNoWrap(pos) == pos + 1

\* fifo_push: where the next value goes.
NextPos(pos) == IF pos + 1 = FifoSize THEN 0 ELSE pos + 1

SlipEvictAfterPush ==
    IF fifo_count = FifoSize THEN fifo_values[NextPos(fifo_pos)] ELSE 0

\* What leaves the sum when a full ring is overwritten at fifo_pos.
Evicted == IF fifo_count = FifoSize THEN fifo_values[fifo_pos] ELSE 0

SlipCountPastSize ==
    IF fifo_count <= FifoSize THEN fifo_count + 1 ELSE fifo_count

CountAfterPush == IF fifo_count < FifoSize THEN fifo_count + 1 ELSE fifo_count

Clamp(v) == IF v < MinValue THEN MinValue
            ELSE IF v > MaxValue THEN MaxValue ELSE v

Rails == {MinValue, MaxValue}

SlipOpenBand(mean, raw) ==
    \/ mean < MaxValue /\ (mean < raw - DeadBand \/ mean > raw + DeadBand)
    \/ mean \in Rails /\ mean # raw

SlipNarrowBand(mean, raw) ==
    \/ mean < MaxValue /\ (mean < raw - DeadBand + 2 \/ mean > raw + DeadBand - 2)
    \/ mean \in Rails /\ mean # raw

SlipAlwaysAtRails(mean, raw) ==
    \/ mean < MaxValue /\ (mean <= raw - DeadBand \/ mean >= raw + DeadBand)
    \/ mean \in Rails

SlipOneSided(mean, raw) ==
    \/ mean < MaxValue /\ mean >= raw + DeadBand
    \/ mean \in Rails /\ mean # raw

SlipNoRails(mean, raw) ==
    mean <= raw - DeadBand \/ mean >= raw + DeadBand

\* The C condition, as it is written.
MustReport(mean, raw) ==
    \/ /\ mean < MaxValue
       /\ mean <= raw - DeadBand \/ mean >= raw + DeadBand
    \/ mean \in Rails /\ mean # raw

-----------------------------------------------------------------------------
(* adc_mcp3008_read, a transfer that succeeded. C divides towards zero and *)
(* \div downwards; the two agree because ten received bits are never       *)
(* negative, and neither is their sum.                                     *)
Report(mean) ==
    IF MustReport(mean, raw_value)
      THEN raw_value' = mean /\ is_updated' = TRUE
      ELSE UNCHANGED <<raw_value, is_updated>>

adc_mcp3008_read(sample) ==
    /\ fd >= 0
    /\ fifo_values' = [fifo_values EXCEPT ![fifo_pos] = sample]
    /\ fifo_pos' = NextPos(fifo_pos)
    /\ fifo_sum' = fifo_sum - Evicted + sample
    /\ fifo_count' = CountAfterPush
    /\ Report(Clamp(fifo_sum' \div fifo_count'))
    /\ UNCHANGED fd

\* adc_mcp3008_read without a descriptor, or with a transfer that failed.
adc_mcp3008_read_nothing == UNCHANGED vars

\* Called by the API server, and only with false.
adc_mcp3008_set_is_updated(flag) ==
    /\ is_updated' = flag
    /\ UNCHANGED <<fd, fifo, raw_value>>

Read == \E sample \in Samples : adc_mcp3008_read(sample)

Next ==
    \/ Read
    \/ adc_mcp3008_read_nothing
    \/ adc_mcp3008_set_is_updated(FALSE)

Spec == Init /\ [][Next]_vars

\* The main loop reads every channel, for ever. Transfers may fail, but not
\* all of them from some moment on.
FairSpec == Spec /\ WF_vars(Read)

-----------------------------------------------------------------------------
(* Properties *)

\* The state has its types: the ring index stays inside the ring, the count
\* inside 0..FifoSize, and what is reported inside the converter's range.
TypeOK ==
    /\ fd \in {-1, 0}
    /\ fifo_values \in [Slots -> Samples \cup {0}]
    /\ fifo_pos \in Slots
    /\ fifo_sum \in Int
    /\ fifo_count \in 0..FifoSize
    /\ raw_value \in MinValue..MaxValue
    /\ is_updated \in BOOLEAN

\* The k-th oldest sample in the ring, k in 1..fifo_count.
Aged(k) == fifo_values[(fifo_pos + FifoSize - fifo_count + k - 1) % FifoSize]

\* The samples in the ring, oldest first.
Window == [k \in 1..fifo_count |-> Aged(k)]

Mean == Clamp(fifo_sum \div fifo_count)

\* Whatever was read, in whatever order with the acknowledgements of the API
\* server, the reported value is closer than the dead band to the mean of the
\* ring, and equal to it when the mean is at an end of the range: no sequence
\* of small steps makes the report drift away (adc_mcp3008_read's condition).
WithinDeadBand ==
    fifo_count > 0 => /\ Mean - raw_value < DeadBand
                      /\ raw_value - Mean < DeadBand
                      /\ Mean \in Rails => raw_value = Mean

\* The running sum is the sum of the samples in the ring, so it never leaves
\* the range of an int, however long the driver runs.
SumMatchesWindow == fifo_sum = Sum(Window)

\* A ring full of one value has that value reported, within the dead band and
\* exactly at the ends: nothing older than FifoSize reads is left in fifo_sum,
\* which is only ever adjusted, never recomputed.
ForgetsOldSamples ==
    \A v \in Samples :
        (fifo_count = FifoSize /\ \A k \in Slots : fifo_values[k] = v)
            => /\ Mean = v
               /\ raw_value - v < DeadBand /\ v - raw_value < DeadBand

\* The value never changes silently and never by less than the dead band
\* unless it reaches an end of the range; the flag never rises without a
\* change (the log line and the flag are for "updated inputs" only).
ReportsAreNews ==
    [][ /\ raw_value' # raw_value =>
             /\ is_updated'
             /\ \/ raw_value' >= raw_value + DeadBand
                \/ raw_value' <= raw_value - DeadBand
                \/ raw_value' \in Rails
        /\ is_updated' /\ ~is_updated => raw_value' # raw_value ]_vars

\* Noise rejection: while every sample kept and the new one stay closer than
\* the dead band to the reported value, and off the ends, a read reports
\* nothing.
NoiseIsNotReported ==
    [][ (/\ fifo_count > 0
         /\ \A k \in 1..fifo_count' :
              /\ Aged(k)' \notin Rails
              /\ Aged(k)' - raw_value < DeadBand
              /\ raw_value - Aged(k)' < DeadBand)
        => raw_value' = raw_value ]_vars

Filter == INSTANCE MovingAverage
            WITH window <- Window, shown <- raw_value, news <- is_updated,
                 Size <- FifoSize, Band <- DeadBand,
                 Low <- MinValue, High <- MaxValue, Inputs <- Samples

\* The ring with its running sum shows exactly what the mean of the latest
\* FifoSize samples would show.
ImplementsMovingAverage == Filter!Spec

\* What the API server sees of a channel: an input like any other, the ring
\* and the dead band behind it.
Interface == INSTANCE Input
               WITH value <- raw_value, news <- is_updated, started <- TRUE,
                    Worths <- MinValue..MaxValue

\* An input held at v is reported in the end, within the dead band: the filter
\* reacts, and the report then stays there.
HeldInputIsReported ==
    \A v \in Samples :
        <>[](fifo_count > 0 /\ Aged(fifo_count) = v)
            => <>[](raw_value - v < DeadBand /\ v - raw_value < DeadBand
                    /\ (v \in Rails => raw_value = v))
=============================================================================
