-------------------------- MODULE AdcMcp3008Proofs --------------------------
(***************************************************************************)
(* Theorems about AdcMcp3008, for every size of the ring, every dead band, *)
(* every range and every set of samples the converter can return.          *)
(***************************************************************************)
EXTENDS AdcMcp3008, SumsProofs, TLAPS

\* A clamped integer is in the range of the converter.
LEMMA ClampInRange ==
    ASSUME NEW v \in Int
    PROVE  Clamp(v) \in MinValue..MaxValue
BY RangeAssumption DEF Clamp, RangeAssumption

\* What fifo_push and the count around it do to the ring.
LEMMA PushKeepsShape ==
    ASSUME TypeOK, NEW sample \in Samples, adc_mcp3008_read(sample)
    PROVE  /\ fifo_values' \in [Slots -> Samples \cup {0}]
           /\ fifo_pos' \in Slots
           /\ fifo_count' \in 1..FifoSize
           /\ fifo_sum' \in Int
<1>1. fifo_values' \in [Slots -> Samples \cup {0}]
  BY DEF adc_mcp3008_read, TypeOK
<1>2. fifo_pos' \in Slots
  BY FifoAssumption DEF adc_mcp3008_read, TypeOK, Slots, NextPos, FifoAssumption
<1>3. fifo_count' \in 1..FifoSize
  BY FifoAssumption DEF adc_mcp3008_read, TypeOK, CountAfterPush, FifoAssumption
<1>4. Evicted \in Int
  <2>1. fifo_values[fifo_pos] \in Samples \cup {0}
    BY DEF TypeOK
  <2>2. Samples \cup {0} \subseteq Int
    BY SampleAssumption, RangeAssumption DEF SampleAssumption, RangeAssumption
  <2>3. fifo_values[fifo_pos] \in Int
    BY <2>1, <2>2
  <2>4. QED
    BY <2>3 DEF Evicted
<1>5. fifo_sum' \in Int
  BY <1>4, SampleAssumption, RangeAssumption
     DEF adc_mcp3008_read, TypeOK, SampleAssumption, RangeAssumption
<1>6. QED
  BY <1>1, <1>2, <1>3, <1>5

\* After a read, Mean is the clamped quotient the read compared.
LEMMA ReadComparesMean ==
    ASSUME TypeOK, NEW sample \in Samples, adc_mcp3008_read(sample)
    PROVE  /\ Mean' \in MinValue..MaxValue
           /\ Report(Mean')
<1>1. fifo_sum' \div fifo_count' \in Int
  BY PushKeepsShape
<1>2. Clamp(fifo_sum' \div fifo_count') \in MinValue..MaxValue
  BY <1>1, ClampInRange
<1>3. Mean' = Clamp(fifo_sum' \div fifo_count')
  BY DEF Mean, Clamp
<1>4. QED
  BY <1>2, <1>3 DEF adc_mcp3008_read

\* The table adc_mcp3008_init leaves is well typed.
LEMMA TypeInit == Init => TypeOK
<1> SUFFICES ASSUME Init PROVE TypeOK
  OBVIOUS
<1>1. fifo_values \in [Slots -> Samples \cup {0}]
  BY DEF Init
<1>2. fifo_pos \in Slots
  BY FifoAssumption DEF Init, Slots, FifoAssumption
<1>3. fifo_count \in 0..FifoSize
  BY FifoAssumption DEF Init, FifoAssumption
<1>4. raw_value \in MinValue..MaxValue
  BY RangeAssumption DEF Init, RangeAssumption
<1>5. fd \in {-1, 0} /\ is_updated \in BOOLEAN
  BY DEF Init
<1>6. fifo_sum \in Int
  BY DEF Init
<1>7. QED
  BY <1>1, <1>2, <1>3, <1>4, <1>5, <1>6 DEF TypeOK

\* Every function of the driver keeps it so.
LEMMA TypeStep == TypeOK /\ [Next]_vars => TypeOK'
<1> SUFFICES ASSUME TypeOK, [Next]_vars PROVE TypeOK'
  OBVIOUS
<1>1. CASE Read
  <2>1. PICK sample \in Samples : adc_mcp3008_read(sample)
    BY <1>1 DEF Read
  <2>2. raw_value' \in MinValue..MaxValue /\ is_updated' \in BOOLEAN
    BY <2>1, ReadComparesMean DEF Report, TypeOK
  <2>3. fd' \in {-1, 0}
    BY <2>1 DEF adc_mcp3008_read, TypeOK
  <2>4. fifo_count' \in 0..FifoSize
    BY <2>1, PushKeepsShape, FifoAssumption DEF FifoAssumption
  <2>5. QED
    BY <2>1, <2>2, <2>3, <2>4, PushKeepsShape DEF TypeOK, Slots
<1>2. CASE adc_mcp3008_set_is_updated(FALSE)
  BY <1>2 DEF adc_mcp3008_set_is_updated, TypeOK, fifo, Slots
<1>3. CASE UNCHANGED vars
  BY <1>3 DEF vars, fifo, TypeOK, Slots
<1>4. QED
  BY <1>1, <1>2, <1>3 DEF Next, adc_mcp3008_read_nothing

\* The state always has its types: no execution runs the ring index or the
\* count out of the ring, or reports a value the converter does not have.
THEOREM TypeCorrect == Spec => []TypeOK
BY TypeInit, TypeStep, PTL DEF Spec

\* The heart of the argument: a read that does not report leaves a mean the
\* condition calls close, and a read that reports makes the two equal.
LEMMA ReadEndsWithinDeadBand ==
    ASSUME TypeOK, NEW sample \in Samples, adc_mcp3008_read(sample)
    PROVE  WithinDeadBand'
<1>1. PICK mean \in MinValue..MaxValue : mean = Mean'
  BY ReadComparesMean
<1>2. mean \in Int /\ raw_value \in Int /\ mean <= MaxValue
  BY RangeAssumption DEF TypeOK, RangeAssumption
<1>3. Report(mean)
  BY <1>1, ReadComparesMean
<1>4. SUFFICES /\ mean - raw_value' < DeadBand
               /\ raw_value' - mean < DeadBand
               /\ mean \in Rails => raw_value' = mean
  BY <1>1 DEF WithinDeadBand, Rails
<1>5. CASE MustReport(mean, raw_value)
  <2>1. raw_value' = mean
    BY <1>3, <1>5 DEF Report
  <2>2. QED
    BY <1>2, <2>1, BandAssumption DEF BandAssumption
<1>6. CASE ~MustReport(mean, raw_value)
  <2>1. raw_value' = raw_value
    BY <1>3, <1>6 DEF Report
  <2>2. CASE mean \in Rails
    <3>1. raw_value' = mean
      BY <1>6, <2>1, <2>2 DEF MustReport
    <3>2. QED
      BY <1>2, <3>1, BandAssumption DEF BandAssumption
  <2>3. CASE mean \notin Rails
    <3>1. mean < MaxValue
      BY <1>2, <2>3, RangeAssumption DEF Rails, RangeAssumption
    <3>2. ~(mean <= raw_value - DeadBand) /\ ~(mean >= raw_value + DeadBand)
      BY <1>6, <3>1 DEF MustReport
    <3>3. QED
      BY <1>2, <2>1, <2>3, <3>2, BandAssumption DEF BandAssumption
  <2>4. QED
    BY <2>2, <2>3
<1>7. QED
  BY <1>5, <1>6

\* Every function keeps the report within the dead band of the mean.
LEMMA BandStep == TypeOK /\ WithinDeadBand /\ [Next]_vars => WithinDeadBand'
<1> SUFFICES ASSUME TypeOK, WithinDeadBand, [Next]_vars PROVE WithinDeadBand'
  OBVIOUS
<1>1. CASE Read
  BY <1>1, ReadEndsWithinDeadBand DEF Read
<1>2. CASE adc_mcp3008_set_is_updated(FALSE)
  BY <1>2 DEF adc_mcp3008_set_is_updated, fifo, WithinDeadBand, Mean, Clamp, Rails
<1>3. CASE UNCHANGED vars
  BY <1>3 DEF vars, fifo, WithinDeadBand, Mean, Clamp, Rails
<1>4. QED
  BY <1>1, <1>2, <1>3 DEF Next, adc_mcp3008_read_nothing

\* The reported value is never as far as the dead band from the mean of the
\* ring, and equal to it at the ends of the range.
THEOREM ReportFollowsMean == Spec => []WithinDeadBand
<1>1. Init => WithinDeadBand
  BY DEF Init, WithinDeadBand
<1>2. QED
  BY <1>1, TypeInit, TypeStep, BandStep, PTL DEF Spec

\* One read changes the report only by the dead band or onto an end of the
\* range, raises the flag when it does, and never raises it otherwise.
LEMMA ReadReportsNews ==
    ASSUME TypeOK, NEW sample \in Samples, adc_mcp3008_read(sample)
    PROVE  /\ raw_value' # raw_value =>
                /\ is_updated'
                /\ \/ raw_value' >= raw_value + DeadBand
                   \/ raw_value' <= raw_value - DeadBand
                   \/ raw_value' \in Rails
           /\ is_updated' /\ ~is_updated => raw_value' # raw_value
<1>1. raw_value \in Int /\ Mean' \in Int /\ Report(Mean')
  BY ReadComparesMean, RangeAssumption DEF TypeOK, RangeAssumption
<1>2. CASE MustReport(Mean', raw_value)
  <2>1. raw_value' = Mean' /\ is_updated'
    BY <1>1, <1>2 DEF Report
  <2>2. raw_value' # raw_value
    BY <1>1, <1>2, <2>1, BandAssumption DEF MustReport, BandAssumption
  <2>3. QED
    BY <1>2, <2>1, <2>2 DEF MustReport
<1>3. CASE ~MustReport(Mean', raw_value)
  BY <1>1, <1>3 DEF Report
<1>4. QED
  BY <1>2, <1>3

\* A flag the API server sees is about a value that changed, and a value that
\* changed is flagged.
THEOREM FlagsAreNews == Spec => ReportsAreNews
<1>1. ASSUME TypeOK, [Next]_vars
      PROVE  [ /\ raw_value' # raw_value =>
                    /\ is_updated'
                    /\ \/ raw_value' >= raw_value + DeadBand
                       \/ raw_value' <= raw_value - DeadBand
                       \/ raw_value' \in Rails
               /\ is_updated' /\ ~is_updated => raw_value' # raw_value ]_vars
  <2>1. CASE Read
    BY <1>1, <2>1, ReadReportsNews DEF Read
  <2>2. CASE adc_mcp3008_set_is_updated(FALSE)
    BY <2>2 DEF adc_mcp3008_set_is_updated
  <2>3. CASE UNCHANGED vars
    BY <2>3
  <2>4. QED
    BY <1>1, <2>1, <2>2, <2>3 DEF Next, adc_mcp3008_read_nothing
<1>2. QED
  BY <1>1, TypeCorrect, PTL DEF Spec, ReportsAreNews

-----------------------------------------------------------------------------
(* The ring is the window of the latest samples *)

\* A position at most one turn ahead.
LEMMA OneTurn ==
    ASSUME NEW n \in Nat, n > 0, NEW x \in 0..2 * n - 1
    PROVE  x % n = IF x < n THEN x ELSE x - n
OBVIOUS

\* Where the k-th oldest of count samples is when pos comes next.
Place(pos, count, k) ==
    IF pos + k - 1 < count THEN pos + FifoSize - count + k - 1
                           ELSE pos - count + k - 1

\* That is the position Aged reads, and it is inside the ring.
LEMMA PlaceOfAged ==
    ASSUME NEW pos \in Slots, NEW count \in 0..FifoSize, NEW k \in 1..count
    PROVE  /\ (pos + FifoSize - count + k - 1) % FifoSize = Place(pos, count, k)
           /\ Place(pos, count, k) \in Slots
<1> DEFINE x == pos + FifoSize - count + k - 1
<1>1. FifoSize \in Nat /\ FifoSize > 0
  BY FifoAssumption DEF FifoAssumption
<1>2. x \in 0..2 * FifoSize - 1
  BY <1>1 DEF Slots
<1>3. x % FifoSize = IF x < FifoSize THEN x ELSE x - FifoSize
  BY <1>1, <1>2, OneTurn
<1>4. (IF x < FifoSize THEN x ELSE x - FifoSize) = Place(pos, count, k)
  BY <1>1 DEF Place, Slots
<1>5. Place(pos, count, k) \in Slots
  BY <1>1 DEF Place, Slots
<1> HIDE DEF x
<1>6. QED
  BY <1>3, <1>4, <1>5 DEF x

\* The same of the ring.
LEMMA AgedPosition ==
    ASSUME TypeOK, NEW k \in 1..fifo_count
    PROVE  /\ Aged(k) = fifo_values[Place(fifo_pos, fifo_count, k)]
           /\ Place(fifo_pos, fifo_count, k) \in Slots
BY PlaceOfAged DEF Aged, TypeOK

\* The same of the ring after a step.
LEMMA AgedPositionNext ==
    ASSUME TypeOK', NEW k \in 1..fifo_count'
    PROVE  /\ Aged(k)' = fifo_values'[Place(fifo_pos', fifo_count', k)]
           /\ Place(fifo_pos', fifo_count', k) \in Slots
<1>1. Slots' = Slots
  BY DEF Slots
<1>2. QED
  BY <1>1, PlaceOfAged DEF Aged, TypeOK

\* Storing a sample moves every other one to its next age.
LEMMA PlaceAfterPush ==
    ASSUME NEW pos \in Slots, NEW count \in 0..FifoSize
    PROVE  /\ count < FifoSize =>
                /\ Place(NextPos(pos), count + 1, count + 1) = pos
                /\ \A k \in 1..count :
                     /\ Place(NextPos(pos), count + 1, k) = Place(pos, count, k)
                     /\ Place(pos, count, k) # pos
           /\ count = FifoSize =>
                /\ Place(NextPos(pos), count, count) = pos
                /\ Place(pos, count, 1) = pos
                /\ \A k \in 1..count - 1 :
                     /\ Place(NextPos(pos), count, k) = Place(pos, count, k + 1)
                     /\ Place(pos, count, k + 1) # pos
BY FifoAssumption DEF Place, NextPos, Slots, FifoAssumption

\* What is in the ring is a sample, or the 0 it starts with.
LEMMA AgedIsSample ==
    ASSUME TypeOK, NEW k \in 1..fifo_count
    PROVE  /\ Aged(k) \in Samples \cup {0}
           /\ Aged(k) \in MinValue..MaxValue /\ Aged(k) \in Nat
<1>1. Aged(k) \in Samples \cup {0}
  BY AgedPosition DEF TypeOK
<1>2. 0 \in MinValue..MaxValue
  BY RangeAssumption DEF RangeAssumption
<1>3. \A x \in Samples \cup {0} : x \in MinValue..MaxValue /\ x \in Nat
  BY <1>2, SampleAssumption DEF SampleAssumption
<1>4. QED
  BY <1>1, <1>3

\* The sequence the ring stands for.
WindowOK ==
    /\ fifo_count \in Nat
    /\ Window \in Seq(Int) /\ Len(Window) = fifo_count
    /\ \A k \in 1..fifo_count : /\ Window[k] = Aged(k)
                                /\ Aged(k) \in MinValue..MaxValue
                                /\ Aged(k) \in Nat

\* It is one, of what the converter can return.
LEMMA WindowType == TypeOK => WindowOK
<1> SUFFICES ASSUME TypeOK PROVE WindowOK
  OBVIOUS
<1>1. fifo_count \in Nat
  BY FifoAssumption DEF TypeOK, FifoAssumption
<1>2. \A k \in 1..fifo_count : Aged(k) \in MinValue..MaxValue /\ Aged(k) \in Nat
  BY AgedIsSample
<1>3. Window \in [1..fifo_count -> Int]
  BY <1>2 DEF Window
<1>4. QED
  BY <1>1, <1>2, <1>3 DEF Window, WindowOK

\* A read of a ring that is not full adds the sample as the youngest.
LEMMA PushGrowsWindow ==
    ASSUME TypeOK, NEW sample \in Samples, adc_mcp3008_read(sample),
           fifo_count < FifoSize
    PROVE  /\ fifo_count' = fifo_count + 1
           /\ \A k \in 1..fifo_count' :
                Aged(k)' = IF k = fifo_count' THEN sample ELSE Aged(k)
<1>1. TypeOK' /\ fifo_count \in Nat /\ fifo_pos \in Slots /\ fifo_count \in 0..FifoSize
  BY TypeStep, WindowType DEF TypeOK, Next, Read, WindowOK
<1>2. /\ fifo_count' = fifo_count + 1
      /\ fifo_pos' = NextPos(fifo_pos)
      /\ \A slot \in Slots :
           fifo_values'[slot] = IF slot = fifo_pos THEN sample ELSE fifo_values[slot]
  BY <1>1 DEF adc_mcp3008_read, CountAfterPush, TypeOK
<1>3. ASSUME NEW k \in 1..fifo_count', k = fifo_count' PROVE Aged(k)' = sample
  <2>1. Aged(k)' = fifo_values'[Place(fifo_pos', fifo_count', k)]
    BY <1>1, AgedPositionNext
  <2>2. Place(fifo_pos', fifo_count', k) = fifo_pos
    BY <1>1, <1>2, <1>3, PlaceAfterPush
  <2>3. QED
    BY <1>1, <1>2, <2>1, <2>2
<1>4. ASSUME NEW k \in 1..fifo_count PROVE Aged(k)' = Aged(k)
  <2>1. k \in 1..fifo_count'
    BY <1>1, <1>2
  <2>2. Aged(k)' = fifo_values'[Place(fifo_pos', fifo_count', k)]
    BY <1>1, <2>1, AgedPositionNext
  <2>3. /\ Place(fifo_pos', fifo_count', k) = Place(fifo_pos, fifo_count, k)
        /\ Place(fifo_pos, fifo_count, k) # fifo_pos
    BY <1>1, <1>2, PlaceAfterPush
  <2>4. QED
    BY <1>2, <2>2, <2>3, AgedPosition
<1>5. ASSUME NEW k \in 1..fifo_count', k # fifo_count' PROVE k \in 1..fifo_count
  BY <1>1, <1>2, <1>5
<1>6. QED
  BY <1>2, <1>3, <1>4, <1>5

\* A read of a full ring does the same and drops the oldest.
LEMMA PushMovesWindow ==
    ASSUME TypeOK, NEW sample \in Samples, adc_mcp3008_read(sample),
           fifo_count = FifoSize
    PROVE  /\ fifo_count' = fifo_count
           /\ Evicted = Aged(1)
           /\ \A k \in 1..fifo_count :
                Aged(k)' = IF k = fifo_count THEN sample ELSE Aged(k + 1)
<1>1. /\ TypeOK' /\ fifo_count \in Nat /\ fifo_count > 0 /\ fifo_pos \in Slots
      /\ fifo_count \in 0..FifoSize
  BY TypeStep, WindowType, FifoAssumption
     DEF TypeOK, Next, Read, WindowOK, FifoAssumption
<1>2. /\ fifo_count' = fifo_count
      /\ fifo_pos' = NextPos(fifo_pos)
      /\ \A slot \in Slots :
           fifo_values'[slot] = IF slot = fifo_pos THEN sample ELSE fifo_values[slot]
  BY <1>1 DEF adc_mcp3008_read, CountAfterPush, TypeOK
<1>3. ASSUME NEW k \in 1..fifo_count, k = fifo_count PROVE Aged(k)' = sample
  <2>1. Aged(k)' = fifo_values'[Place(fifo_pos', fifo_count', k)]
    BY <1>1, <1>2, AgedPositionNext
  <2>2. Place(fifo_pos', fifo_count', k) = fifo_pos
    BY <1>1, <1>2, <1>3, PlaceAfterPush
  <2>3. QED
    BY <1>1, <1>2, <2>1, <2>2
<1>4. Evicted = Aged(1)
  <2>1. 1 \in 1..fifo_count
    BY <1>1
  <2>2. Place(fifo_pos, fifo_count, 1) = fifo_pos
    BY <1>1, PlaceAfterPush
  <2>3. QED
    BY <2>1, <2>2, AgedPosition DEF Evicted
<1>5. ASSUME NEW k \in 1..fifo_count - 1 PROVE Aged(k)' = Aged(k + 1)
  <2>1. k \in 1..fifo_count' /\ k + 1 \in 1..fifo_count
    BY <1>1, <1>2
  <2>2. Aged(k)' = fifo_values'[Place(fifo_pos', fifo_count', k)]
    BY <1>1, <2>1, AgedPositionNext
  <2>3. /\ Place(fifo_pos', fifo_count', k) = Place(fifo_pos, fifo_count, k + 1)
        /\ Place(fifo_pos, fifo_count, k + 1) # fifo_pos
    BY <1>1, <1>2, PlaceAfterPush
  <2>4. QED
    BY <1>2, <2>1, <2>2, <2>3, AgedPosition
<1>6. ASSUME NEW k \in 1..fifo_count, k # fifo_count PROVE k \in 1..fifo_count - 1
  BY <1>1, <1>6
<1>7. QED
  BY <1>2, <1>3, <1>4, <1>5, <1>6

-----------------------------------------------------------------------------
(* The running sum is the sum of the ring *)

\* A read of a ring that is not full adds the sample to the sum.
LEMMA GrowingSum ==
    ASSUME TypeOK, TypeOK', SumMatchesWindow,
           NEW sample \in Samples, adc_mcp3008_read(sample),
           fifo_count < FifoSize
    PROVE  SumMatchesWindow'
<1>1. WindowOK /\ WindowOK' /\ sample \in Int
  <2>1. WindowOK'
    BY WindowType, PTL
  <2>2. QED
    BY <2>1, WindowType, SampleAssumption DEF SampleAssumption
<1> DEFINE w == Window
           n == fifo_count
           v == Window'
<1>2. n \in Nat /\ Len(w) = n /\ fifo_count' = n + 1 /\ Len(v) = n + 1
  BY <1>1, PushGrowsWindow DEF WindowOK
<1>3. /\ \A k \in 1..n : w[k] = Aged(k) /\ w[k] \in Int
      /\ \A k \in 1..n + 1 : v[k] = Aged(k)'
  BY <1>1, <1>2 DEF WindowOK
<1>4. /\ \A k \in 1..n : v[k] = w[k]
      /\ v[n + 1] = sample
  BY <1>2, <1>3, PushGrowsWindow
<1>5. fifo_sum' = fifo_sum + sample
  <2>1. Evicted = 0
    BY <1>2, FifoAssumption DEF Evicted, FifoAssumption
  <2>2. QED
    BY <1>1, <2>1 DEF adc_mcp3008_read, TypeOK
<1>6. fifo_sum = Total(w, n)
  BY <1>2 DEF SumMatchesWindow, Sum
<1> HIDE DEF w, n, v
<1>7. Total(v, n + 1) = Total(v, n) + v[n + 1] /\ Total(v, n) = Total(w, n)
  BY <1>2, <1>4, TotalStep, TotalOfEquals
<1>8. fifo_sum' = Total(v, Len(v))
  BY <1>2, <1>4, <1>5, <1>6, <1>7
<1>9. QED
  BY <1>8 DEF SumMatchesWindow, Sum, v

\* A read of a full ring replaces the oldest sample by the new one in the sum.
LEMMA MovingSum ==
    ASSUME TypeOK, TypeOK', SumMatchesWindow,
           NEW sample \in Samples, adc_mcp3008_read(sample),
           fifo_count = FifoSize
    PROVE  SumMatchesWindow'
<1>1. WindowOK /\ WindowOK' /\ sample \in Int
  <2>1. WindowOK'
    BY WindowType, PTL
  <2>2. QED
    BY <2>1, WindowType, SampleAssumption DEF SampleAssumption
<1> DEFINE w == Window
           m == fifo_count - 1
           v == Window'
<1>2. m \in Nat /\ fifo_count = m + 1 /\ fifo_count' = m + 1
  BY <1>1, PushMovesWindow, FifoAssumption DEF WindowOK, FifoAssumption
<1>3. Len(w) = m + 1 /\ Len(v) = m + 1
  BY <1>1, <1>2 DEF WindowOK
<1>4. /\ \A k \in 1..m + 1 : w[k] = Aged(k) /\ w[k] \in Int
      /\ \A k \in 1..m + 1 : v[k] = Aged(k)'
  BY <1>1, <1>2 DEF WindowOK
<1>5. /\ \A k \in 1..m : v[k] = w[k + 1]
      /\ v[m + 1] = sample
  BY <1>2, <1>4, PushMovesWindow
<1>6. fifo_sum' = fifo_sum - w[1] + sample
  <2>1. Evicted = Aged(1) /\ Aged(1) = w[1]
    BY <1>2, <1>4, PushMovesWindow
  <2>2. QED
    BY <2>1 DEF adc_mcp3008_read
<1>7. fifo_sum = Total(w, m + 1)
  BY <1>3 DEF SumMatchesWindow, Sum
<1> HIDE DEF w, m, v
<1>8. /\ Total(v, m + 1) = Total(v, m) + v[m + 1]
      /\ Total(v, m) = Total(w, m + 1) - w[1]
  BY <1>2, <1>4, <1>5, TotalStep, TotalOfTail
<1>9. fifo_sum' = Total(v, Len(v))
  BY <1>3, <1>5, <1>6, <1>7, <1>8
<1>10. QED
  BY <1>9 DEF SumMatchesWindow, Sum, v

\* Every function keeps the sum that of the ring.
LEMMA SumStep == TypeOK /\ SumMatchesWindow /\ [Next]_vars => SumMatchesWindow'
<1> SUFFICES ASSUME TypeOK, SumMatchesWindow, [Next]_vars
             PROVE  SumMatchesWindow'
  OBVIOUS
<1>1. TypeOK'
  BY TypeStep
<1>2. CASE Read
  <2>1. PICK sample \in Samples : adc_mcp3008_read(sample)
    BY <1>2 DEF Read
  <2>2. fifo_count < FifoSize \/ fifo_count = FifoSize
    BY FifoAssumption DEF TypeOK, FifoAssumption
  <2>3. QED
    BY <1>1, <2>1, <2>2, GrowingSum, MovingSum
<1>3. CASE UNCHANGED fifo
  BY <1>3 DEF fifo, SumMatchesWindow, Window, Aged
<1>4. QED
  BY <1>2, <1>3 DEF Next, adc_mcp3008_read_nothing, adc_mcp3008_set_is_updated, vars

\* The sum of no sample is 0.
LEMMA SumInit == Init => SumMatchesWindow
<1> SUFFICES ASSUME Init PROVE SumMatchesWindow
  OBVIOUS
<1>1. WindowOK /\ fifo_count = 0 /\ fifo_sum = 0
  BY TypeInit, WindowType DEF Init
<1>2. Len(Window) = 0
  BY <1>1 DEF WindowOK
<1>3. QED
  BY <1>1, <1>2, TotalStep DEF SumMatchesWindow, Sum

\* However long the driver runs, its running sum is the sum of the samples in
\* the ring: eviction and addition never drift apart.
THEOREM SumIsOfTheRing == Spec => []SumMatchesWindow
BY SumInit, SumStep, TypeInit, TypeStep, PTL DEF Spec

-----------------------------------------------------------------------------
(* What the mean of the ring can be *)

\* A mean lies where the samples do, and there the clamping changes nothing.
LEMMA MeanBounds ==
    ASSUME NEW w, NEW n \in Nat, n > 0, NEW low \in Int, NEW high \in Int,
           MinValue <= low, high <= MaxValue,
           \A k \in 1..n : w[k] \in low..high
    PROVE  /\ Total(w, n) \div n \in low..high
           /\ Clamp(Total(w, n) \div n) = Total(w, n) \div n
<1> DEFINE mean == Total(w, n) \div n
<1>1. n * low <= Total(w, n) /\ Total(w, n) <= n * high
  BY TotalBounds
<1>2. Total(w, n) \in Int
  <2>1. \A k \in 1..n : w[k] \in Int
    OBVIOUS
  <2>2. QED
    BY <2>1, TotalIsInt
<1>3. low <= mean /\ mean <= high
  BY <1>1, <1>2, QuotientBounds
<1>4. mean \in Int
  BY <1>2
<1> HIDE DEF mean
<1>5. Clamp(mean) = mean
  BY <1>3, <1>4, RangeAssumption DEF Clamp, RangeAssumption
<1>6. QED
  BY <1>3, <1>4, <1>5 DEF mean

\* The same bounds, of the driver's Mean, which needs no clamping.
MeanOK ==
    \A low, high \in MinValue..MaxValue :
        (fifo_count > 0 /\ \A k \in 1..fifo_count : Aged(k) \in low..high)
            => Mean \in low..high /\ Mean = fifo_sum \div fifo_count

\* They follow from the running sum being the sum of the ring.
LEMMA MeanIsAmongSamples == TypeOK /\ SumMatchesWindow => MeanOK
<1> SUFFICES ASSUME TypeOK, SumMatchesWindow,
                    NEW low \in MinValue..MaxValue, NEW high \in MinValue..MaxValue,
                    fifo_count > 0, \A k \in 1..fifo_count : Aged(k) \in low..high
             PROVE  Mean \in low..high /\ Mean = fifo_sum \div fifo_count
  BY DEF MeanOK
<1>1. WindowOK
  BY WindowType
<1>2. /\ low \in Int /\ high \in Int /\ MinValue <= low /\ high <= MaxValue
      /\ fifo_count \in Nat
  BY <1>1, RangeAssumption DEF RangeAssumption, WindowOK
<1>3. \A k \in 1..fifo_count : Window[k] \in low..high
  BY <1>1 DEF WindowOK
<1>4. fifo_sum = Total(Window, fifo_count)
  BY <1>1 DEF SumMatchesWindow, Sum, WindowOK
<1>5. QED
  BY <1>2, <1>3, <1>4, MeanBounds DEF Mean

\* Nothing older than FifoSize reads is left in the running sum: a full ring of
\* one value has that value as its mean, and has it reported.
LEMMA FullRingForgets ==
    TypeOK /\ SumMatchesWindow /\ WithinDeadBand => ForgetsOldSamples
<1> SUFFICES ASSUME TypeOK, SumMatchesWindow, WithinDeadBand, NEW v \in Samples,
                    fifo_count = FifoSize, \A k \in Slots : fifo_values[k] = v
             PROVE  /\ Mean = v
                    /\ raw_value - v < DeadBand /\ v - raw_value < DeadBand
  BY DEF ForgetsOldSamples
<1>1. v \in MinValue..MaxValue /\ v \in Int
  BY SampleAssumption DEF SampleAssumption
<1>2. fifo_count > 0
  BY FifoAssumption DEF FifoAssumption
<1>3. \A k \in 1..fifo_count : Aged(k) \in v..v
  BY <1>1, AgedPosition
<1>4. Mean \in v..v
  BY <1>1, <1>2, <1>3, MeanIsAmongSamples DEF MeanOK
<1>5. Mean = v
  BY <1>1, <1>4
<1>6. QED
  BY <1>2, <1>5 DEF WithinDeadBand

\* A ring full of one value has that value reported: the sum that is only ever
\* adjusted has forgotten every older sample.
THEOREM OldSamplesAreForgotten == Spec => []ForgetsOldSamples
BY SumIsOfTheRing, TypeCorrect, ReportFollowsMean, FullRingForgets, PTL

\* A read whose ring stays closer than the dead band to the report, and off
\* the ends of the range, reports nothing.
LEMMA ReadIgnoresNoise ==
    ASSUME TypeOK, TypeOK', SumMatchesWindow',
           NEW sample \in Samples, adc_mcp3008_read(sample),
           \A k \in 1..fifo_count' : /\ Aged(k)' \notin Rails
                                     /\ Aged(k)' - raw_value < DeadBand
                                     /\ raw_value - Aged(k)' < DeadBand
    PROVE  raw_value' = raw_value
<1> DEFINE low  == IF raw_value - DeadBand < MinValue THEN MinValue + 1
                                                      ELSE raw_value - DeadBand + 1
           high == IF raw_value + DeadBand > MaxValue THEN MaxValue - 1
                                                      ELSE raw_value + DeadBand - 1
<1>1. /\ raw_value \in Int /\ MinValue \in Int /\ MaxValue \in Int
      /\ MinValue <= raw_value /\ raw_value <= MaxValue
      /\ DeadBand \in Int /\ DeadBand > 0
  BY RangeAssumption, BandAssumption DEF TypeOK, RangeAssumption, BandAssumption
<1>2. WindowOK' /\ MeanOK'
  <2>1. WindowOK'
    BY WindowType, PTL
  <2>2. MeanOK'
    BY MeanIsAmongSamples, PTL
  <2>3. QED
    BY <2>1, <2>2
<1>3. fifo_count' \in Nat /\ fifo_count' > 0
  BY PushKeepsShape
<1>4. \A k \in 1..fifo_count' : Aged(k)' \in low..high
  <2> SUFFICES ASSUME NEW k \in 1..fifo_count' PROVE Aged(k)' \in low..high
    OBVIOUS
  <2>1. Aged(k)' \in MinValue..MaxValue
    BY <1>2 DEF WindowOK
  <2>2. Aged(k)' # MinValue /\ Aged(k)' # MaxValue
    BY DEF Rails
  <2>3. QED
    BY <1>1, <2>1, <2>2
<1>5. low \in MinValue..MaxValue /\ high \in MinValue..MaxValue
  <2>1. 1 \in 1..fifo_count'
    BY <1>3
  <2>2. Aged(1)' \in low..high
    BY <1>4, <2>1
  <2>3. QED
    BY <1>1, <2>2
<1>6. Mean' \in low..high
  BY <1>2, <1>3, <1>4, <1>5 DEF MeanOK
<1>7. ~MustReport(Mean', raw_value)
  BY <1>1, <1>6 DEF MustReport, Rails
<1>8. QED
  BY <1>7, ReadComparesMean DEF Report

\* Noise is never reported: while the samples stay closer than the dead band
\* to the report and off the ends of the range, it does not move.
THEOREM NoiseIsRejected == Spec => NoiseIsNotReported
<1>1. ASSUME TypeOK, TypeOK', SumMatchesWindow', [Next]_vars
      PROVE  [ (/\ fifo_count > 0
                /\ \A k \in 1..fifo_count' :
                     /\ Aged(k)' \notin Rails
                     /\ Aged(k)' - raw_value < DeadBand
                     /\ raw_value - Aged(k)' < DeadBand)
               => raw_value' = raw_value ]_vars
  <2>1. CASE Read
    BY <1>1, <2>1, ReadIgnoresNoise DEF Read
  <2>2. CASE adc_mcp3008_set_is_updated(FALSE)
    BY <2>2 DEF adc_mcp3008_set_is_updated
  <2>3. CASE UNCHANGED vars
    BY <2>3
  <2>4. QED
    BY <1>1, <2>1, <2>2, <2>3 DEF Next, adc_mcp3008_read_nothing
<1>2. QED
  BY <1>1, TypeCorrect, SumIsOfTheRing, PTL DEF Spec, NoiseIsNotReported

-----------------------------------------------------------------------------
(* The driver implements the moving average *)

\* The ring that adc_mcp3008_init leaves stands for no sample.
LEMMA InitImplements == Init => Filter!Init
<1> SUFFICES ASSUME Init PROVE Filter!Init
  OBVIOUS
<1>1. WindowOK /\ fifo_count = 0
  BY TypeInit, WindowType DEF Init
<1>2. Window = <<>>
  BY <1>1 DEF WindowOK
<1>3. QED
  BY <1>2 DEF Init, Filter!Init

\* After a read the ring stands for the latest samples of the window it stood
\* for and the new one.
LEMMA ReadMovesWindow ==
    ASSUME TypeOK, TypeOK', NEW sample \in Samples, adc_mcp3008_read(sample)
    PROVE  Window' = Filter!Latest(Append(Window, sample))
<1>1. WindowOK /\ WindowOK' /\ sample \in Int
  <2>1. WindowOK'
    BY WindowType, PTL
  <2>2. QED
    BY <2>1, WindowType, SampleAssumption DEF SampleAssumption
<1> DEFINE w == Window
           n == fifo_count
           v == Window'
           a == Append(w, sample)
<1>2. /\ n \in 0..FifoSize /\ FifoSize \in Nat /\ FifoSize > 0
      /\ w \in Seq(Int) /\ Len(w) = n
      /\ v \in Seq(Int) /\ Len(v) = fifo_count'
  BY <1>1, FifoAssumption DEF WindowOK, TypeOK, FifoAssumption
<1>3. /\ a \in Seq(Int) /\ Len(a) = n + 1 /\ a[n + 1] = sample
      /\ \A k \in 1..n : a[k] = w[k]
  BY <1>1, <1>2
<1>4. /\ \A k \in 1..n : w[k] = Aged(k)
      /\ \A k \in 1..fifo_count' : v[k] = Aged(k)'
  BY <1>1 DEF WindowOK
<1>5. CASE n < FifoSize
  <2>1. fifo_count' = n + 1 /\ \A k \in 1..n + 1 : v[k] = a[k]
    BY <1>2, <1>3, <1>4, <1>5, PushGrowsWindow
  <2>2. Filter!Latest(a) = a
    BY <1>2, <1>3, <1>5 DEF Filter!Latest
  <2> HIDE DEF w, n, v, a
  <2>3. v = a
    BY <1>2, <1>3, <2>1
  <2>4. QED
    BY <2>2, <2>3 DEF v, a, w
<1>6. CASE n = FifoSize
  <2>1. fifo_count' = n /\ \A k \in 1..n : v[k] = a[k + 1]
    BY <1>2, <1>3, <1>4, <1>6, PushMovesWindow
  <2>2. Filter!Latest(a) = Tail(a)
    BY <1>2, <1>3, <1>6 DEF Filter!Latest
  <2> HIDE DEF w, n, v, a
  <2>3. /\ Tail(a) \in Seq(Int) /\ Len(Tail(a)) = n
        /\ \A k \in 1..n : Tail(a)[k] = a[k + 1]
    BY <1>2, <1>3
  <2>4. v = Tail(a)
    BY <1>2, <2>1, <2>3
  <2>5. QED
    BY <2>2, <2>4 DEF v, a, w
<1>7. QED
  BY <1>2, <1>5, <1>6

\* The abstract specification sums as the driver's properties do.
LEMMA SameSum == ASSUME NEW s PROVE Filter!Sum(s) = Sum(s)
BY Zenon DEF Filter!Sum, Filter!Total, Filter!Totals, Sum, Total, Totals

\* A read compares the average of the window it leaves.
LEMMA ReadComparesAverage ==
    ASSUME TypeOK, TypeOK', SumMatchesWindow',
           NEW sample \in Samples, adc_mcp3008_read(sample)
    PROVE  Mean' = Filter!Average(Window') /\ Mean' \in MinValue..MaxValue
<1>1. WindowOK' /\ MeanOK'
  <2>1. WindowOK'
    BY WindowType, PTL
  <2>2. MeanOK'
    BY MeanIsAmongSamples, PTL
  <2>3. QED
    BY <2>1, <2>2
<1>2. fifo_count' > 0
  BY PushKeepsShape
<1>3. MinValue \in MinValue..MaxValue /\ MaxValue \in MinValue..MaxValue
  BY RangeAssumption DEF RangeAssumption
<1>4. Mean' \in MinValue..MaxValue /\ Mean' = fifo_sum' \div fifo_count'
  BY <1>1, <1>2, <1>3 DEF WindowOK, MeanOK
<1>5. fifo_sum' = Sum(Window') /\ fifo_count' = Len(Window')
  BY <1>1 DEF SumMatchesWindow, WindowOK
<1>6. QED
  BY <1>4, <1>5, SameSum DEF Filter!Average

\* The C condition on a mean within the range is the abstract one.
LEMMA ConditionsAgree ==
    ASSUME TypeOK, NEW mean \in MinValue..MaxValue
    PROVE  MustReport(mean, raw_value) <=> Filter!Moved(mean)
<1>1. /\ mean \in Int /\ raw_value \in Int /\ MaxValue \in Int /\ MinValue \in Int
      /\ mean <= MaxValue /\ raw_value <= MaxValue /\ MinValue <= mean
      /\ MinValue <= raw_value /\ DeadBand \in Int /\ DeadBand > 0
  BY RangeAssumption, BandAssumption DEF TypeOK, RangeAssumption, BandAssumption
<1>2. QED
  BY <1>1 DEF MustReport, Rails, Filter!Moved

\* Every function of the driver is a step of the moving average, or none.
LEMMA StepImplements ==
    TypeOK /\ TypeOK' /\ SumMatchesWindow' /\ [Next]_vars
        => [Filter!Next]_(Filter!vars)
<1> SUFFICES ASSUME TypeOK, TypeOK', SumMatchesWindow', [Next]_vars
             PROVE  [Filter!Next]_(Filter!vars)
  OBVIOUS
<1>1. CASE Read
  <2>1. PICK sample \in Samples : adc_mcp3008_read(sample)
    BY <1>1 DEF Read
  <2>2. Window' = Filter!Latest(Append(Window, sample))
    BY <2>1, ReadMovesWindow
  <2>3. Mean' = Filter!Average(Window') /\ Mean' \in MinValue..MaxValue
    BY <2>1, ReadComparesAverage
  <2>4. IF Filter!Moved(Mean') THEN raw_value' = Mean' /\ is_updated' = TRUE
                               ELSE UNCHANGED <<raw_value, is_updated>>
    BY <2>1, <2>3, ReadComparesMean, ConditionsAgree DEF Report
  <2>5. Filter!Sample(sample)
    BY <2>2, <2>3, <2>4 DEF Filter!Sample
  <2>6. QED
    BY <2>5 DEF Filter!Next
<1>2. CASE adc_mcp3008_set_is_updated(FALSE)
  <2>1. Window' = Window
    BY <1>2 DEF adc_mcp3008_set_is_updated, fifo, Window, Aged
  <2>2. Filter!Acknowledge
    BY <1>2, <2>1 DEF adc_mcp3008_set_is_updated, Filter!Acknowledge
  <2>3. QED
    BY <2>2 DEF Filter!Next
<1>3. CASE UNCHANGED vars
  BY <1>3 DEF vars, fifo, Filter!vars, Window, Aged
<1>4. QED
  BY <1>1, <1>2, <1>3 DEF Next, adc_mcp3008_read_nothing

\* The ring, the running sum and the C condition show exactly what the mean of
\* the latest FifoSize samples would show.
THEOREM DriverImplementsFilter == Spec => ImplementsMovingAverage
BY InitImplements, StepImplements, TypeCorrect, SumIsOfTheRing, PTL
   DEF Spec, ImplementsMovingAverage, Filter!Spec

-----------------------------------------------------------------------------
(* A channel is an input *)

\* A read changes the value and flags it, or does neither.
LEMMA ReadIsAChange ==
    ASSUME TypeOK, NEW sample \in Samples, adc_mcp3008_read(sample)
    PROVE  [Interface!Next]_(Interface!vars)
<1>1. Mean' \in MinValue..MaxValue /\ Report(Mean')
  BY ReadComparesMean
<1>2. CASE MustReport(Mean', raw_value)
  <2>1. raw_value' = Mean' /\ is_updated' = TRUE
    BY <1>1, <1>2 DEF Report
  <2>2. Mean' # raw_value
    <3>1. Mean' \in Int /\ raw_value \in Int
      BY <1>1, RangeAssumption DEF TypeOK, RangeAssumption
    <3>2. QED
      BY <1>2, <3>1, BandAssumption DEF MustReport, BandAssumption
  <2>3. QED
    BY <1>1, <2>1, <2>2 DEF Interface!Next, Interface!Change
<1>3. CASE ~MustReport(Mean', raw_value)
  BY <1>1, <1>3 DEF Report, Interface!vars
<1>4. QED
  BY <1>2, <1>3

\* To the API server a channel is an input like any other: the ring, the mean
\* and the dead band never change its value silently, and never flag a value
\* that is not news.
THEOREM ChannelIsAnInput == Spec => Interface!Spec
<1>1. Init => Interface!Init
  BY DEF Init, Interface!Init
<1>2. TypeOK /\ [Next]_vars => [Interface!Next]_(Interface!vars)
  <2> SUFFICES ASSUME TypeOK, [Next]_vars
               PROVE  [Interface!Next]_(Interface!vars)
    OBVIOUS
  <2>1. CASE Read
    BY <2>1, ReadIsAChange DEF Read
  <2>2. CASE adc_mcp3008_set_is_updated(FALSE)
    BY <2>2 DEF adc_mcp3008_set_is_updated, Interface!Next, Interface!Acknowledge
  <2>3. CASE UNCHANGED vars
    BY <2>3 DEF vars, Interface!vars
  <2>4. QED
    BY <2>1, <2>2, <2>3 DEF Next, adc_mcp3008_read_nothing
<1>3. QED
  BY <1>1, <1>2, TypeCorrect, PTL DEF Spec, Interface!Spec

-----------------------------------------------------------------------------
(* The running sum fits *)

\* The sum of the ring is between nothing and a full ring of the greatest value.
LEMMA SumOfWindowFits ==
    ASSUME TypeOK, SumMatchesWindow
    PROVE  fifo_sum \in 0..FifoSize * MaxValue
<1>1. /\ fifo_count \in Nat /\ fifo_count <= FifoSize
      /\ Len(Window) = fifo_count
      /\ \A k \in 1..fifo_count : Window[k] \in 0..MaxValue
  BY WindowType, RangeAssumption DEF TypeOK, WindowOK, RangeAssumption
<1>2. FifoSize \in Nat /\ MaxValue \in Nat
  BY FifoAssumption, RangeAssumption DEF FifoAssumption, RangeAssumption
<1>3. fifo_sum = Total(Window, fifo_count)
  BY <1>1 DEF SumMatchesWindow, Sum
<1>4. fifo_count * 0 <= fifo_sum /\ fifo_sum <= fifo_count * MaxValue
  <2>1. 0 \in Int /\ MaxValue \in Int /\ fifo_count \in Nat
    BY <1>1, <1>2
  <2>2. \A k \in 1..fifo_count : Window[k] \in 0..MaxValue
    BY <1>1
  <2>3. QED
    BY <1>3, <2>1, <2>2, TotalBounds, Zenon
<1>5. fifo_sum \in Int /\ fifo_count * 0 = 0
  BY <1>1 DEF TypeOK
<1>6. fifo_count * MaxValue <= FifoSize * MaxValue
  BY <1>1, <1>2
<1>7. fifo_count * MaxValue \in Int /\ FifoSize * MaxValue \in Int
  BY <1>1, <1>2
<1>8. QED
  BY <1>4, <1>5, <1>6, <1>7

\* However long the driver runs, fifo_sum stays between 0 and FifoSize times
\* the greatest value: 16 * 1023 on the board, which any C int holds.
THEOREM SumNeverOverflows == Spec => [](fifo_sum \in 0..FifoSize * MaxValue)
BY SumOfWindowFits, TypeCorrect, SumIsOfTheRing, PTL
=============================================================================
