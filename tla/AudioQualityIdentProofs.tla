----------------------- MODULE AudioQualityIdentProofs ------------------------
(***************************************************************************)
(* Proofs about AudioQualityIdent, for every number of frequencies, every  *)
(* set of spectra, every interval and every limit of an int: each window   *)
(* is judged by its own spectra, and only a file that cannot be read is    *)
(* refused.                                                                *)
(***************************************************************************)
EXTENDS AudioQualityIdent, Sums, SequenceTheorems

\* Multiples of the interval are in order.
LEMMA Multiples ==
    ASSUME NEW a \in Nat, NEW b \in Nat, a <= b
    PROVE  a * Interval \in Nat /\ a * Interval <= b * Interval
BY CheckPointAssumption, SMTT(30)

\* A count between two neighbouring multiples has the lower one as quotient.
LEMMA Quotient ==
    ASSUME NEW q \in Nat, NEW n \in Nat,
           q * Interval <= n, n < (q + 1) * Interval
    PROVE  n \div Interval = q
BY CheckPointAssumption, SMTT(30)

\* Quotient and remainder make up the number.
LEMMA Division ==
    ASSUME NEW i \in Nat \ {0}, NEW n \in Nat
    PROVE  n = i * (n \div i) + (n % i) /\ n % i \in Nat
BY SMTT(30)

\* The count that fills a window is the next multiple, and no count before is.
LEMMA FullWindow ==
    ASSUME NEW q \in Nat, NEW n \in Nat,
           q * Interval < n, n <= (q + 1) * Interval
    PROVE  n % Interval = 0 <=> n = (q + 1) * Interval
<1> Interval \in Nat \ {0}
  BY CheckPointAssumption
<1>1. n = Interval * (n \div Interval) + (n % Interval) /\ n % Interval \in Nat
  BY Division
<1>2. CASE n < (q + 1) * Interval
  <2>1. n \div Interval = q
    BY <1>2, Quotient
  <2>2. Interval * (n \div Interval) = q * Interval
    BY <2>1
  <2> QED BY <1>1, <1>2, <2>2
<1>3. CASE n = (q + 1) * Interval
  <2>1. n < ((q + 1) + 1) * Interval
    BY <1>3, SMTT(30)
  <2>2. n \div Interval = q + 1
    BY <1>3, <2>1, Quotient
  <2>3. Interval * (n \div Interval) = (q + 1) * Interval
    BY <2>2
  <2> QED BY <1>1, <1>3, <2>3
<1> QED BY <1>2, <1>3

\* A size below the limit of an int is itself.
LEMMA AsIntExact ==
    ASSUME NEW n \in Nat, n < IntLimit
    PROVE  AsInt(n) = n
BY SizesAssumption, SMTT(30) DEF AsInt

------------------------------------------------------------------------------
(* The receiver *)

Found == {Frequency(p) : p \in [Bins -> Heights]}

\* Peaks determine what PeaksOf computes of the same spectra.
LEMMA PeaksUnique ==
    ASSUME heard \in Seq(Spectra), NEW p, NEW lo \in Nat \ {0}, NEW hi \in Nat,
           hi <= Len(heard), lo <= hi + 1, IsPeak(p, lo, hi)
    PROVE  p = PeaksOf(SubSeq(heard, lo, hi))
<1> DEFINE w == SubSeq(heard, lo, hi)
<1>1. Len(w) = hi - lo + 1 /\ \A i \in 1..Len(w) : w[i] = heard[lo + i - 1]
  BY SMTT(30)
<1> HIDE DEF w
<1>2. ASSUME NEW b \in Bins
      PROVE  {Level[w[i][b]] : i \in 1..Len(w)} = {Level[heard[i][b]] : i \in lo..hi}
  <2>1. ASSUME NEW i \in 1..Len(w)
        PROVE  \E j \in lo..hi : Level[w[i][b]] = Level[heard[j][b]]
    <3>1. lo + i - 1 \in lo..hi
      BY <1>1
    <3> QED BY <1>1, <3>1
  <2>2. ASSUME NEW j \in lo..hi
        PROVE  \E i \in 1..Len(w) : Level[w[i][b]] = Level[heard[j][b]]
    <3>1. j - lo + 1 \in 1..Len(w) /\ lo + (j - lo + 1) - 1 = j
      BY <1>1
    <3> QED BY <1>1, <3>1
  <2>3. ASSUME NEW x \in {Level[w[i][b]] : i \in 1..Len(w)}
        PROVE  x \in {Level[heard[i][b]] : i \in lo..hi}
    <3>1. PICK i \in 1..Len(w) : x = Level[w[i][b]]
      BY <2>3
    <3>2. PICK j \in lo..hi : Level[w[i][b]] = Level[heard[j][b]]
      BY <2>1
    <3>3. x = Level[heard[j][b]]
      BY <3>1, <3>2
    <3> QED BY <3>3, Zenon
  <2>4. ASSUME NEW x \in {Level[heard[i][b]] : i \in lo..hi}
        PROVE  x \in {Level[w[i][b]] : i \in 1..Len(w)}
    <3>1. PICK j \in lo..hi : x = Level[heard[j][b]]
      BY <2>4
    <3>2. PICK i \in 1..Len(w) : Level[w[i][b]] = Level[heard[j][b]]
      BY <2>2
    <3>3. x = Level[w[i][b]]
      BY <3>1, <3>2
    <3> QED BY <3>3, Zenon
  <2> QED BY <2>3, <2>4, Zenon
<1>3. ASSUME NEW b \in Bins
      PROVE  p[b] = Max({0} \cup {Level[w[i][b]] : i \in 1..Len(w)})
  <2> DEFINE S == {0} \cup {Level[w[i][b]] : i \in 1..Len(w)}
  <2>1. S = Levels(lo, hi, b)
    BY <1>2 DEF Levels
  <2> HIDE DEF S
  <2>2. p[b] \in S /\ \A x \in S : x <= p[b]
    BY <2>1 DEF IsPeak
  <2>3. S \subseteq Int
    <3>1. ASSUME NEW i \in lo..hi
          PROVE  Level[heard[i][b]] \in Int
      <4>1. heard[i] \in Spectra
        BY ElementOfSeq
      <4> QED BY <4>1, SpectraAssumption, LevelAssumption
    <3> QED BY <2>1, <3>1 DEF Levels
  <2>4. ASSUME NEW m \in S, \A y \in S : m >= y
        PROVE  m = p[b]
    <3>1. m \in Int /\ p[b] \in Int /\ m >= p[b] /\ m <= p[b]
      BY <2>2, <2>3, <2>4
    <3> QED BY <3>1
  <2>5. \A y \in S : p[b] >= y
    BY <2>2, <2>3
  <2>6. Max(S) = p[b]
    BY <2>2, <2>4, <2>5 DEF Max
  <2> QED BY <2>6 DEF S
<1>4. p = [b \in Bins |-> p[b]]
  BY DEF IsPeak
<1>5. [b \in Bins |-> p[b]] = PeaksOf(w)
  BY <1>3 DEF PeaksOf
<1> QED BY <1>4, <1>5 DEF w

\* What is said of the windows gives the property.
LEMMA WindowsOwn ==
    ASSUME AInv
    PROVE  FrequenciesOwn
<1>1. /\ heard \in Seq(Spectra) /\ freqs \in Seq(Found)
      /\ Len(freqs) \in Nat /\ Len(heard) \in Nat
  BY LenProperties DEF AInv, ReceiverInv, Found
<1>2. Len(heard) \div Interval = Len(freqs)
  BY <1>1, Quotient DEF AInv, ReceiverInv
<1>3. ASSUME NEW k \in 1..Len(freqs)
      PROVE  freqs[k] = Frequency(PeaksOf(WindowOf(k)))
  <2>1. PICK p : /\ IsPeak(p, (k - 1) * Interval + 1, k * Interval)
                 /\ freqs[k] = Frequency(p)
    BY DEF AInv, WindowInv
  <2>2. (k - 1) * Interval \in Nat /\ (k - 1) * Interval <= k * Interval
    BY Multiples
  <2>3. k * Interval \in Nat /\ k * Interval <= Len(freqs) * Interval
    BY <1>1, Multiples
  <2>4. k * Interval <= Len(heard)
    <3>1. Len(freqs) * Interval <= Len(heard) /\ Len(freqs) * Interval \in Nat
      BY <1>1, Multiples DEF AInv, ReceiverInv
    <3> QED BY <1>1, <2>3, <3>1
  <2>5. p = PeaksOf(SubSeq(heard, (k - 1) * Interval + 1, k * Interval))
    BY <1>1, <2>1, <2>2, <2>3, <2>4, PeaksUnique
  <2> QED BY <2>1, <2>5 DEF WindowOf
<1> QED BY <1>2, <1>3 DEF FrequenciesOwn

\* A spectrum more does not change what was received before it.
LEMMA PeakKept ==
    ASSUME heard \in Seq(Spectra), NEW s \in Spectra, heard' = Append(heard, s),
           NEW p, NEW lo \in Nat \ {0}, NEW hi \in Nat, hi <= Len(heard),
           IsPeak(p, lo, hi)
    PROVE  IsPeak(p, lo, hi)'
<1>1. \A i \in lo..hi : heard'[i] = heard[i]
  <2>1. Len(heard) \in Nat
    BY LenProperties
  <2> QED BY <2>1, AppendProperties
<1>2. ASSUME NEW b \in Bins
      PROVE  Levels(lo, hi, b)' = Levels(lo, hi, b)
  BY <1>1 DEF Levels
<1> QED BY <1>2 DEF IsPeak

\* With a spectrum that is received now, Peak gives the new peaks.
LEMMA PeakStep ==
    ASSUME heard \in Seq(Spectra), NEW s \in Spectra, heard' = Append(heard, s),
           NEW p, NEW lo \in Nat \ {0}, NEW hi \in Nat, lo <= hi + 1,
           hi = Len(heard), IsPeak(p, lo, hi)
    PROVE  IsPeak(Peak(p, s), lo, hi + 1)'
<1>1. heard'[hi + 1] = s /\ \A i \in lo..hi : heard'[i] = heard[i]
  BY AppendProperties
<1>2. ASSUME NEW b \in Bins
      PROVE  /\ Level[s[b]] \in Nat \cup {-1}
             /\ p[b] \in Heights
             /\ Peak(p, s)[b] = IF p[b] < Level[s[b]] THEN Level[s[b]] ELSE p[b]
             /\ Level[s[b]] \in Heights
  <2>1. s[b] \in Magnitudes
    BY SpectraAssumption
  <2> QED BY <2>1, LevelAssumption DEF IsPeak, Peak, Heights
<1>3. Peak(p, s) \in [Bins -> Heights]
  <2>1. \A b \in Bins : Peak(p, s)[b] \in Heights
    BY <1>2
  <2> QED BY <2>1 DEF Peak
<1>4. ASSUME NEW b \in Bins
      PROVE  /\ \A x \in Levels(lo, hi + 1, b)' :
                    x = Level[s[b]] \/ x \in Levels(lo, hi, b)
             /\ \A x \in Levels(lo, hi, b) : x \in Levels(lo, hi + 1, b)'
             /\ Level[s[b]] \in Levels(lo, hi + 1, b)'
  <2>1. lo..(hi + 1) = (lo..hi) \cup {hi + 1}
    OBVIOUS
  <2> QED BY <1>1, <2>1 DEF Levels
<1>5. ASSUME NEW b \in Bins
      PROVE  /\ Peak(p, s)[b] \in Levels(lo, hi + 1, b)'
             /\ \A x \in Levels(lo, hi + 1, b)' : x <= Peak(p, s)[b]
  <2>1. p[b] \in Levels(lo, hi, b) /\ \A x \in Levels(lo, hi, b) : x <= p[b]
    BY DEF IsPeak
  <2>2. \A x \in Levels(lo, hi, b) : x \in Int
    <3>1. ASSUME NEW i \in lo..hi
          PROVE  Level[heard[i][b]] \in Int
      <4>1. heard[i] \in Spectra
        BY ElementOfSeq
      <4> QED BY <4>1, SpectraAssumption, LevelAssumption
    <3> QED BY <3>1 DEF Levels
  <2>3. p[b] \in Int
    BY <2>1, <2>2
  <2> QED BY <1>2, <1>4, <2>1, <2>2, <2>3
<1> QED BY <1>3, <1>5 DEF IsPeak

\* A file begins with nothing heard and an empty window.
LEMMA InitInv == Init => AInv
<1> SUFFICES ASSUME Init PROVE AInv
  OBVIOUS
<1>1. heard = << >> /\ freqs = << >> /\ receiveCount = 1 /\ power = Silence
  BY DEF Init
<1>2. Len(freqs) = 0 /\ Len(heard) = 0 /\ heard \in Seq(Spectra) /\ freqs \in Seq(Found)
  BY <1>1
<1>3. 0 * Interval = 0 /\ (0 + 1) * Interval = Interval
  BY CheckPointAssumption
<1>4. IsPeak(power, 1, 0)
  <2>1. \A b \in Bins : Levels(1, 0, b) = {0}
    BY DEF Levels
  <2> QED BY <1>1, <2>1 DEF IsPeak, Silence, Heights
<1>5. ReceiverInv
  BY <1>1, <1>2, <1>3, <1>4, CheckPointAssumption DEF ReceiverInv, Found
<1>6. WindowInv
  BY <1>2 DEF WindowInv
<1> QED BY <1>5, <1>6 DEF AInv

\* Steps that do not touch the receiver.
LEMMA ReceiverStep ==
    ASSUME AInv, UNCHANGED receiver
    PROVE  AInv'
<1>1. heard' = heard /\ freqs' = freqs /\ receiveCount' = receiveCount /\ power' = power
  BY DEF receiver
<1>2. \A p, lo, hi : IsPeak(p, lo, hi)' = IsPeak(p, lo, hi)
  BY <1>1 DEF IsPeak, Levels
<1>3. ReceiverInv'
  BY <1>1 DEF AInv, ReceiverInv, IsPeak, Levels
<1>4. WindowInv'
  BY <1>1, <1>2 DEF AInv, WindowInv
<1> QED BY <1>3, <1>4 DEF AInv

\* A spectrum is received, within a window or as its last.
LEMMA ReceiveStep ==
    ASSUME AInv, NEW s \in Spectra, Receive(s)
    PROVE  AInv'
<1>1. heard \in Seq(Spectra) /\ freqs \in Seq(Found)
  BY DEF AInv, ReceiverInv, Found
<1>2. PICK n \in Nat, hi \in Nat : n = Len(freqs) /\ hi = Len(heard)
  BY <1>1, LenProperties
<1>3. PICK q : q = power
  OBVIOUS
<1>4. PICK new : new = Peak(q, s)
  OBVIOUS
<1>5. /\ receiveCount = hi + 1
      /\ n * Interval <= hi /\ hi < (n + 1) * Interval
      /\ IsPeak(q, n * Interval + 1, hi)
  BY <1>2, <1>3 DEF AInv, ReceiverInv
<1>6. /\ n * Interval \in Nat /\ (n + 1) * Interval \in Nat
      /\ (n + 1) * Interval < ((n + 1) + 1) * Interval
      /\ (n + 1) - 1 = n /\ Interval \in Nat \ {0}
  BY CheckPointAssumption, SMTT(30)
<1>7. /\ heard' = Append(heard, s) /\ heard' \in Seq(Spectra) /\ Len(heard') = hi + 1
      /\ receiveCount' = (hi + 1) + 1
  BY <1>1, <1>2, <1>5, AppendProperties DEF Receive
<1>8. receiveCount % Interval = 0 <=> hi + 1 = (n + 1) * Interval
  <2>1. n * Interval < hi + 1 /\ hi + 1 <= (n + 1) * Interval
    BY <1>5, <1>6
  <2>2. (hi + 1) % Interval = 0 <=> hi + 1 = (n + 1) * Interval
    BY <2>1, FullWindow
  <2> QED BY <1>5, <2>2
<1>9. IsPeak(new, n * Interval + 1, hi + 1)'
  <2>1. PICK lo \in Nat \ {0} : lo = n * Interval + 1
    BY <1>6
  <2>2. lo <= hi + 1 /\ IsPeak(q, lo, hi)
    BY <1>5, <2>1, <1>6
  <2>3. IsPeak(Peak(q, s), lo, hi + 1)'
    BY <1>1, <1>2, <1>7, <2>2, PeakStep
  <2> QED BY <1>4, <2>1, <2>3
<1>10. new \in [Bins -> Heights]
  BY <1>9 DEF IsPeak
<1>11. ASSUME NEW k \in 1..n
       PROVE  \E p \in [Bins -> Heights] :
                  /\ IsPeak(p, (k - 1) * Interval + 1, k * Interval)'
                  /\ freqs[k] = Frequency(p)
  <2>1. PICK p \in [Bins -> Heights] :
            /\ IsPeak(p, (k - 1) * Interval + 1, k * Interval)
            /\ freqs[k] = Frequency(p)
    BY <1>2 DEF AInv, WindowInv
  <2>2. (k - 1) * Interval \in Nat
    BY Multiples
  <2>3. k * Interval \in Nat /\ k * Interval <= n * Interval
    BY Multiples
  <2>4. k * Interval <= hi
    BY <1>5, <1>6, <2>3
  <2>5. PICK lo \in Nat \ {0}, last \in Nat :
            lo = (k - 1) * Interval + 1 /\ last = k * Interval
    BY <2>2, <2>3
  <2>6. IsPeak(p, lo, last)'
    BY <1>1, <1>2, <1>7, <2>1, <2>4, <2>5, PeakKept
  <2> QED BY <2>1, <2>5, <2>6
<1>12. CASE receiveCount % Interval # 0
  <2>1. freqs' = freqs /\ power' = new
    BY <1>3, <1>4, <1>12 DEF Receive
  <2>2. hi + 1 < (n + 1) * Interval
    BY <1>5, <1>6, <1>8, <1>12
  <2>3. ReceiverInv'
    <3>1. Len(freqs') = n /\ freqs' \in Seq(Found)
      BY <1>1, <1>2, <2>1
    <3>2. IsPeak(power, Len(freqs) * Interval + 1, Len(heard))'
      BY <1>7, <1>9, <2>1, <3>1 DEF IsPeak, Levels
    <3>3. n * Interval <= hi + 1
      BY <1>5, <1>6
    <3> QED BY <1>7, <2>2, <3>1, <3>2, <3>3 DEF ReceiverInv, Found
  <2>4. WindowInv'
    BY <1>2, <1>11, <2>1 DEF WindowInv
  <2> QED BY <2>3, <2>4 DEF AInv
<1>13. CASE receiveCount % Interval = 0
  <2>1. freqs' = Append(freqs, Frequency(new)) /\ power' = Silence
    BY <1>3, <1>4, <1>13 DEF Receive
  <2>2. /\ freqs' \in Seq(Found) /\ Len(freqs') = n + 1
        /\ freqs'[n + 1] = Frequency(new) /\ \A k \in 1..n : freqs'[k] = freqs[k]
    <3>1. Frequency(new) \in Found
      BY <1>10 DEF Found
    <3> QED BY <1>1, <1>2, <2>1, <3>1, AppendProperties
  <2>3. hi + 1 = (n + 1) * Interval
    BY <1>8, <1>13
  <2>4. PICK m \in Nat : m = (n + 1) * Interval
    BY <1>6
  <2>5. IsPeak(Silence, m + 1, m)'
    <3>1. (m + 1)..m = {}
      OBVIOUS
    <3>2. \A b \in Bins : Levels(m + 1, m, b)' = {0}
      BY <3>1 DEF Levels
    <3> QED BY <3>2 DEF IsPeak, Silence, Heights
  <2>6. ReceiverInv'
    BY <1>6, <1>7, <2>1, <2>2, <2>3, <2>4, <2>5 DEF ReceiverInv, Found, IsPeak, Levels
  <2>7. IsPeak(new, ((n + 1) - 1) * Interval + 1, (n + 1) * Interval)'
    BY <1>6, <1>9, <2>3
  <2>8. ASSUME NEW k \in 1..(n + 1)
        PROVE  \E p \in [Bins -> Heights] :
                   /\ IsPeak(p, (k - 1) * Interval + 1, k * Interval)'
                   /\ freqs'[k] = Frequency(p)
    <3>1. CASE k \in 1..n
      BY <1>11, <2>2, <3>1
    <3>2. CASE k = n + 1
      BY <1>10, <2>2, <2>7, <3>2
    <3> QED BY <3>1, <3>2
  <2>9. WindowInv'
    BY <2>2, <2>8 DEF WindowInv
  <2> QED BY <2>6, <2>9 DEF AInv
<1> QED BY <1>12, <1>13

\* The invariant holds of every step.
LEMMA StepInv == AInv /\ [Next]_vars => AInv'
<1> SUFFICES ASSUME AInv, [Next]_vars PROVE AInv'
  OBVIOUS
<1>1. ASSUME NEW s \in Spectra, Receive(s) PROVE AInv'
  BY <1>1, ReceiveStep
<1>2. CASE Unreadable \/ InfoFails \/ OpenFails \/ Open \/ SeekFails \/ Seek
  BY <1>2, ReceiverStep
     DEF Unreadable, InfoFails, OpenFails, Open, SeekFails, Seek, Return, Goto
<1>3. ASSUME NEW content, InfoRead(content) PROVE AInv'
  BY <1>3, ReceiverStep DEF InfoRead, Goto
<1>4. CASE Refuse \/ ExtractEnds \/ IdentifyReturns \/ IdentifyThrows \/ Cancel
  BY <1>4, ReceiverStep
     DEF Refuse, ExtractEnds, Extracted, IdentifyReturns, IdentifyThrows, Goto, Cancel
<1>5. CASE UNCHANGED vars
  BY <1>5, ReceiverStep DEF vars
<1> QED BY <1>1, <1>2, <1>3, <1>4, <1>5 DEF Next

\* The receiver keeps its books right.
THEOREM Invariance == Spec => []AInv
<1> QED BY InitInv, StepInv, PTL DEF Spec

\* Every full window has a frequency that follows from its own spectra, for
\* any interval and any spectra: MySpectrumReceiver::Receive.
THEOREM WindowsApart == Spec => []FrequenciesOwn
<1> QED BY Invariance, WindowsOwn, PTL

------------------------------------------------------------------------------
(* The answer of Identify *)

\* A file that is refused is unreadable, unless its measurement was cancelled;
\* and only a file the decoder has opened is measured.
AnswerInv ==
    /\ pc \in {"seek", "extract", "extracted"} => opened
    /\ size \in Nat \cup {-1}
    /\ RefusedOnlyUnreadable

\* A size an int can hold, and that is not 0, lets the file be read.
LEMMA Readable ==
    ASSUME size \in Nat \cup {-1}, fileSize <= 0
    PROVE  size <= 0 \/ size >= IntLimit
<1> SUFFICES ASSUME size \in Nat, size < IntLimit PROVE size <= 0
  BY SizesAssumption
<1>1. fileSize = size
  BY AsIntExact DEF fileSize
<1> QED BY <1>1

\* AnswerInv holds of every step.
LEMMA AnswerStep == AnswerInv /\ [Next]_vars => AnswerInv'
<1> SUFFICES ASSUME AnswerInv, [Next]_vars PROVE AnswerInv'
  OBVIOUS
<1> USE DEF AnswerInv, RefusedOnlyUnreadable
<1>1. ASSUME NEW s \in Spectra, Receive(s) PROVE AnswerInv'
  BY <1>1 DEF Receive
<1>2. CASE Unreadable
  BY <1>2, Readable DEF Unreadable, Return, Goto
<1>3. CASE InfoFails \/ OpenFails \/ SeekFails
  BY <1>3 DEF InfoFails, OpenFails, SeekFails, Return, Goto
<1>4. CASE Open \/ Seek
  BY <1>4 DEF Open, Seek, Goto
<1>5. ASSUME NEW content, InfoRead(content) PROVE AnswerInv'
  BY <1>5 DEF InfoRead, Goto
<1>6. CASE Refuse \/ ExtractEnds \/ IdentifyThrows
  BY <1>6 DEF Refuse, ExtractEnds, Extracted, IdentifyThrows, Goto
<1>7. CASE IdentifyReturns
  BY <1>7 DEF IdentifyReturns
<1>8. CASE Cancel
  BY <1>8 DEF Cancel
<1>9. CASE UNCHANGED vars
  BY <1>9 DEF vars, receiver
<1> QED BY <1>1, <1>2, <1>3, <1>4, <1>5, <1>6, <1>7, <1>8, <1>9 DEF Next

\* "return false" is for files that cannot be read, whatever the decoder makes
\* of the others, and for measurements that were cancelled.
THEOREM RefusalsJustified == Spec => []RefusedOnlyUnreadable
<1>1. Init => AnswerInv
  BY SizesAssumption DEF Init, AnswerInv, RefusedOnlyUnreadable
<1>2. AnswerInv => RefusedOnlyUnreadable
  BY DEF AnswerInv
<1> QED BY <1>1, <1>2, AnswerStep, PTL DEF Spec
------------------------------------------------------------------------------
(* The frequencies and their average *)

\* A quotient lies between the factors between which the number lies.
LEMMA QuotientBounds ==
    ASSUME NEW n \in Nat \ {0}, NEW s \in Nat, NEW lo \in Nat, NEW hi \in Nat,
           lo * n <= s, s <= hi * n
    PROVE  s \div n \in lo..hi
<1>1. PICK q \in Nat, r \in Nat : q = s \div n /\ r = s % n /\ r < n
  BY SMTT(30)
<1>2. s = n * q + r
  BY <1>1, Division
<1>3. lo <= q
  <2> SUFFICES ASSUME q + 1 <= lo PROVE FALSE
    OBVIOUS
  <2>1. (q + 1) * n <= lo * n
    BY SMTT(30)
  <2>2. (q + 1) * n = n * q + n
    BY SMTT(30)
  <2>3. n * q \in Nat /\ lo * n \in Nat
    BY SMTT(30)
  <2> QED BY <1>1, <1>2, <2>1, <2>2, <2>3
<1>4. q <= hi
  <2> SUFFICES ASSUME hi + 1 <= q PROVE FALSE
    OBVIOUS
  <2>1. (hi + 1) * n <= n * q
    BY SMTT(30)
  <2>2. (hi + 1) * n = hi * n + n
    BY SMTT(30)
  <2>3. n * q \in Nat /\ hi * n \in Nat
    BY SMTT(30)
  <2> QED BY <1>1, <1>2, <2>1, <2>2, <2>3
<1> QED BY <1>1, <1>3, <1>4

\* The frequency of a cutoff is never 0, and at most half the rate.
LEMMA FrequencyRange ==
    ASSUME NEW p \in [Bins -> Int]
    PROVE  Frequency(p) \in 1..(Rate \div 2)
<1> DEFINE drops == {b \in 0..(Amount - 2) : Difference(p[b + 1], p[b]) > Threshold}
<1>1. Amount \in Nat /\ Amount > 1
  BY AmountAssumption
<1>2. CutoffIndex(p) \in 0..(Amount - 2)
  <2>1. drops \in SUBSET Int /\ IsFiniteSet(drops)
    <3>1. drops \in SUBSET (0..(Amount - 2)) /\ 0..(Amount - 2) \in SUBSET Int
      BY <1>1
    <3>2. IsFiniteSet(0..(Amount - 2))
      BY <1>1, FS_Interval
    <3> HIDE DEF drops
    <3> QED BY <3>1, <3>2, FS_Subset
  <2>2. CutoffIndex(p) = IF drops = {} THEN 0 ELSE Max(drops)
    BY DEF CutoffIndex
  <2>3. drops # {} => Max(drops) \in drops
    <3> HIDE DEF drops
    <3> QED BY <2>1, MaxMin
  <2> QED BY <1>1, <2>2, <2>3
<1>3. PICK h \in Nat, n \in Nat \ {0}, c \in Nat \ {0} :
          /\ h = Rate \div 2 /\ n = Amount - 1 /\ c = CutoffIndex(p) + 1
          /\ c <= n /\ n <= h
  <2>1. Rate \div 2 \in Nat /\ Rate \div 2 >= Amount - 1
    BY RateAssumption, SMTT(30)
  <2>2. Amount - 1 \in Nat \ {0}
    BY <1>1
  <2>3. CutoffIndex(p) + 1 \in Nat \ {0} /\ CutoffIndex(p) + 1 <= Amount - 1
    BY <1>1, <1>2
  <2> QED BY <2>1, <2>2, <2>3
<1>4. 1 * n <= c * h
  BY <1>3, SMTT(30)
<1>5. c * h <= h * n
  BY <1>3, SMTT(30)
<1>6. c * h \in Nat
  BY <1>3, SMTT(30)
<1>7. (c * h) \div n \in 1..h
  BY <1>4, <1>5, <1>6, QuotientBounds
<1> QED BY <1>3, <1>7 DEF Frequency

\* The library's fold of a sequence of numbers is their sum.
LEMMA FoldIsSum ==
    ASSUME NEW s
    PROVE  FoldSeq(+, 0, s) = SumFunctionOnSet(s, DOMAIN s)
BY DEF FoldSeq, FoldFunction, SumFunctionOnSet

\* The average of some frequencies, less those at the end: 0 if none is left,
\* and else between any bounds of those that are.
LEMMA AverageBounds ==
    ASSUME NEW f, f \in Seq(Nat), NEW last \in Int, last = Len(f) - (ToRemove + 1)
    PROVE  /\ last <= 0 => GetAverageFreq(f) = 0
           /\ \A lo, hi \in Nat :
                  last > 0 /\ (\A k \in 1..last : f[k] \in lo..hi) =>
                      GetAverageFreq(f) \in lo..hi
<1> DEFINE kept == SubSeq(f, 1, last)
<1>1. Len(f) \in Nat /\ ToRemove \in Nat /\ last <= Len(f)
  BY LenProperties, CheckPointAssumption
<1>2. GetAverageFreq(f) = IF kept = << >> THEN 0 ELSE FoldSeq(+, 0, kept) \div Len(kept)
  BY DEF GetAverageFreq
<1>3. CASE last <= 0
  <2>1. kept = << >>
    BY <1>1, <1>3, SubSeqProperties
  <2> HIDE DEF kept
  <2>2. GetAverageFreq(f) = 0
    BY <1>2, <2>1
  <2> QED BY <1>3, <2>2
<1>4. CASE last > 0
  <2>1. /\ kept \in Seq(Nat) /\ Len(kept) = last /\ DOMAIN kept = 1..last
        /\ \A k \in 1..last : kept[k] = f[k]
    BY <1>1, <1>4, SubSeqProperties
  <2> HIDE DEF kept
  <2>2. kept # << >>
    <3>1. Len(<< >>) = 0
      OBVIOUS
    <3> QED BY <1>4, <2>1, <3>1
  <2>3. IsFiniteSet(1..last) /\ Cardinality(1..last) = last
    BY <1>4, FS_Interval
  <2>4. ASSUME NEW lo \in Nat, NEW hi \in Nat, \A k \in 1..last : f[k] \in lo..hi
        PROVE  GetAverageFreq(f) \in lo..hi
    <3>1. PICK s : s = SumFunctionOnSet(kept, 1..last)
      OBVIOUS
    <3>2. \A k \in 1..last : kept[k] \in lo..hi
      BY <2>1, <2>4
    <3>3. s \in Int /\ lo * last <= s /\ s <= hi * last
      <4>1. /\ SumFunctionOnSet(kept, 1..last) \in Int
            /\ lo * Cardinality(1..last) <= SumFunctionOnSet(kept, 1..last)
            /\ SumFunctionOnSet(kept, 1..last) <= hi * Cardinality(1..last)
        <5>1. lo \in Int /\ hi \in Int
          OBVIOUS
        <5> QED BY <2>3, <3>2, <5>1, SumBounds
      <4> QED BY <2>3, <3>1, <4>1
    <3>4. lo * last \in Nat /\ hi * last \in Nat /\ last \in Nat \ {0}
      BY <1>4, SMTT(30)
    <3>5. s \in Nat
      BY <3>3, <3>4
    <3>6. s \div last \in lo..hi
      BY <3>3, <3>4, <3>5, QuotientBounds
    <3>7. GetAverageFreq(f) = FoldSeq(+, 0, kept) \div Len(kept)
      BY <1>2, <2>2
    <3>8. FoldSeq(+, 0, kept) = s
      BY <2>1, <3>1, FoldIsSum
    <3> QED BY <2>1, <3>6, <3>7, <3>8
  <2> QED BY <1>4, <2>4
<1> QED BY <1>3, <1>4

------------------------------------------------------------------------------
(* The result of the measurement *)

\* The cutoff that Identify gives is the average of the receiver's frequencies
\* if it measured the file, and what it was if not.
MeasureInv ==
    /\ pc \in {"read", "open", "seek", "extract", "extracted", "returned", "thrown"}
    /\ size \in Sizes
    /\ cancelled \in BOOLEAN /\ opened \in BOOLEAN /\ answer \in BOOLEAN
    /\ format \in {"[Unknown]"} \cup Contents
    /\ pc \in {"read", "open", "seek"} => freqs = << >>
    /\ extraction \in {"none", "measured", "interrupted"}
    /\ pc \in {"read", "open", "seek", "extract"} => extraction = "none"
    /\ pc = "extracted" => extraction # "none"
    /\ cutoff = IF pc = "returned" /\ answer THEN GetAverageFreq(freqs) ELSE 0

\* What every frequency the receiver has recorded lies between.
LEMMA FreqsRange ==
    ASSUME AInv
    PROVE  freqs \in Seq(Nat) /\ freqs \in Seq(Frequencies)
           /\ \A k \in 1..Len(freqs) : freqs[k] \in 1..(Rate \div 2)
<1>1. Heights \subseteq Int
  BY LevelAssumption DEF Heights
<1>2. ASSUME NEW p \in [Bins -> Heights]
      PROVE  Frequency(p) \in 1..(Rate \div 2)
  <2>1. p \in [Bins -> Int]
    BY <1>1
  <2> QED BY <2>1, FrequencyRange
<1>3. Rate \div 2 \in Nat
  BY RateAssumption, SMTT(30)
<1>4. Found \subseteq 1..(Rate \div 2) /\ 1..(Rate \div 2) \subseteq Nat
      /\ 1..(Rate \div 2) \subseteq Frequencies
  BY <1>2, <1>3 DEF Found, Frequencies
<1>5. freqs \in Seq(Found)
  BY DEF AInv, ReceiverInv, Found
<1>6. \A k \in 1..Len(freqs) : freqs[k] \in Found
  BY <1>5, ElementOfSeq
<1>7. freqs \in Seq(Nat) /\ freqs \in Seq(Frequencies)
  <2>1. Found \subseteq Nat /\ Found \subseteq Frequencies
    BY <1>4
  <2> QED BY <1>5, <2>1, SeqMonotonic
<1> QED BY <1>4, <1>6, <1>7

\* A file begins without a cutoff and without frequencies.
LEMMA MeasureInit == Init => MeasureInv
BY DEF Init, MeasureInv

\* MeasureInv holds of every step.
LEMMA MeasureStep == AInv /\ MeasureInv /\ [Next]_vars => MeasureInv'
<1> SUFFICES ASSUME AInv, MeasureInv, [Next]_vars PROVE MeasureInv'
  OBVIOUS
<1> USE DEF MeasureInv
<1>1. ASSUME NEW s \in Spectra, Receive(s) PROVE MeasureInv'
  BY <1>1 DEF Receive
<1>2. GetAverageFreq(<< >>) = 0
  <2>1. << >> \in Seq(Nat) /\ Len(<< >>) = 0 /\ 0 - (ToRemove + 1) \in Int
        /\ 0 - (ToRemove + 1) <= 0
    BY CheckPointAssumption
  <2> QED BY <2>1, AverageBounds
<1>3. CASE Unreadable
  BY <1>3 DEF Unreadable, Return, Goto, receiver
<1>4. CASE InfoFails \/ OpenFails \/ SeekFails
  <2>1. /\ pc \in {"read", "open", "seek"} /\ pc' = "returned" /\ answer' = TRUE
        /\ cutoff' = cutoff /\ freqs' = freqs /\ size' = size
        /\ format' \in {format} \cup Contents
        /\ cancelled' = cancelled /\ opened' = opened /\ extraction' = extraction
    BY <1>4 DEF InfoFails, OpenFails, SeekFails, SetContent, Return, Goto, receiver
  <2>2. freqs = << >> /\ cutoff = 0
    BY <2>1
  <2>3. cutoff' = GetAverageFreq(freqs')
    BY <1>2, <2>1, <2>2
  <2>4. GetAverageFreq(freqs)' = GetAverageFreq(freqs')
    OBVIOUS
  <2> QED BY <2>1, <2>3, <2>4
<1>5. CASE Open \/ Seek
  BY <1>5 DEF Open, Seek, Goto, receiver
<1>6. ASSUME NEW content \in Contents, InfoRead(content) PROVE MeasureInv'
  BY <1>6 DEF InfoRead, Goto, receiver
<1>7. CASE Refuse \/ ExtractEnds \/ IdentifyThrows
  BY <1>7 DEF Refuse, ExtractEnds, Extracted, IdentifyThrows, SetContent, Goto, receiver
<1>8. CASE IdentifyReturns
  <2>1. freqs' = freqs /\ pc = "extracted" /\ pc' = "returned" /\ answer' = ~cancelled
    BY <1>8 DEF IdentifyReturns, receiver
  <2>2. GetAverageFreq(freqs)' = GetAverageFreq(freqs)
    BY <2>1
  <2>3. cutoff' = IF pc' = "returned" /\ answer' THEN GetAverageFreq(freqs)' ELSE 0
    BY <1>8, <2>1, <2>2 DEF IdentifyReturns
  <2> QED BY <1>8, <2>1, <2>3 DEF IdentifyReturns
<1>9. CASE Cancel
  BY <1>9 DEF Cancel, receiver
<1>10. CASE UNCHANGED vars
  BY <1>10 DEF vars, receiver
<1> QED BY <1>1, <1>3, <1>4, <1>5, <1>6, <1>7, <1>8, <1>9, <1>10 DEF Next

\* The receiver's books and the result agree in every state.
THEOREM Measurement == Spec => [](AInv /\ MeasureInv)
<1>1. Init => AInv /\ MeasureInv
  BY InitInv, MeasureInit
<1>2. AInv /\ MeasureInv /\ [Next]_vars => (AInv /\ MeasureInv)'
  BY StepInv, MeasureStep
<1> QED BY <1>1, <1>2, PTL DEF Spec

\* The state is well formed: no cutoff exceeds half the rate, in any file.
THEOREM TypeInvariance == Spec => []TypeOK
<1>1. AInv /\ MeasureInv => TypeOK
  <2> SUFFICES ASSUME AInv, MeasureInv PROVE TypeOK
    OBVIOUS
  <2>1. Rate \div 2 \in Nat
    BY RateAssumption, SMTT(30)
  <2>2. freqs \in Seq(Nat) /\ freqs \in Seq(Frequencies)
        /\ \A k \in 1..Len(freqs) : freqs[k] \in 0..(Rate \div 2)
    BY <2>1, FreqsRange
  <2> DEFINE last == Len(freqs) - (ToRemove + 1)
  <2>3. last \in Int /\ last = Len(freqs) - (ToRemove + 1) /\ last <= Len(freqs)
    <3>1. Len(freqs) \in Nat /\ ToRemove \in Nat
      BY <2>2, LenProperties, CheckPointAssumption
    <3> QED BY <3>1
  <2> HIDE DEF last
  <2>4. GetAverageFreq(freqs) \in 0..(Rate \div 2)
    <3>1. CASE last <= 0
      BY <2>1, <2>2, <2>3, <3>1, AverageBounds
    <3>2. CASE last > 0
      <4>1. \A k \in 1..last : freqs[k] \in 0..(Rate \div 2)
        BY <2>2, <2>3, LenProperties
      <4> QED BY <2>1, <2>2, <2>3, <3>2, <4>1, AverageBounds
    <3> QED BY <2>3, <3>1, <3>2
  <2>5. cutoff \in Frequencies
    BY <2>1, <2>4 DEF MeasureInv, Frequencies
  <2>6. power \in [Bins -> Nat]
    <3>1. power \in [Bins -> Heights] /\ \A b \in Bins : 0 <= power[b]
      BY DEF AInv, ReceiverInv, IsPeak, Levels
    <3>2. Heights \subseteq Int
      BY LevelAssumption DEF Heights
    <3>3. ASSUME NEW b \in Bins PROVE power[b] \in Nat
      <4>1. power[b] \in Heights /\ 0 <= power[b]
        BY <3>1
      <4>2. power[b] \in Int
        BY <3>2, <4>1
      <4> QED BY <4>1, <4>2
    <3> QED BY <3>1, <3>3
  <2>7. receiveCount \in Nat /\ heard \in Seq(Spectra)
    BY LenProperties DEF AInv, ReceiverInv
  <2> QED BY <2>2, <2>5, <2>6, <2>7 DEF MeasureInv, TypeOK
<1> QED BY <1>1, Measurement, PTL

\* 0 means that the file was not measured: a measurement past the excluded end
\* gives more, for any spectra, since no frequency is 0 and the average of some
\* is at least the least.
THEOREM ZeroUnmeasured == Spec => []ZeroMeansUnmeasured
<1>1. AInv /\ MeasureInv => ZeroMeansUnmeasured
  <2> SUFFICES ASSUME AInv, MeasureInv, pc = "returned", answer
               PROVE  cutoff = 0 <=> Len(heard) \div Interval <= ToRemove + 1
    BY DEF ZeroMeansUnmeasured
  <2>1. cutoff = GetAverageFreq(freqs) /\ Len(freqs) = Len(heard) \div Interval
    BY WindowsOwn DEF MeasureInv, FrequenciesOwn
  <2>2. freqs \in Seq(Nat) /\ \A k \in 1..Len(freqs) : freqs[k] \in 1..(Rate \div 2)
    BY FreqsRange
  <2>3. Len(freqs) \in Nat /\ ToRemove \in Nat /\ Rate \div 2 \in Nat
    BY <2>2, LenProperties, CheckPointAssumption, RateAssumption, SMTT(30)
  <2> DEFINE last == Len(freqs) - (ToRemove + 1)
  <2>4. last \in Int /\ last = Len(freqs) - (ToRemove + 1)
    BY <2>3
  <2> HIDE DEF last
  <2>5. last <= 0 => GetAverageFreq(freqs) = 0
    BY <2>2, <2>4, AverageBounds
  <2>6. last > 0 => GetAverageFreq(freqs) \in 1..(Rate \div 2)
    <3>1. \A k \in 1..last : freqs[k] \in 1..(Rate \div 2)
      BY <2>2, <2>3, <2>4
    <3> QED BY <2>2, <2>3, <2>4, <3>1, AverageBounds
  <2> QED BY <2>1, <2>3, <2>4, <2>5, <2>6
<1> QED BY <1>1, Measurement, PTL

\* "Exclude some data at the end": whatever the last windows hold, the result
\* lies between the least and the greatest frequency of those before them.
THEOREM EndNeverCounts == Spec => []EndExcluded
<1>1. AInv /\ MeasureInv => EndExcluded
  <2> SUFFICES ASSUME AInv, MeasureInv, pc = "returned", cutoff # 0
               PROVE  EndExcluded
    BY DEF EndExcluded
  <2> DEFINE last == (Len(heard) \div Interval) - (ToRemove + 1)
             kept == {Frequency(PeaksOf(WindowOf(k))) : k \in 1..last}
  <2>1. cutoff = GetAverageFreq(freqs)
    BY DEF MeasureInv
  <2>2. /\ Len(freqs) = Len(heard) \div Interval
        /\ \A k \in 1..Len(freqs) : freqs[k] = Frequency(PeaksOf(WindowOf(k)))
    BY WindowsOwn DEF FrequenciesOwn
  <2>3. freqs \in Seq(Nat) /\ Len(freqs) \in Nat /\ ToRemove \in Nat
    BY FreqsRange, LenProperties, CheckPointAssumption
  <2>4. last \in Int /\ last = Len(freqs) - (ToRemove + 1) /\ last <= Len(freqs)
    BY <2>2, <2>3
  <2> HIDE DEF last
  <2>5. last > 0
    <3>1. last <= 0 => GetAverageFreq(freqs) = 0
      BY <2>3, <2>4, AverageBounds
    <3> QED BY <2>1, <2>4, <3>1
  <2>6. \A k \in 1..last : freqs[k] \in kept /\ freqs[k] \in Nat
    BY <2>2, <2>3, <2>4, ElementOfSeq
  <2>7. kept \in SUBSET Nat /\ kept # {} /\ IsFiniteSet(kept)
    <3>1. kept = {freqs[k] : k \in 1..last}
      BY <2>2, <2>4
    <3>2. kept \in SUBSET Nat /\ kept # {}
      <4>1. 1 \in 1..last
        BY <2>4, <2>5
      <4> HIDE DEF kept
      <4> QED BY <2>6, <3>1, <4>1
    <3>3. IsFiniteSet(kept)
      <4>1. IsFiniteSet(1..last)
        BY <2>4, FS_Interval
      <4>2. [k \in 1..last |-> freqs[k]] \in Surjection(1..last, kept)
        <5> HIDE DEF kept
        <5> QED BY <2>6, <3>1 DEF Surjection
      <4> QED BY <4>1, <4>2, FS_Surjection
    <3> QED BY <3>2, <3>3
  <2> HIDE DEF kept
  <2>8. /\ Min(kept) \in kept /\ Max(kept) \in kept
        /\ \A y \in kept : Min(kept) <= y /\ y <= Max(kept)
    <3>1. kept \in SUBSET Int
      BY <2>7
    <3> QED BY <2>7, <3>1, MaxMin
  <2>9. PICK lo \in Nat, hi \in Nat : lo = Min(kept) /\ hi = Max(kept)
    BY <2>7, <2>8
  <2>10. \A k \in 1..last : freqs[k] \in lo..hi
    BY <2>6, <2>8, <2>9
  <2>11. cutoff \in lo..hi
    BY <2>1, <2>3, <2>4, <2>5, <2>10, AverageBounds
  <2> QED BY <2>9, <2>11 DEF EndExcluded, kept, last
<1> QED BY <1>1, Measurement, PTL

------------------------------------------------------------------------------
(* The identification as the session sees it *)

\* The phase and the record follow from these parts of the state.
LEMMA SessionView ==
    ASSUME UNCHANGED <<pc, answer, extraction>>
    PROVE  phase' = phase /\ record' = record
BY DEF phase, record

\* Every step is one of the session's Identify... actions or none of its business.
LEMMA SessionStep ==
    ASSUME MeasureInv, [Next]_vars
    PROVE  [Session!Next]_(Session!vars)
<1> USE DEF MeasureInv
<1>1. CASE Unreadable
  <2>1. pc = "read" /\ pc' = "returned" /\ answer' = FALSE /\ cancelled' = cancelled
    BY <1>1 DEF Unreadable, Return, Goto
  <2>2. Session!Unreadable
    BY <2>1 DEF Session!Unreadable, phase, record
  <2> QED BY <2>2 DEF Session!Next
<1>2. CASE InfoFails \/ OpenFails \/ SeekFails
  <2>1. /\ pc \in {"read", "open", "seek"} /\ pc' = "returned" /\ answer' = TRUE
        /\ cancelled' = cancelled /\ extraction' = extraction /\ extraction = "none"
    BY <1>2 DEF InfoFails, OpenFails, SeekFails, Return, Goto
  <2>2. Session!Unmeasured
    BY <2>1 DEF Session!Unmeasured, phase, record
  <2> QED BY <2>2 DEF Session!Next
<1>3. ASSUME NEW content \in Contents, InfoRead(content)
      PROVE  UNCHANGED Session!vars
  <2>1. pc = "read" /\ pc' = "open" /\ cancelled' = cancelled
    BY <1>3 DEF InfoRead, Goto
  <2> QED BY <2>1 DEF Session!vars, phase, record
<1>4. CASE Open
  <2>1. pc = "open" /\ pc' = "seek" /\ cancelled' = cancelled
    BY <1>4 DEF Open, Goto
  <2> QED BY <2>1 DEF Session!vars, phase, record
<1>5. CASE Seek
  <2>1. pc = "seek" /\ pc' = "extract" /\ cancelled' = cancelled
    BY <1>5 DEF Seek, Goto
  <2>2. Session!Extracts
    BY <2>1 DEF Session!Extracts, phase, record
  <2> QED BY <2>2 DEF Session!Next
<1>6. CASE IdentifyThrows
  <2>1. /\ pc \in {"read", "open", "seek", "extract"} /\ pc' = "thrown"
        /\ cancelled' = cancelled
    BY <1>6 DEF IdentifyThrows, Goto
  <2>2. Session!Throws
    BY <2>1 DEF Session!Throws, phase, record
  <2> QED BY <2>2 DEF Session!Next
<1>7. ASSUME NEW s \in Spectra, Receive(s)
      PROVE  UNCHANGED Session!vars
  <2>1. UNCHANGED <<pc, answer, extraction, cancelled>>
    BY <1>7 DEF Receive
  <2> QED BY <2>1, SessionView DEF Session!vars
<1>8. CASE Refuse
  <2>1. /\ pc = "extract" /\ pc' = "extracted" /\ cancelled' = cancelled
        /\ extraction' = IF cancelled THEN "interrupted" ELSE "measured"
    BY <1>8 DEF Refuse, Extracted
  <2>2. Session!ReceiveCancelled \/ Session!ExtractEnds
    BY <2>1 DEF Session!ReceiveCancelled, Session!ExtractEnds, phase, record
  <2> QED BY <2>2 DEF Session!Next
<1>9. CASE ExtractEnds
  <2>1. /\ pc = "extract" /\ pc' = "extracted" /\ cancelled' = cancelled
        /\ extraction' = "measured"
    BY <1>9 DEF ExtractEnds, Extracted
  <2>2. Session!ExtractEnds
    BY <2>1 DEF Session!ExtractEnds, phase, record
  <2> QED BY <2>2 DEF Session!Next
<1>10. CASE IdentifyReturns
  <2>1. /\ pc = "extracted" /\ pc' = "returned" /\ answer' = ~cancelled
        /\ cancelled' = cancelled /\ extraction' = extraction /\ extraction # "none"
    BY <1>10 DEF IdentifyReturns
  <2>2. Session!Returns
    BY <2>1 DEF Session!Returns, phase, record
  <2> QED BY <2>2 DEF Session!Next
<1>11. CASE Cancel
  <2>1. ~cancelled /\ cancelled' = TRUE /\ UNCHANGED <<pc, answer, extraction>>
    BY <1>11 DEF Cancel
  <2>2. Session!Cancel
    BY <2>1, SessionView DEF Session!Cancel
  <2> QED BY <2>2 DEF Session!Next
<1>12. CASE UNCHANGED vars
  <2>1. UNCHANGED <<pc, answer, extraction, cancelled>>
    BY <1>12 DEF vars
  <2> QED BY <2>1, SessionView DEF Session!vars
<1> QED BY <1>1, <1>2, <1>3, <1>4, <1>5, <1>6, <1>7, <1>8, <1>9, <1>10, <1>11, <1>12
        DEF Next

\* Identify implements what ScanSession assumes of it, for any file and decoder:
\* whenever the flag is set, an interrupted result is dropped.
THEOREM IdentificationKept == Spec => IdentificationSpec
<1>1. Init => Session!Init
  BY DEF Init, Session!Init, phase, record
<1>2. MeasureInv /\ [Next]_vars => [Session!Next]_(Session!vars)
  BY SessionStep
<1>3. Spec => []MeasureInv
  BY Measurement, PTL
<1> QED BY <1>1, <1>2, <1>3, PTL DEF Spec, Session!Spec, IdentificationSpec
==============================================================================
