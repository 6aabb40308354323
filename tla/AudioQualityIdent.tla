-------------------------- MODULE AudioQualityIdent --------------------------
(***************************************************************************)
(* AudioQualityIdent::Identify of audio_quality_ident.cpp for one file:    *)
(* the stages of the measurement, and what MySpectrumReceiver computes     *)
(* from the spectra the decoder delivers.  Identify runs on the worker;    *)
(* the user may set the cancel flag between any two of its steps.          *)
(*                                                                         *)
(* A spectrum gives a magnitude for each of Amount frequencies.  Over      *)
(* Interval spectra the receiver keeps the peak level of each frequency,   *)
(* then takes the highest frequency at which the level drops sharply as    *)
(* the cutoff of that window and starts over.  The result is the average   *)
(* of the windows without those at the end.                                *)
(***************************************************************************)
EXTENDS Integers, Sequences, SequencesExt, FiniteSetsExt

CONSTANTS Amount,       \* frequencies of a spectrum (512 for windows of 1024)
          Magnitudes,   \* what the decoder may give for a frequency
          Level,        \* 10 * log of a magnitude, rounded; log(0) as -1
          Threshold,    \* a difference of levels that marks the cutoff (3.0)
          Spectra,      \* the spectra considered
          Rate,         \* samples per second
          Interval,     \* spectra between two check points (20)
          ToRemove,     \* check points left out at the end, less one (10)
          MaxReceived,  \* bound: spectra of a file
          IntLimit,     \* one more than the greatest int (2^31)
          Sizes         \* what tellg may give: -1 for a file that did not open

Bins == 0..(Amount - 1)

ASSUME AmountAssumption == Amount \in Nat /\ Amount > 1
ASSUME LevelAssumption ==
    Level \in [Magnitudes -> Nat \cup {-1}] /\ Threshold \in Nat
ASSUME SpectraAssumption == Spectra \subseteq [Bins -> Magnitudes]
ASSUME RateAssumption == Rate \in Nat /\ Rate \div 2 >= Amount - 1
ASSUME CheckPointAssumption ==
    Interval \in Nat \ {0} /\ ToRemove \in Nat /\ MaxReceived \in Nat

ASSUME SizesAssumption == IntLimit \in Nat \ {0} /\ Sizes \subseteq Nat \cup {-1}

VARIABLES
    pc,
    size,           \* of the file
    cancelled,      \* cancelFlag_
    format,         \* *format
    cutoff,         \* *cutoff
    answer,         \* what Identify returns
    power,          \* power_ of the receiver
    receiveCount,   \* receiveCount_
    freqs,          \* freqs_
    heard,          \* history: the spectra received
    opened,         \* history: the decoder opened the file
    extraction      \* history: how the extraction ended

receiver == <<power, receiveCount, freqs, heard>>
vars == <<pc, size, cancelled, format, cutoff, answer, receiver, opened, extraction>>

Silence == [b \in Bins |-> 0]

Init ==
    /\ pc = "read" /\ size \in Sizes /\ cancelled \in BOOLEAN
    /\ format = "[Unknown]" /\ cutoff = 0 /\ answer = FALSE
    /\ power = Silence /\ receiveCount = 1 /\ freqs = << >>
    /\ heard = << >> /\ opened = FALSE /\ extraction = "none"

------------------------------------------------------------------------------
(* MySpectrumReceiver *)

Difference(a, b) == IF a > b THEN a - b ELSE b - a

\* The scan from the highest frequency down that stops at the first drop.
CutoffIndex(p) ==
    LET drops == {b \in 0..(Amount - 2) : Difference(p[b + 1], p[b]) > Threshold}
    IN  IF drops = {} THEN 0 ELSE Max(drops)

\* Mutant: the index of the frequency below the drop.
FrequencyBelow(p) == (CutoffIndex(p) * (Rate \div 2)) \div (Amount - 1)

\* Mutant: the index of the frequency above the drop, counted once too often.
FrequencyAbove(p) == ((CutoffIndex(p) + 2) * (Rate \div 2)) \div (Amount - 1)

Frequency(p) == ((CutoffIndex(p) + 1) * (Rate \div 2)) \div (Amount - 1)

Peak(p, s) == [b \in Bins |-> IF p[b] < Level[s[b]] THEN Level[s[b]] ELSE p[b]]

\* Mutant: the check points of the beginning are left out.
GetAverageFreqOfEnd(f) ==
    LET kept == SubSeq(f, ToRemove + 2, Len(f))
    IN  IF kept = << >> THEN 0 ELSE FoldSeq(+, 0, kept) \div Len(kept)

\* The loop pops ToRemove + 1 check points, or as many as there are.
GetAverageFreq(f) ==
    LET kept == SubSeq(f, 1, Len(f) - (ToRemove + 1))
    IN  IF kept = << >> THEN 0 ELSE FoldSeq(+, 0, kept) \div Len(kept)

\* Mutant: the peaks of the last window are kept for the next.
ReceiveNoReset(s) ==
    /\ pc = "extract" /\ ~cancelled
    /\ Len(heard) < MaxReceived
    /\ power' = Peak(power, s)
    /\ freqs' = IF receiveCount % Interval = 0
                THEN Append(freqs, Frequency(power')) ELSE freqs
    /\ receiveCount' = receiveCount + 1
    /\ heard' = Append(heard, s)
    /\ UNCHANGED <<pc, size, cancelled, format, cutoff, answer, opened, extraction>>

Receive(s) ==
    /\ pc = "extract" /\ ~cancelled
    /\ Len(heard) < MaxReceived
    /\ LET peak == Peak(power, s)
           checkPoint == receiveCount % Interval = 0
       IN  /\ freqs' = IF checkPoint THEN Append(freqs, Frequency(peak)) ELSE freqs
           /\ power' = IF checkPoint THEN Silence ELSE peak
    /\ receiveCount' = receiveCount + 1
    /\ heard' = Append(heard, s)
    /\ UNCHANGED <<pc, size, cancelled, format, cutoff, answer, opened, extraction>>

Extracted(how) ==
    /\ pc = "extract" /\ pc' = "extracted"
    /\ extraction' = how
    /\ UNCHANGED <<size, cancelled, format, cutoff, answer, receiver, opened>>

\* Receive returns false and the decoder stops: the flag is set, or the spectrum
\* has no more than one frequency, which is the end of what can be measured.
Refuse == Extracted(IF cancelled THEN "interrupted" ELSE "measured")

\* External: ExtractSpectrum ends with the file, or with an error that its
\* ignored result does not tell apart.
ExtractEnds == Extracted("measured")

------------------------------------------------------------------------------
(* Identify *)

Goto(label) ==
    /\ pc' = label
    /\ UNCHANGED <<size, cancelled, cutoff, receiver, extraction>>

Return(result) == Goto("returned") /\ answer' = result

\* The position at the end of the file is narrowed to an int.
AsInt(n) == ((n + IntLimit) % (2 * IntLimit)) - IntLimit

fileSize == AsInt(size)

\* The file does not open or is empty, or its size has become negative.
Unreadable ==
    /\ pc = "read" /\ fileSize <= 0
    /\ Return(FALSE)
    /\ UNCHANGED <<format, opened>>

\* GetInstantMediaInfo writes the format through PassString::SetContent, as any
\* string, the empty one included, and whether or not it succeeds then.
Contents == {"", "mp3"}
SetContent == format' \in {format} \cup Contents

\* Mutant: what the decoder does not know is refused.
InfoFailsRefuses ==
    /\ pc = "read" /\ fileSize > 0
    /\ Return(FALSE)
    /\ SetContent /\ UNCHANGED opened

\* GetInstantMediaInfo fails; a format it has stored stays as it is.
InfoFails ==
    /\ pc = "read" /\ fileSize > 0
    /\ Return(TRUE)
    /\ SetContent /\ UNCHANGED opened

\* It succeeds with a format; an empty one counts as unknown.
InfoRead(content) ==
    /\ pc = "read" /\ fileSize > 0
    /\ format' = IF content = "" THEN "[Unknown]" ELSE content
    /\ Goto("open")
    /\ UNCHANGED <<answer, opened>>

OpenFails ==
    /\ pc = "open"
    /\ Return(TRUE)
    /\ UNCHANGED <<format, opened>>

Open ==
    /\ pc = "open"
    /\ opened' = TRUE
    /\ Goto("seek")
    /\ UNCHANGED <<format, answer>>

SeekFails ==
    /\ pc = "seek"
    /\ Return(TRUE)
    /\ UNCHANGED <<format, opened>>

Seek ==
    /\ pc = "seek"
    /\ Goto("extract")
    /\ UNCHANGED <<format, answer, opened>>

\* No memory for a buffer, or the decoder throws: the caller catches it.
IdentifyThrows ==
    /\ pc \in {"read", "open", "seek", "extract"}
    /\ pc = "read" => fileSize > 0
    /\ Goto("thrown")
    /\ IF pc = "read" THEN SetContent ELSE UNCHANGED format
    /\ UNCHANGED <<answer, opened>>

\* Mutant: the flag is not looked at after the extraction.
IdentifyReturnsAlways ==
    /\ pc = "extracted" /\ pc' = "returned"
    /\ answer' = TRUE /\ cutoff' = GetAverageFreq(freqs)
    /\ UNCHANGED <<size, cancelled, format, receiver, opened, extraction>>

IdentifyReturns ==
    /\ pc = "extracted"
    /\ pc' = "returned"
    /\ answer' = ~cancelled
    /\ cutoff' = IF cancelled THEN cutoff ELSE GetAverageFreq(freqs)
    /\ UNCHANGED <<size, cancelled, format, receiver, opened, extraction>>

\* The user presses Cancel while Identify is running.
Cancel ==
    /\ pc \notin {"returned", "thrown"} /\ ~cancelled
    /\ cancelled' = TRUE
    /\ UNCHANGED <<pc, size, format, cutoff, answer, receiver, opened, extraction>>

Next ==
    \/ Unreadable \/ InfoFails \/ OpenFails \/ Open \/ SeekFails \/ Seek
    \/ \E content \in Contents : InfoRead(content)
    \/ \E s \in Spectra : Receive(s)
    \/ Refuse \/ ExtractEnds \/ IdentifyReturns \/ IdentifyThrows \/ Cancel

Spec == Init /\ [][Next]_vars

------------------------------------------------------------------------------
(* Properties *)

Frequencies == 0..(Rate \div 2)

\* The state is well formed; in particular no cutoff exceeds half the rate.
TypeOK ==
    /\ pc \in {"read", "open", "seek", "extract", "extracted", "returned", "thrown"}
    /\ size \in Sizes
    /\ cancelled \in BOOLEAN /\ opened \in BOOLEAN /\ answer \in BOOLEAN
    /\ format \in {"[Unknown]"} \cup Contents
    /\ cutoff \in Frequencies /\ freqs \in Seq(Frequencies)
    /\ power \in [Bins -> Nat] /\ receiveCount \in Nat
    /\ heard \in Seq(Spectra)
    /\ extraction \in {"none", "measured", "interrupted"}

\* The spectra of the k-th window, and the peaks among them.
WindowOf(k) == SubSeq(heard, (k - 1) * Interval + 1, k * Interval)

PeaksOf(w) ==
    [b \in Bins |-> Max({0} \cup {Level[w[i][b]] : i \in 1..Len(w)})]

\* Every full window has a frequency, and it depends on the spectra of that
\* window alone, although one buffer and one counter serve them all.
FrequenciesOwn ==
    /\ Len(freqs) = Len(heard) \div Interval
    /\ \A k \in 1..Len(freqs) : freqs[k] = Frequency(PeaksOf(WindowOf(k)))

\* A cutoff of 0 marks a file that was not measured: a measurement that reached
\* the end of the excluded part always gives more, even of silence.
ZeroMeansUnmeasured ==
    pc = "returned" /\ answer =>
        (cutoff = 0 <=> Len(heard) \div Interval <= ToRemove + 1)

\* "Exclude some data at the end": the result lies among the frequencies of the
\* windows before it, whatever comes in the last ones.
EndExcluded ==
    pc = "returned" /\ cutoff # 0 =>
        LET last == (Len(heard) \div Interval) - (ToRemove + 1)
            kept == {Frequency(PeaksOf(WindowOf(k))) : k \in 1..last}
        IN  Min(kept) <= cutoff /\ cutoff <= Max(kept)

\* No file below 2 GB that opens and holds anything is refused, whatever the
\* decoder makes of it, unless a cancel interrupts its measurement.
RefusedOnlyUnreadable ==
    pc = "returned" /\ ~answer =>
        \/ size <= 0 \/ size >= IntLimit
        \/ opened /\ cancelled

\* What the session sees of this: the phase it is in and, between the end of the
\* extraction and the record, how the result came about.
phase ==
    CASE pc \in {"read", "open", "seek"} -> "identify"
      [] pc = "extract" -> "extract"
      [] pc = "extracted" -> "check"
      [] pc = "thrown" \/ (pc = "returned" /\ answer) -> "recorded"
      [] OTHER -> "dropped"

record ==
    CASE phase \in {"identify", "extract", "dropped"} -> "none"
      [] phase = "recorded" /\ (pc = "thrown" \/ extraction = "none") -> "unmeasured"
      [] OTHER -> extraction

Session == INSTANCE Identification

\* Identify does for a file what ScanSession assumes; in particular a result
\* that the flag has interrupted is never recorded, whenever the flag is set.
IdentificationSpec == Session!Spec

\* "Return true and mark this file as an unrecognized format", said of the step
\* in which Open fails: the file it returns is one of no known format.
UnopenedUnrecognized ==
    [][pc = "open" /\ pc' = "returned" => format' = "[Unknown]"]_vars

------------------------------------------------------------------------------
(* The inductive invariant of the receiver *)

\* The levels of frequency b among the spectra from lo to hi, and the floor.
Levels(lo, hi, b) == {0} \cup {Level[heard[i][b]] : i \in lo..hi}

Heights == {0} \cup {Level[m] : m \in Magnitudes}

\* What holds of p if it has the peaks of these spectra.
IsPeak(p, lo, hi) ==
    /\ p \in [Bins -> Heights]
    /\ \A b \in Bins : /\ p[b] \in Levels(lo, hi, b)
                       /\ \A x \in Levels(lo, hi, b) : x <= p[b]

\* The spectra counted, the windows completed and the window begun.
ReceiverInv ==
    /\ heard \in Seq(Spectra)
    /\ freqs \in Seq({Frequency(p) : p \in [Bins -> Heights]})
    /\ receiveCount = Len(heard) + 1
    /\ Len(freqs) * Interval <= Len(heard)
    /\ Len(heard) < (Len(freqs) + 1) * Interval
    /\ IsPeak(power, Len(freqs) * Interval + 1, Len(heard))

\* Each frequency is that of some peaks of its window.
WindowInv ==
    \A k \in 1..Len(freqs) : \E p \in [Bins -> Heights] :
        /\ IsPeak(p, (k - 1) * Interval + 1, k * Interval)
        /\ freqs[k] = Frequency(p)

AInv == ReceiverInv /\ WindowInv
==============================================================================
