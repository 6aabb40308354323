------------------------------- MODULE Reports --------------------------------
(***************************************************************************)
(* The figures of the reports that OnBnClickedButtonAnalyze writes from a  *)
(* result map (main_dialog.cpp): how many results each line stands for.    *)
(* Text, columns and percentages are left out; every percentage is one of  *)
(* these counts over one of these totals.  The map starts empty and        *)
(* results are recorded in it one at a time, as during a scan; Analyze may *)
(* be pressed after any of them.                                           *)
(***************************************************************************)
EXTENDS Integers, Sequences, FiniteSets, FiniteSetsExt, Functions

CONSTANTS Names,    \* base names of audio files: the keys of the map
          Infos     \* MediaInfo values that may be recorded

\* The fields the reports read, as the decoder may give them.
ASSUME InfosAssumption ==
    /\ IsFiniteSet(Names)
    /\ \A i \in Infos :
        /\ i.format \in {"", "[Unknown]", "[Crash]", "mp3"}
        /\ {i.bitrate, i.cutoff, i.duration, i.rate, i.channels} \subseteq Nat

VARIABLE result     \* the result map: a function on the names recorded

Init == result = [n \in {} |-> n]

Record(n, info) ==
    /\ n \in Names \ DOMAIN result
    /\ result' = [k \in DOMAIN result \cup {n} |->
                    IF k = n THEN info ELSE result[k]]

Next == \E n \in Names, info \in Infos : Record(n, info)

Spec == Init /\ [][Next]_result

------------------------------------------------------------------------------
(* What the reports count *)

Unrecognized(n) == result[n].format \in {"", "[Unknown]", "[Crash]"}

Recognized == {n \in DOMAIN result : ~Unrecognized(n)}

\* Mutant: the value has to exceed the baseline.
Exceeds(value, baselines) ==
    LET reached == {j \in 1..Len(baselines) : value > baselines[j]}
    IN  IF reached = {} THEN 0 ELSE Min(reached)

\* The first baseline, from the highest down, that the value reaches; 0 if none.
Reaches(value, baselines) ==
    LET reached == {j \in 1..Len(baselines) : value >= baselines[j]}
    IN  IF reached = {} THEN 0 ELSE Min(reached)

\* In bit/s; the last line is for the results that are not recognized.
BitrateBaselines ==
    <<318000, 222000, 190000, 126000, 94000, 62000, 30000, 0, -1>>

BitrateLine(n) ==
    IF Unrecognized(n) THEN Len(BitrateBaselines)
    ELSE Reaches(result[n].bitrate, BitrateBaselines)

BitrateCount(j) == Cardinality({n \in DOMAIN result : BitrateLine(n) = j})

\* The average cutoff is the sum over the quantity, for each bitrate in kbit/s.
BitrateToCutoff ==
    LET kbps(n) == result[n].bitrate \div 1000
    IN  [b \in {kbps(n) : n \in Recognized} |->
            LET some == {n \in Recognized : kbps(n) = b}
            IN  [sum |-> SumFunction([n \in some |-> result[n].cutoff]),
                 quantity |-> Cardinality(some)]]

\* Mutant: an upper end of 0 is taken for one.
ScopeUpperAlways(lower, upper) ==
    {n \in Recognized : result[n].bitrate >= lower /\ result[n].bitrate <= upper}

\* The scope of a fake report: both ends belong to it, and an upper end below
\* the lower one stands for none.
Scope(lower, upper) ==
    {n \in Recognized : /\ result[n].bitrate >= lower
                        /\ upper < lower \/ result[n].bitrate <= upper}

Fake(lower, upper, minCutoff) ==
    {n \in Scope(lower, upper) : result[n].cutoff <= minCutoff}

\* Analyze takes the lower ends and the cutoffs from one table and the upper
\* end of each report from the line before.
Baselines == <<[bitrate |-> 318000, cutoff |-> 18000], [bitrate |-> 222000, cutoff |-> 17000],
               [bitrate |-> 190000, cutoff |-> 16000], [bitrate |-> 126000, cutoff |-> 15000]>>

Upper(k) == IF k > 1 THEN Baselines[k - 1].bitrate ELSE 0

ScopeOf(k) == Scope(Baselines[k].bitrate, Upper(k))

FakeOf(k) == Fake(Baselines[k].bitrate, Upper(k), Baselines[k].cutoff)

\* In seconds; the code counts in 100 ns.
DurationBaselines == <<600, 360, 180, 60, 30, 0>>

DurationCount(j) ==
    Cardinality({n \in Recognized : Reaches(result[n].duration, DurationBaselines) = j})

ChannelBaselines == <<3, 2, 1>>

ChannelCount(j) ==
    Cardinality({n \in Recognized : Reaches(result[n].channels, ChannelBaselines) = j})

RateToCount ==
    [r \in {result[n].rate : n \in Recognized} |->
        Cardinality({n \in Recognized : result[n].rate = r})]

------------------------------------------------------------------------------
(* Properties *)

\* The reports count the same results, each on one line: the totals that their
\* percentages refer to agree, and only the channel report has no line for
\* some of the results (those with no channels).
TotalsAgree ==
    LET quantity == [b \in DOMAIN BitrateToCutoff |-> BitrateToCutoff[b].quantity]
        silent == {n \in Recognized : result[n].channels = 0}
        total == Cardinality(Recognized)
    IN  /\ SumFunction([j \in 1..8 |-> BitrateCount(j)]) = total
        /\ BitrateCount(9) = Cardinality(DOMAIN result) - total
        /\ SumFunction(quantity) = total
        /\ SumFunction([j \in 1..6 |-> DurationCount(j)]) = total
        /\ SumFunction([j \in 1..3 |-> ChannelCount(j)]) = total - Cardinality(silent)
        /\ SumFunction(RateToCount) = total

\* The scope of the k-th fake report is the k-th line of the bitrate report,
\* and the results whose bitrate is exactly where that line ends: these are
\* in the scopes of two reports.
ScopesMeetLines ==
    \A k \in 1..Len(Baselines) :
        ScopeOf(k) = {n \in DOMAIN result : BitrateLine(n) = k}
                     \cup {n \in Recognized : k > 1 /\ result[n].bitrate = Upper(k)}
==============================================================================
