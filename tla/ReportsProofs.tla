---------------------------- MODULE ReportsProofs -----------------------------
(***************************************************************************)
(* Proofs about Reports, for every map of results, and about FakeReport,   *)
(* for every map, every name, every column and any failure of the stream.  *)
(* The figures of the reports are sums over parts of the map: that they    *)
(* agree says that each report puts every result on exactly one line.      *)
(***************************************************************************)
EXTENDS FakeReport, Sums, SequenceTheorems

------------------------------------------------------------------------------
(* The lines of the reports *)

\* What the first baseline is that a value reaches.
LEMMA ReachesFirst ==
    ASSUME NEW baselines, NEW value \in Int, NEW n \in Nat, Len(baselines) = n,
           \A j \in 1..n : baselines[j] \in Int
    PROVE  /\ \A k \in 1..n :
                  Reaches(value, baselines) = k <=>
                      /\ value >= baselines[k]
                      /\ \A j \in 1..n : j < k => value < baselines[j]
           /\ \/ Reaches(value, baselines) \in 1..n
              \/ /\ Reaches(value, baselines) = 0
                 /\ \A j \in 1..n : value < baselines[j]
<1> DEFINE reached == {j \in 1..n : value >= baselines[j]}
<1>1. reached \in SUBSET Int /\ IsFiniteSet(reached)
  <2>1. IsFiniteSet(1..n) /\ reached \in SUBSET (1..n) /\ 1..n \in SUBSET Int
    BY FS_Interval
  <2> HIDE DEF reached
  <2>2. IsFiniteSet(reached)
    BY <2>1, FS_Subset
  <2> QED BY <2>1, <2>2
<1>2. Reaches(value, baselines) = IF reached = {} THEN 0 ELSE Min(reached)
  BY DEF Reaches
<1>3. CASE reached = {}
  <2>1. \A j \in 1..n : value < baselines[j]
    BY <1>3
  <2> QED BY <1>2, <1>3, <2>1
<1>4. CASE reached # {}
  <2>1. PICK m : m = Min(reached)
    OBVIOUS
  <2>2. m \in reached /\ \A y \in reached : m <= y
    <3> HIDE DEF reached
    <3> QED BY <1>1, <1>4, <2>1, MaxMin
  <2>3. m \in 1..n /\ value >= baselines[m] /\ Reaches(value, baselines) = m
    BY <1>2, <1>4, <2>1, <2>2
  <2>4. ASSUME NEW j \in 1..n, j < m PROVE value < baselines[j]
    BY <2>2, <2>4
  <2>5. ASSUME NEW k \in 1..n, value >= baselines[k],
               \A j \in 1..n : j < k => value < baselines[j]
        PROVE  m = k
    BY <2>2, <2>3, <2>5
  <2> QED BY <2>3, <2>4, <2>5
<1> QED BY <1>3, <1>4

\* The map has what was recorded.
ResultInv ==
    /\ IsFiniteSet(DOMAIN result) /\ DOMAIN result \subseteq Names
    /\ \A n \in DOMAIN result : result[n] \in Infos

\* The fields of a result.
LEMMA Fields ==
    ASSUME ResultInv, NEW n \in DOMAIN result
    PROVE  /\ result[n].bitrate \in Nat /\ result[n].cutoff \in Nat
           /\ result[n].duration \in Nat /\ result[n].rate \in Nat
           /\ result[n].channels \in Nat
BY InfosAssumption DEF ResultInv

\* The map begins empty, and a record keeps it well formed.
LEMMA RecordStep == (Init => ResultInv) /\ (ResultInv /\ [Next]_result => ResultInv')
<1>1. Init => ResultInv
  BY FS_EmptySet DEF Init, ResultInv
<1>2. ASSUME ResultInv, NEW n \in Names, NEW info \in Infos, Record(n, info)
      PROVE  ResultInv'
  <2>1. DOMAIN result' = DOMAIN result \cup {n}
    BY <1>2 DEF Record
  <2>2. IsFiniteSet(DOMAIN result')
    BY <1>2, <2>1, FS_AddElement DEF ResultInv
  <2>3. \A k \in DOMAIN result' : result'[k] \in Infos
    BY <1>2 DEF Record, ResultInv
  <2> QED BY <1>2, <2>1, <2>2, <2>3 DEF ResultInv
<1>3. ASSUME ResultInv, UNCHANGED result PROVE ResultInv'
  BY <1>3 DEF ResultInv
<1> QED BY <1>1, <1>2, <1>3 DEF Next

\* A value that is not below the last baseline is on one of the lines.
LEMMA ReachesLast ==
    ASSUME NEW baselines, NEW value \in Int, NEW n \in Nat \ {0}, Len(baselines) = n,
           \A j \in 1..n : baselines[j] \in Int, value >= baselines[n]
    PROVE  Reaches(value, baselines) \in 1..n
<1>1. \/ Reaches(value, baselines) \in 1..n
      \/ \A j \in 1..n : value < baselines[j]
  BY ReachesFirst
<1> QED BY <1>1

\* The line of the bitrate report: the last is for what is not recognized.
LEMMA BitrateLines ==
    ASSUME ResultInv, NEW n \in DOMAIN result
    PROVE  /\ Unrecognized(n) => BitrateLine(n) = 9
           /\ ~Unrecognized(n) =>
                 /\ BitrateLine(n) \in 1..8
                 /\ \A k \in 1..8 : BitrateLine(n) = k <=>
                       /\ result[n].bitrate >= BitrateBaselines[k]
                       /\ \A j \in 1..9 : j < k => result[n].bitrate < BitrateBaselines[j]
<1>1. PICK b, l : b = BitrateBaselines /\ l = 9
  OBVIOUS
<1>2. l \in Nat /\ Len(b) = l /\ b[8] = 0 /\ \A j \in 1..l : b[j] \in Int
  BY <1>1 DEF BitrateBaselines
<1>3. PICK v \in Nat : v = result[n].bitrate
  BY Fields
<1>4. /\ \A k \in 1..l : Reaches(v, b) = k <=>
                /\ v >= b[k] /\ \A j \in 1..l : j < k => v < b[j]
      /\ Reaches(v, b) \in 1..l \/ \A j \in 1..l : v < b[j]
  <2>1. v \in Int
    OBVIOUS
  <2> QED BY <1>2, <2>1, ReachesFirst
<1>5. Reaches(v, b) \in 1..8
  BY <1>1, <1>2, <1>4
<1>6. BitrateLine(n) = IF Unrecognized(n) THEN 9 ELSE Reaches(v, b)
  BY <1>1, <1>2, <1>3 DEF BitrateLine
<1> QED BY <1>1, <1>3, <1>4, <1>5, <1>6

\* There are finitely many lines.
LEMMA LinesFinite ==
    ASSUME NEW k \in Nat
    PROVE  IsFiniteSet(1..k)
BY FS_Interval

\* Every duration is on one of the six lines.
LEMMA DurationLines ==
    ASSUME ResultInv, NEW n \in DOMAIN result
    PROVE  Reaches(result[n].duration, DurationBaselines) \in 1..6
<1>1. PICK b, l : b = DurationBaselines /\ l = 6
  OBVIOUS
<1>2. l \in Nat \ {0} /\ Len(b) = l /\ b[l] = 0 /\ \A j \in 1..l : b[j] \in Int
  BY <1>1 DEF DurationBaselines
<1>3. PICK v \in Int : v = result[n].duration /\ v >= b[l]
  BY <1>2, Fields
<1>4. Reaches(v, b) \in 1..l
  BY <1>2, <1>3, ReachesLast
<1> QED BY <1>1, <1>3, <1>4

\* Only results with channels are on one of the three lines.
LEMMA ChannelLines ==
    ASSUME ResultInv, NEW n \in DOMAIN result
    PROVE  Reaches(result[n].channels, ChannelBaselines) \in 1..3
               <=> result[n].channels # 0
<1>1. PICK b, l : b = ChannelBaselines /\ l = 3
  OBVIOUS
<1>2. l \in Nat \ {0} /\ Len(b) = l /\ b[l] = 1 /\ \A j \in 1..l : b[j] \in Int
  BY <1>1 DEF ChannelBaselines
<1>3. \A j \in 1..l : b[j] >= 1
  BY <1>1 DEF ChannelBaselines
<1>4. PICK v \in Nat : v = result[n].channels
  BY Fields
<1>5. v \in Int
  OBVIOUS
<1>6. CASE v = 0
  <2>1. \A k \in 1..l : Reaches(v, b) = k => v >= b[k]
    BY <1>2, <1>5, ReachesFirst
  <2>2. Reaches(v, b) \notin 1..l
    BY <1>2, <1>3, <1>6, <2>1
  <2> QED BY <1>1, <1>4, <1>6, <2>2
<1>7. CASE v # 0
  <2>1. Reaches(v, b) \in 1..l
    BY <1>2, <1>5, <1>7, ReachesLast
  <2> QED BY <1>1, <1>4, <1>7, <2>1
<1> QED BY <1>6, <1>7

------------------------------------------------------------------------------
(* The totals *)

\* The numbers of any set of results are those of a finite one.
LEMMA RecognizedFinite ==
    ASSUME ResultInv
    PROVE  /\ IsFiniteSet(DOMAIN result) /\ IsFiniteSet(Recognized)
           /\ Recognized \subseteq DOMAIN result
           /\ Cardinality(Recognized) \in Nat
BY FS_Subset, FS_CardinalityType DEF ResultInv, Recognized

\* The bitrate report: eight lines for what is recognized, one for the rest.
LEMMA BitrateTotals ==
    ASSUME ResultInv
    PROVE  /\ SumFunction([j \in 1..8 |-> BitrateCount(j)]) = Cardinality(Recognized)
           /\ BitrateCount(9) = Cardinality(DOMAIN result) - Cardinality(Recognized)
<1>1. SumFunction([j \in 1..8 |-> BitrateCount(j)]) = Cardinality(Recognized)
  <2>1. PICK S : S = DOMAIN result /\ IsFiniteSet(S)
    BY RecognizedFinite
  <2>2. PICK g : g = [n \in S |-> BitrateLine(n)]
    OBVIOUS
  <2>3. PICK f : f = [j \in 1..8 |-> BitrateCount(j)]
    OBVIOUS
  <2>4. DOMAIN f = 1..8
    BY <2>3
  <2>5. IsFiniteSet(DOMAIN f)
    <3>1. PICK k \in Nat : k = 8
      OBVIOUS
    <3> QED BY <2>3, <3>1, LinesFinite
  <2>6. ASSUME NEW c \in DOMAIN f
        PROVE  f[c] = Cardinality({n \in S : g[n] = c})
    <3>1. {n \in S : g[n] = c} = {n \in DOMAIN result : BitrateLine(n) = c}
      BY <2>1, <2>2
    <3> QED BY <2>3, <2>4, <3>1 DEF BitrateCount
  <2>7. SumFunction(f) = Cardinality({n \in S : g[n] \in DOMAIN f})
    BY <2>1, <2>6, <2>5, SumOfLines
  <2>8. {n \in S : g[n] \in DOMAIN f} = Recognized
    <3>1. ASSUME NEW n \in S
          PROVE  g[n] \in 1..8 <=> ~Unrecognized(n)
      BY <2>1, <2>2, BitrateLines
    <3> QED BY <2>1, <2>4, <3>1 DEF Recognized
  <2> QED BY <2>3, <2>7, <2>8
<1>2. BitrateCount(9) = Cardinality(DOMAIN result) - Cardinality(Recognized)
  <2>1. {n \in DOMAIN result : BitrateLine(n) = 9} = DOMAIN result \ Recognized
    <3>1. \A n \in DOMAIN result : BitrateLine(n) = 9 <=> Unrecognized(n)
      BY BitrateLines
    <3> QED BY <3>1 DEF Recognized
  <2>2. DOMAIN result \cap Recognized = Recognized
    BY RecognizedFinite
  <2>3. Cardinality(DOMAIN result \ Recognized) =
            Cardinality(DOMAIN result) - Cardinality(DOMAIN result \cap Recognized)
    BY RecognizedFinite, FS_Difference
  <2> QED BY <2>1, <2>2, <2>3 DEF BitrateCount
<1> QED BY <1>1, <1>2

\* The duration report, and the channel report but for the silent results.
LEMMA LineTotals ==
    ASSUME ResultInv
    PROVE  /\ SumFunction([j \in 1..6 |-> DurationCount(j)]) = Cardinality(Recognized)
           /\ SumFunction([j \in 1..3 |-> ChannelCount(j)]) =
                  Cardinality(Recognized)
                      - Cardinality({n \in Recognized : result[n].channels = 0})
<1>1. PICK S : S = Recognized /\ IsFiniteSet(S) /\ S \subseteq DOMAIN result
  BY RecognizedFinite
<1>2. SumFunction([j \in 1..6 |-> DurationCount(j)]) = Cardinality(S)
  <2>1. PICK g : g = [n \in S |-> Reaches(result[n].duration, DurationBaselines)]
    OBVIOUS
  <2>2. PICK f : f = [j \in 1..6 |-> DurationCount(j)]
    OBVIOUS
  <2>3. DOMAIN f = 1..6
    BY <2>2
  <2>4. IsFiniteSet(DOMAIN f)
    <3>1. PICK k \in Nat : k = 6
      OBVIOUS
    <3> QED BY <2>2, <3>1, LinesFinite
  <2>5. ASSUME NEW c \in DOMAIN f
        PROVE  f[c] = Cardinality({n \in S : g[n] = c})
    <3>1. {n \in S : g[n] = c} =
              {n \in Recognized : Reaches(result[n].duration, DurationBaselines) = c}
      BY <1>1, <2>1
    <3> QED BY <2>2, <2>3, <3>1 DEF DurationCount
  <2>6. SumFunction(f) = Cardinality({n \in S : g[n] \in DOMAIN f})
    BY <1>1, <2>5, <2>4, SumOfLines
  <2>7. {n \in S : g[n] \in DOMAIN f} = S
    BY <1>1, <2>1, <2>3, DurationLines
  <2> QED BY <2>2, <2>6, <2>7
<1>3. SumFunction([j \in 1..3 |-> ChannelCount(j)]) =
          Cardinality(S) - Cardinality({n \in S : result[n].channels = 0})
  <2>1. PICK g : g = [n \in S |-> Reaches(result[n].channels, ChannelBaselines)]
    OBVIOUS
  <2>2. PICK f : f = [j \in 1..3 |-> ChannelCount(j)]
    OBVIOUS
  <2>3. DOMAIN f = 1..3
    BY <2>2
  <2>4. IsFiniteSet(DOMAIN f)
    <3>1. PICK k \in Nat : k = 3
      OBVIOUS
    <3> QED BY <2>2, <3>1, LinesFinite
  <2>5. ASSUME NEW c \in DOMAIN f
        PROVE  f[c] = Cardinality({n \in S : g[n] = c})
    <3>1. {n \in S : g[n] = c} =
              {n \in Recognized : Reaches(result[n].channels, ChannelBaselines) = c}
      BY <1>1, <2>1
    <3> QED BY <2>2, <2>3, <3>1 DEF ChannelCount
  <2>6. SumFunction(f) = Cardinality({n \in S : g[n] \in DOMAIN f})
    BY <1>1, <2>5, <2>4, SumOfLines
  <2>7. PICK T : T = {n \in S : result[n].channels = 0}
    OBVIOUS
  <2>8. {n \in S : g[n] \in DOMAIN f} = S \ T /\ S \cap T = T
    BY <1>1, <2>1, <2>3, <2>7, ChannelLines
  <2>9. Cardinality(S \ T) = Cardinality(S) - Cardinality(S \cap T)
    BY <1>1, FS_Difference
  <2> QED BY <2>2, <2>6, <2>7, <2>8, <2>9
<1> QED BY <1>1, <1>2, <1>3

\* The two reports that have a line for each value that occurs.
LEMMA ValueTotals ==
    ASSUME ResultInv
    PROVE  /\ SumFunction([b \in DOMAIN BitrateToCutoff |-> BitrateToCutoff[b].quantity])
                  = Cardinality(Recognized)
           /\ SumFunction(RateToCount) = Cardinality(Recognized)
<1>1. PICK S : S = Recognized /\ IsFiniteSet(S)
  BY RecognizedFinite
<1>2. SumFunction([b \in DOMAIN BitrateToCutoff |-> BitrateToCutoff[b].quantity])
          = Cardinality(S)
  <2>1. PICK g : g = [n \in S |-> result[n].bitrate \div 1000]
    OBVIOUS
  <2>2. PICK f : f = [b \in DOMAIN BitrateToCutoff |-> BitrateToCutoff[b].quantity]
    OBVIOUS
  <2>3. DOMAIN f = {g[n] : n \in S}
    BY <1>1, <2>1, <2>2 DEF BitrateToCutoff
  <2>4. ASSUME NEW c \in DOMAIN f
        PROVE  f[c] = Cardinality({n \in S : g[n] = c})
    <3>1. {n \in S : g[n] = c} = {n \in Recognized : result[n].bitrate \div 1000 = c}
      BY <1>1, <2>1
    <3>2. f[c] = BitrateToCutoff[c].quantity /\ c \in DOMAIN BitrateToCutoff
      BY <2>2
    <3>3. BitrateToCutoff[c].quantity =
              Cardinality({n \in Recognized : result[n].bitrate \div 1000 = c})
      BY <3>2 DEF BitrateToCutoff
    <3> QED BY <3>1, <3>2, <3>3
  <2>5. SumFunction(f) = Cardinality(S)
    BY <1>1, <2>3, <2>4, SumOfAllLines
  <2> QED BY <2>2, <2>5
<1>3. SumFunction(RateToCount) = Cardinality(S)
  <2>1. PICK g : g = [n \in S |-> result[n].rate]
    OBVIOUS
  <2>2. PICK f : f = RateToCount
    OBVIOUS
  <2>3. DOMAIN f = {g[n] : n \in S}
    BY <1>1, <2>1, <2>2 DEF RateToCount
  <2>4. ASSUME NEW c \in DOMAIN f
        PROVE  f[c] = Cardinality({n \in S : g[n] = c})
    <3>1. {n \in S : g[n] = c} = {n \in Recognized : result[n].rate = c}
      BY <1>1, <2>1
    <3> QED BY <2>2, <3>1 DEF RateToCount
  <2>5. SumFunction(f) = Cardinality(S)
    BY <1>1, <2>3, <2>4, SumOfAllLines
  <2> QED BY <2>2, <2>5
<1> QED BY <1>1, <1>2, <1>3

\* Whatever has been recorded, the reports account for the same results.
THEOREM Totals == Spec => []TotalsAgree
<1>1. ResultInv => TotalsAgree
  BY BitrateTotals, LineTotals, ValueTotals DEF TotalsAgree
<1>2. Spec => []ResultInv
  BY RecordStep, PTL DEF Spec
<1> QED BY <1>1, <1>2, PTL

\* A bitrate on a line of the first four, in terms of the table of the scopes.
LEMMA ScopeOnLine ==
    ASSUME ResultInv, NEW n \in Recognized, NEW k \in 1..4
    PROVE  n \in ScopeOf(k) <=>
               BitrateLine(n) = k \/ (k > 1 /\ result[n].bitrate = Upper(k))
<1>1. PICK v \in Nat : v = result[n].bitrate
  BY Fields DEF Recognized
<1>2. BitrateLine(n) = k <=>
          /\ v >= BitrateBaselines[k]
          /\ \A j \in 1..9 : j < k => v < BitrateBaselines[j]
  BY <1>1, BitrateLines DEF Recognized
<1>3. n \in ScopeOf(k) <=>
          /\ v >= Baselines[k].bitrate
          /\ Upper(k) < Baselines[k].bitrate \/ v <= Upper(k)
  BY <1>1 DEF ScopeOf, Scope
<1>4. CASE k = 1
  <2>1. BitrateLine(n) = 1 <=> v >= 318000
    BY <1>2, <1>4 DEF BitrateBaselines
  <2>2. n \in ScopeOf(k) <=> v >= 318000
    BY <1>3, <1>4 DEF Upper, Baselines
  <2> QED BY <1>4, <2>1, <2>2
<1>5. CASE k = 2
  <2>1. BitrateLine(n) = 2 <=> v >= 222000 /\ v < 318000
    BY <1>2, <1>5 DEF BitrateBaselines
  <2>2. n \in ScopeOf(k) <=> v >= 222000 /\ v <= 318000
    BY <1>3, <1>5 DEF Upper, Baselines
  <2>3. Upper(k) = 318000
    BY <1>5 DEF Upper, Baselines
  <2> QED BY <1>1, <1>5, <2>1, <2>2, <2>3
<1>6. CASE k = 3
  <2>1. BitrateLine(n) = 3 <=> v >= 190000 /\ v < 222000
    BY <1>2, <1>6 DEF BitrateBaselines
  <2>2. n \in ScopeOf(k) <=> v >= 190000 /\ v <= 222000
    BY <1>3, <1>6 DEF Upper, Baselines
  <2>3. Upper(k) = 222000
    BY <1>6 DEF Upper, Baselines
  <2> QED BY <1>1, <1>6, <2>1, <2>2, <2>3
<1>7. CASE k = 4
  <2>1. BitrateLine(n) = 4 <=> v >= 126000 /\ v < 190000
    BY <1>2, <1>7 DEF BitrateBaselines
  <2>2. n \in ScopeOf(k) <=> v >= 126000 /\ v <= 190000
    BY <1>3, <1>7 DEF Upper, Baselines
  <2>3. Upper(k) = 190000
    BY <1>7 DEF Upper, Baselines
  <2> QED BY <1>1, <1>7, <2>1, <2>2, <2>3
<1> QED BY <1>4, <1>5, <1>6, <1>7

\* Whatever has been recorded, the scope of each fake report is its line of the
\* bitrate report, and the results at the end that it shares with the report before.
THEOREM Scopes == Spec => []ScopesMeetLines
<1>1. ASSUME ResultInv
      PROVE  ScopesMeetLines
  <2> SUFFICES ASSUME NEW k \in 1..4
               PROVE  ScopeOf(k) = {n \in DOMAIN result : BitrateLine(n) = k}
                          \cup {n \in Recognized : k > 1 /\ result[n].bitrate = Upper(k)}
    <3>1. Len(Baselines) = 4
      BY DEF Baselines
    <3> QED BY <3>1 DEF ScopesMeetLines
  <2>1. ScopeOf(k) \subseteq Recognized
    BY DEF ScopeOf, Scope
  <2>2. \A n \in DOMAIN result : BitrateLine(n) = k => n \in Recognized
    BY <1>1, BitrateLines DEF Recognized
  <2>3. Recognized \subseteq DOMAIN result
    BY <1>1, RecognizedFinite
  <2>4. \A n \in Recognized : n \in ScopeOf(k) <=>
            BitrateLine(n) = k \/ (k > 1 /\ result[n].bitrate = Upper(k))
    BY <1>1, ScopeOnLine
  <2> QED BY <2>1, <2>2, <2>3, <2>4
<1>2. Spec => []ResultInv
  BY RecordStep, PTL DEF Spec
<1> QED BY <1>1, <1>2, PTL

------------------------------------------------------------------------------
(* The footer of a fake report *)

\* The lines above the footer.
Lines == {Torn, Header} \cup {Cell(n) : n \in Names}

\* The three numbers are those of the results that have been visited.
Counted ==
    /\ totalCount = Cardinality(Recognized \ left)
    /\ scopeCount = Cardinality(ScopeOf(report) \ left)
    /\ fakeCount = Cardinality(FakeOf(report) \ left)

\* Nothing is missing above the place where the stream stands.
Written ==
    /\ Len(text) = fakeCount + 1
    /\ \A j \in 1..Len(text) : text[j] # Torn
    /\ \A n \in FakeOf(report) \ left : \E j \in 1..Len(text) : text[j] = Cell(n)

\* While the report is written there is no footer, the numbers are right, and as
\* long as the stream is good nothing is missing.
StreamInv ==
    /\ ResultInv
    /\ report \in 1..4 /\ left \in SUBSET DOMAIN result
    /\ pc \in {"idle", "open", "header", "lines", "closed"}
    /\ pc \in {"idle", "open", "header"} => text = << >>
    /\ pc = "header" =>
          /\ left = DOMAIN result
          /\ totalCount = 0 /\ scopeCount = 0 /\ fakeCount = 0
    /\ pc = "lines" => text \in Seq(Lines) /\ Counted /\ (stream = "good" => Written)
    /\ FooterMeansWhole

\* No line above the footer is one.
LEMMA NoFooter == \A line \in Lines : "fake" \notin DOMAIN line
BY DEF Lines, Torn, Header, Cell

\* A line of a result is not torn, nor is the header or the footer.
LEMMA WholeLines ==
    /\ \A n : Cell(n) # Torn
    /\ Header # Torn
    /\ \A fake, scope, total : Footer(fake, scope, total) # Torn
<1>1. \A n : "name" \in DOMAIN Cell(n)
  BY DEF Cell
<1>2. "header" \in DOMAIN Header /\ "name" \notin DOMAIN Torn
      /\ "header" \notin DOMAIN Torn /\ "fake" \notin DOMAIN Torn
  BY DEF Header, Torn
<1>3. \A fake, scope, total : "fake" \in DOMAIN Footer(fake, scope, total)
  BY DEF Footer
<1> QED BY <1>1, <1>2, <1>3

\* Nothing but lines, no footer.
LEMMA LinesOnly ==
    ASSUME NEW t \in Seq(Lines), NEW i \in 1..Len(t)
    PROVE  "fake" \notin DOMAIN t[i]
BY NoFooter

\* The scope of a report is made of recognized results, the fake of its scope.
LEMMA Parts ==
    ASSUME ResultInv
    PROVE  /\ FakeOf(report) \subseteq ScopeOf(report)
           /\ ScopeOf(report) \subseteq Recognized
           /\ Recognized \subseteq DOMAIN result
           /\ IsFiniteSet(Recognized) /\ IsFiniteSet(ScopeOf(report))
           /\ IsFiniteSet(FakeOf(report))
<1>1. FakeOf(report) \subseteq ScopeOf(report)
  BY DEF FakeOf, ScopeOf, Fake
<1>2. ScopeOf(report) \subseteq Recognized
  BY DEF ScopeOf, Scope
<1> QED BY <1>1, <1>2, RecognizedFinite, FS_Subset

\* They do not change as the report is written.
LEMMA PartsKept ==
    ASSUME UNCHANGED <<result, report>>
    PROVE  /\ Recognized' = Recognized
           /\ ScopeOf(report)' = ScopeOf(report)
           /\ FakeOf(report)' = FakeOf(report)
BY DEF Recognized, Unrecognized, ScopeOf, FakeOf, Scope, Fake, Upper

\* One result less to visit is one more that has been, if it belongs to A.
LEMMA CountOne ==
    ASSUME NEW A, IsFiniteSet(A), NEW L, NEW n \in L
    PROVE  /\ Cardinality(A \ L) \in Nat
           /\ Cardinality(A \ (L \ {n})) =
                  Cardinality(A \ L) + (IF n \in A THEN 1 ELSE 0)
<1>1. IsFiniteSet(A \ L) /\ Cardinality(A \ L) \in Nat
  BY FS_Subset, FS_CardinalityType
<1>2. CASE n \in A
  <2>1. A \ (L \ {n}) = (A \ L) \cup {n} /\ n \notin A \ L
    BY <1>2
  <2>2. Cardinality((A \ L) \cup {n}) = Cardinality(A \ L) + 1
    BY <1>1, <2>1, FS_AddElement
  <2> QED BY <1>1, <1>2, <2>1, <2>2
<1>3. CASE n \notin A
  <2>1. A \ (L \ {n}) = A \ L
    BY <1>3
  <2> QED BY <1>1, <1>3, <2>1
<1> QED BY <1>2, <1>3

\* What a step may take for granted when it only visits a result.
LEMMA VisitStep ==
    ASSUME StreamInv, NEW n, Visit(n)
    PROVE  /\ ResultInv /\ Counted /\ text \in Seq(Lines)
           /\ stream = "good" => Written
           /\ left' = left \ {n} /\ n \in left /\ n \in DOMAIN result
           /\ pc = "lines" /\ pc' = "lines"
           /\ UNCHANGED <<result, report>>
           /\ ResultInv' /\ report' \in 1..4 /\ left' \in SUBSET DOMAIN result'
BY DEF StreamInv, Visit, ResultInv

\* How the numbers of a visited result go on.
LEMMA VisitCounts ==
    ASSUME StreamInv, NEW n, Visit(n),
           totalCount' = totalCount + (IF n \in Recognized THEN 1 ELSE 0),
           scopeCount' = scopeCount + (IF n \in ScopeOf(report) THEN 1 ELSE 0),
           fakeCount' = fakeCount + (IF n \in FakeOf(report) THEN 1 ELSE 0)
    PROVE  Counted'
<1>1. ResultInv /\ Counted /\ left' = left \ {n} /\ n \in left
      /\ UNCHANGED <<result, report>>
  BY VisitStep
<1>2. Recognized' = Recognized /\ ScopeOf(report)' = ScopeOf(report)
      /\ FakeOf(report)' = FakeOf(report)
  BY <1>1, PartsKept
<1>3. ASSUME NEW A, IsFiniteSet(A)
      PROVE  Cardinality(A \ (left \ {n})) =
                 Cardinality(A \ left) + (IF n \in A THEN 1 ELSE 0)
  BY <1>1, <1>3, CountOne
<1>4. totalCount' = Cardinality(Recognized \ (left \ {n}))
  BY <1>1, <1>3, Parts DEF Counted
<1>5. scopeCount' = Cardinality(ScopeOf(report) \ (left \ {n}))
  BY <1>1, <1>3, Parts DEF Counted
<1>6. fakeCount' = Cardinality(FakeOf(report) \ (left \ {n}))
  BY <1>1, <1>3, Parts DEF Counted
<1> QED BY <1>1, <1>2, <1>4, <1>5, <1>6 DEF Counted

\* A result that is not fake leaves the text as it is.
LEMMA SkipStep ==
    ASSUME StreamInv, NEW n, n \notin FakeOf(report),
           SkipUnrecognized(n) \/ SkipOutOfScope(n) \/ SkipGenuine(n)
    PROVE  StreamInv'
<1>1. Visit(n) /\ UNCHANGED <<stream, text, fakeCount>>
  BY DEF SkipUnrecognized, SkipOutOfScope, SkipGenuine, counts
<1>2. /\ ResultInv /\ Counted /\ text \in Seq(Lines)
      /\ stream = "good" => Written
      /\ left' = left \ {n} /\ n \in left /\ n \in DOMAIN result
      /\ pc = "lines" /\ pc' = "lines" /\ UNCHANGED <<result, report>>
      /\ ResultInv' /\ report' \in 1..4 /\ left' \in SUBSET DOMAIN result'
  BY <1>1, VisitStep
<1>3. /\ FakeOf(report) \subseteq ScopeOf(report) /\ ScopeOf(report) \subseteq Recognized
      /\ totalCount \in Nat /\ scopeCount \in Nat /\ fakeCount \in Nat
  BY <1>2, Parts, CountOne DEF Counted
<1>4. Counted'
  <2>1. /\ totalCount' = totalCount + (IF n \in Recognized THEN 1 ELSE 0)
        /\ scopeCount' = scopeCount + (IF n \in ScopeOf(report) THEN 1 ELSE 0)
    <3>1. n \in Recognized <=> ~Unrecognized(n)
      BY <1>2 DEF Recognized
    <3> QED BY <1>3, <3>1 DEF SkipUnrecognized, SkipOutOfScope, SkipGenuine, counts
  <2>2. fakeCount' = fakeCount + (IF n \in FakeOf(report) THEN 1 ELSE 0)
    BY <1>1, <1>3
  <2> QED BY <1>1, <2>1, <2>2, VisitCounts
<1>5. stream' = "good" => Written'
  <2>1. FakeOf(report)' = FakeOf(report)
    BY <1>2, PartsKept
  <2>2. FakeOf(report) \ (left \ {n}) = FakeOf(report) \ left
    OBVIOUS
  <2> QED BY <1>1, <1>2, <2>1, <2>2 DEF Written
<1>6. FooterMeansWhole'
  BY <1>1, <1>2, LinesOnly DEF FooterMeansWhole
<1> QED BY <1>1, <1>2, <1>4, <1>5, <1>6 DEF StreamInv

\* A fake result gets its line, or the stream fails and gets none from then on.
LEMMA LineStep ==
    ASSUME StreamInv, NEW n, WriteLine(n)
    PROVE  StreamInv'
<1>1. Visit(n) /\ n \in FakeOf(report) /\ Put(Cell(n), Coded(Cell(n)))
  BY DEF WriteLine
<1>2. /\ ResultInv /\ Counted /\ text \in Seq(Lines)
      /\ stream = "good" => Written
      /\ left' = left \ {n} /\ n \in left /\ n \in DOMAIN result
      /\ pc = "lines" /\ pc' = "lines" /\ UNCHANGED <<result, report>>
      /\ ResultInv' /\ report' \in 1..4 /\ left' \in SUBSET DOMAIN result'
  BY <1>1, VisitStep
<1>3. n \in ScopeOf(report) /\ n \in Recognized /\ fakeCount \in Nat
      /\ scopeCount \in Nat /\ totalCount \in Nat
  BY <1>1, <1>2, Parts, CountOne DEF Counted
<1>4. Counted'
  BY <1>1, <1>3, VisitCounts DEF WriteLine
<1>5. Cell(n) \in Lines /\ Torn \in Lines
  BY <1>2 DEF Lines, ResultInv
<1>6. text' \in Seq(Lines)
  BY <1>1, <1>2, <1>5 DEF Put
<1>7. stream' = "good" => Written'
  <2> SUFFICES ASSUME stream' = "good" PROVE Written'
    OBVIOUS
  <2>1. stream = "good" /\ text' = Append(text, Cell(n)) /\ Written
    BY <1>1, <1>2 DEF Put
  <2>2. FakeOf(report)' = FakeOf(report)
    BY <1>2, PartsKept
  <2>3. /\ Len(text') = Len(text) + 1 /\ Len(text) \in Nat
        /\ \A j \in 1..Len(text) : text'[j] = text[j]
        /\ text'[Len(text) + 1] = Cell(n)
    BY <1>2, <2>1
  <2>4. Len(text') = fakeCount' + 1
    BY <1>3, <2>1, <2>3 DEF Written, WriteLine
  <2>5. ASSUME NEW j \in 1..Len(text')
        PROVE  text'[j] # Torn
    BY <2>1, <2>3, WholeLines DEF Written
  <2>6. ASSUME NEW m \in FakeOf(report) \ (left \ {n})
        PROVE  \E j \in 1..Len(text') : text'[j] = Cell(m)
    <3>1. CASE m = n
      <4>1. Len(text) + 1 \in 1..Len(text')
        BY <2>3
      <4> QED BY <2>3, <3>1, <4>1
    <3>2. CASE m # n
      <4>1. PICK j \in 1..Len(text) : text[j] = Cell(m)
        BY <2>1, <3>2 DEF Written
      <4>2. j \in 1..Len(text')
        BY <2>3
      <4> QED BY <2>3, <4>1, <4>2
    <3> QED BY <3>1, <3>2
  <2> QED BY <1>2, <2>2, <2>4, <2>5, <2>6 DEF Written
<1>8. FooterMeansWhole'
  BY <1>6, LinesOnly DEF FooterMeansWhole
<1> QED BY <1>2, <1>4, <1>6, <1>7, <1>8 DEF StreamInv

\* No text, no footer.
LEMMA EmptyText ==
    ASSUME text = << >>
    PROVE  FooterMeansWhole
BY DEF FooterMeansWhole

\* Before the header there is nothing.
LEMMA HeaderStep ==
    ASSUME StreamInv, WriteHeader
    PROVE  StreamInv'
<1>1. /\ text = << >> /\ left = DOMAIN result /\ ResultInv
      /\ totalCount = 0 /\ scopeCount = 0 /\ fakeCount = 0
      /\ pc' = "lines" /\ UNCHANGED <<result, report, left>>
      /\ totalCount' = 0 /\ scopeCount' = 0 /\ fakeCount' = 0
      /\ Put(Header, TRUE)
      /\ ResultInv' /\ report' \in 1..4 /\ left' \in SUBSET DOMAIN result'
  BY DEF StreamInv, WriteHeader, counts, ResultInv
<1>2. /\ Recognized' = Recognized /\ ScopeOf(report)' = ScopeOf(report)
      /\ FakeOf(report)' = FakeOf(report)
  BY <1>1, PartsKept
<1>3. /\ Recognized \ left = {} /\ ScopeOf(report) \ left = {}
      /\ FakeOf(report) \ left = {}
  BY <1>1, Parts
<1>4. Counted'
  BY <1>1, <1>2, <1>3, FS_EmptySet DEF Counted
<1>5. Header \in Lines /\ Torn \in Lines
  BY DEF Lines
<1>6. text' \in Seq(Lines)
  <2>1. text \in Seq(Lines)
    BY <1>1
  <2>2. \/ text' = Append(text, Header) \/ text' = Append(text, Torn)
        \/ text' = text
    BY <1>1 DEF Put
  <2> QED BY <1>5, <2>1, <2>2
<1>7. stream' = "good" => Written'
  <2> SUFFICES ASSUME stream' = "good" PROVE Written'
    OBVIOUS
  <2>1. text' = <<Header>>
    BY <1>1 DEF Put
  <2>2. Len(text') = 1 /\ \A j \in 1..Len(text') : text'[j] # Torn
    BY <2>1, WholeLines
  <2> QED BY <1>1, <1>2, <1>3, <2>2 DEF Written
<1>8. FooterMeansWhole'
  BY <1>6, LinesOnly DEF FooterMeansWhole
<1> QED BY <1>1, <1>4, <1>6, <1>7, <1>8 DEF StreamInv

\* The footer is put below a whole report, or it is not put.
LEMMA FooterStep ==
    ASSUME StreamInv, WriteFooter
    PROVE  StreamInv'
<1>1. /\ text \in Seq(Lines) /\ Counted /\ (stream = "good" => Written)
      /\ ResultInv /\ left = {} /\ pc' = "closed" /\ UNCHANGED <<result, report>>
      /\ Put(Footer(fakeCount, scopeCount, totalCount), TRUE)
      /\ ResultInv' /\ report' \in 1..4 /\ left' \in SUBSET DOMAIN result'
  BY DEF StreamInv, WriteFooter, ResultInv
<1>2. /\ Recognized' = Recognized /\ ScopeOf(report)' = ScopeOf(report)
      /\ FakeOf(report)' = FakeOf(report)
  BY <1>1, PartsKept
<1>3. /\ fakeCount = Cardinality(FakeOf(report)) /\ fakeCount \in Nat
      /\ scopeCount = Cardinality(ScopeOf(report))
      /\ totalCount = Cardinality(Recognized)
  <2>1. /\ Recognized \ left = Recognized /\ ScopeOf(report) \ left = ScopeOf(report)
        /\ FakeOf(report) \ left = FakeOf(report)
    BY <1>1
  <2> QED BY <1>1, <2>1, Parts, FS_CardinalityType DEF Counted
<1>4. FooterMeansWhole'
  <2>1. CASE /\ stream = "good"
             /\ text' = Append(text, Footer(fakeCount, scopeCount, totalCount))
    <3>1. /\ Len(text') = Len(text) + 1 /\ Len(text) = fakeCount + 1
          /\ \A j \in 1..Len(text) : text'[j] = text[j]
          /\ text'[Len(text')] = Footer(fakeCount, scopeCount, totalCount)
      BY <1>1, <1>3, <2>1 DEF Written
    <3>2. ASSUME NEW i \in 1..Len(text'), "fake" \in DOMAIN text'[i]
          PROVE  i = Len(text')
      <4>1. i \in 1..Len(text) => "fake" \notin DOMAIN text'[i]
        BY <1>1, <3>1, LinesOnly
      <4> QED BY <1>3, <3>1, <3>2, <4>1
    <3>3. /\ text'[Len(text')].fake = Len(text') - 2
          /\ text'[Len(text')] =
                 Footer(Cardinality(FakeOf(report)), Cardinality(ScopeOf(report)),
                        Cardinality(Recognized))
      BY <1>3, <3>1 DEF Footer
    <3>4. /\ \A j \in 1..(Len(text') - 1) : text'[j] # Torn
          /\ \A n \in FakeOf(report) :
                \E j \in 1..(Len(text') - 1) : text'[j] = Cell(n)
      <4>1. Len(text') - 1 = Len(text)
        BY <1>3, <3>1
      <4> QED BY <1>1, <2>1, <3>1, <4>1 DEF Written
    <3> QED BY <1>2, <3>2, <3>3, <3>4 DEF FooterMeansWhole
  <2>2. CASE text' = Append(text, Torn)
    <3>1. Torn \in Lines
      BY DEF Lines
    <3>2. text' \in Seq(Lines)
      BY <1>1, <2>2, <3>1
    <3> QED BY <3>2, LinesOnly DEF FooterMeansWhole
  <2>3. CASE text' = text
    BY <1>1, <2>3, LinesOnly DEF FooterMeansWhole
  <2> QED BY <1>1, <2>1, <2>2, <2>3 DEF Put
<1> QED BY <1>1, <1>4 DEF StreamInv

\* The steps between the reports.
LEMMA OutsideStep ==
    ASSUME StreamInv, Collect \/ Analyze \/ OpenReport \/ CloseReport
    PROVE  StreamInv'
<1>1. CASE Collect
  <2>1. text' = << >> /\ pc' = "idle" /\ report' \in 1..4 /\ ResultInv
    BY <1>1 DEF StreamInv, Collect, writing
  <2>2. ResultInv'
    BY <1>1, <2>1, RecordStep DEF Collect
  <2>3. left' \in SUBSET DOMAIN result'
    BY <1>1 DEF StreamInv, Collect, writing, Next, Record
  <2> QED BY <2>1, <2>2, <2>3, EmptyText DEF StreamInv, FooterMeansWhole
<1>2. CASE Analyze
  BY <1>2 DEF StreamInv, Analyze, ResultInv, FooterMeansWhole
<1>3. CASE OpenReport
  BY <1>3 DEF StreamInv, OpenReport, ResultInv, FooterMeansWhole
<1>4. CASE CloseReport
  <2>1. Len(Baselines) = 4
    BY DEF Baselines
  <2>2. /\ text' = << >> /\ pc' \in {"open", "idle"} /\ report' \in 1..4
        /\ UNCHANGED <<result, left>>
    BY <1>4, <2>1 DEF StreamInv, CloseReport
  <2>3. ResultInv' /\ left' \in SUBSET DOMAIN result'
    BY <2>2 DEF StreamInv, ResultInv
  <2> QED BY <2>2, <2>3 DEF StreamInv, FooterMeansWhole
<1> QED BY <1>1, <1>2, <1>3, <1>4

\* The inductive invariant.
LEMMA StreamInvariance == FSpec => []StreamInv
<1>1. FInit => StreamInv
  <2> SUFFICES ASSUME FInit PROVE StreamInv
    OBVIOUS
  <2>1. ResultInv /\ text = << >>
    BY RecordStep DEF FInit
  <2>2. FooterMeansWhole
    BY <2>1, EmptyText
  <2> QED BY <2>1, <2>2 DEF FInit, StreamInv
<1>2. StreamInv /\ [FNext]_fvars => StreamInv'
  <2> SUFFICES ASSUME StreamInv, [FNext]_fvars PROVE StreamInv'
    OBVIOUS
  <2>1. CASE Collect \/ Analyze \/ OpenReport \/ CloseReport
    BY <2>1, OutsideStep
  <2>2. CASE WriteHeader
    BY <2>2, HeaderStep
  <2>3. ASSUME NEW n \in Names, SkipUnrecognized(n) \/ SkipOutOfScope(n) \/ SkipGenuine(n)
        PROVE  StreamInv'
    <3>1. n \notin FakeOf(report)
      BY <2>3 DEF SkipUnrecognized, SkipOutOfScope, SkipGenuine,
                  FakeOf, Fake, ScopeOf, Scope, Recognized
    <3> QED BY <2>3, <3>1, SkipStep
  <2>4. ASSUME NEW n \in Names, WriteLine(n)
        PROVE  StreamInv'
    BY <2>4, LineStep
  <2>5. CASE WriteFooter
    BY <2>5, FooterStep
  <2>6. CASE UNCHANGED fvars
    <3>1. UNCHANGED <<result, report, left, pc, totalCount, scopeCount, fakeCount, stream, text>>
      BY <2>6 DEF fvars, writing, counts
    <3>2. /\ Recognized' = Recognized /\ ScopeOf(report)' = ScopeOf(report)
          /\ FakeOf(report)' = FakeOf(report)
      BY <3>1, PartsKept
    <3> QED BY <3>1, <3>2 DEF StreamInv, ResultInv, Counted, Written, FooterMeansWhole
  <2> QED BY <2>1, <2>2, <2>3, <2>4, <2>5, <2>6 DEF FNext
<1> QED BY <1>1, <1>2, PTL DEF FSpec

\* Writing reports never touches the results: what is proved of Reports holds
\* whenever Analyze runs.
THEOREM ResultsKept == FSpec => Spec
<1>1. FInit => Init
  BY DEF FInit
<1>2. [FNext]_fvars => [Next]_result
  BY DEF FNext, fvars, Collect, Analyze, OpenReport, WriteHeader, Visit, SkipUnrecognized,
         SkipOutOfScope, SkipGenuine, WriteLine, WriteFooter, CloseReport
<1> QED BY <1>1, <1>2, PTL DEF FSpec, Spec

\* Whatever the results, however the stream fails and whatever names it has no
\* code for, a report that has its footer has every line of Reports' fake
\* results and the numbers of Reports.
THEOREM FooterLast == FSpec => []FooterMeansWhole
<1>1. StreamInv => FooterMeansWhole
  BY DEF StreamInv
<1> QED BY <1>1, StreamInvariance, PTL

------------------------------------------------------------------------------
(* A name in its column *)

\* The width of a piece of a name is the sum of those of its characters.
LEMMA PieceWidth ==
    ASSUME NEW s \in Seq(Characters), NEW f, f = [i \in DOMAIN s |-> CharWidth(s[i])],
           NEW m \in 1..(Len(s) + 1), NEW k \in (m - 1)..Len(s)
    PROVE  /\ CalcCharWidth(SubSeq(s, m, k)) = SumFunctionOnSet(f, m..k)
           /\ IsFiniteSet(m..k) /\ \A i \in m..k : f[i] \in 1..2
<1>1. \A i \in m..k : i \in DOMAIN s /\ f[i] = CharWidth(s[i]) /\ f[i] \in 1..2
  BY DEF CharWidth
<1>2. IsFiniteSet(m..k)
  BY FS_Interval
<1>3. PICK t : t = SubSeq(s, m, k)
  OBVIOUS
<1>4. /\ DOMAIN t = 1..(k - m + 1)
      /\ \A i \in 1..(k - m + 1) : t[i] = s[m + i - 1]
  <2>1. \A i \in m..k : s[i] \in Characters
    OBVIOUS
  <2>2. /\ t \in Seq(Characters) /\ Len(t) = IF m <= k THEN k - m + 1 ELSE 0
        /\ \A i \in 1..(k - m + 1) : t[i] = s[m + i - 1]
    BY <1>3, <2>1, SubSeqProperties
  <2> QED BY <2>2
<1>5. PICK g : g = [i \in DOMAIN t |-> CharWidth(t[i])]
  OBVIOUS
<1>6. PICK h : h = [i \in m..k |-> i - m + 1]
  OBVIOUS
<1>7. \A j : j \in DOMAIN t <=> \E i \in m..k : h[i] = j
  <2>1. \A i \in m..k : h[i] \in 1..(k - m + 1)
    BY <1>6
  <2>2. ASSUME NEW j \in 1..(k - m + 1)
        PROVE  \E i \in m..k : h[i] = j
    <3>1. j + m - 1 \in m..k /\ (j + m - 1) - m + 1 = j
      OBVIOUS
    <3> QED BY <1>6, <3>1
  <2> QED BY <1>4, <2>1, <2>2
<1>8. ASSUME NEW i \in m..k
      PROVE  f[i] \in Int /\ g[h[i]] = f[i]
  <2>1. h[i] = i - m + 1 /\ h[i] \in 1..(k - m + 1) /\ m + h[i] - 1 = i
    BY <1>6
  <2>2. t[h[i]] = s[i]
    BY <1>4, <2>1
  <2>3. h[i] \in DOMAIN t
    BY <1>4, <2>1
  <2>4. g[h[i]] = CharWidth(t[h[i]])
    BY <1>5, <2>3
  <2>5. f[i] \in Int /\ f[i] = CharWidth(s[i])
    BY <1>1
  <2>6. g[h[i]] = f[i]
    BY <2>2, <2>4, <2>5, Zenon
  <2> QED BY <2>5, <2>6
<1>9. \A i, j \in m..k : h[i] = h[j] => i = j
  BY <1>6
<1>10. SumFunctionOnSet(g, DOMAIN t) = SumFunctionOnSet(f, m..k)
  <2>1. PICK S : S = m..k
    OBVIOUS
  <2>2. IsFiniteSet(S)
    BY <1>2, <2>1
  <2>3. \A i \in S : f[i] \in Int /\ g[h[i]] = f[i]
    BY <1>8, <2>1
  <2>4. \A i, j \in S : h[i] = h[j] => i = j
    BY <1>9, <2>1
  <2>5. \A j : j \in DOMAIN t <=> \E i \in S : h[i] = j
    BY <1>7, <2>1
  <2>6. Renames(h, S, DOMAIN t, f, g)
    BY <2>3, <2>4, <2>5 DEF Renames
  <2>7. SumFunctionOnSet(g, DOMAIN t) = SumFunctionOnSet(f, S)
    BY <2>2, <2>6, SumRenamed
  <2> QED BY <2>1, <2>7
<1>11. CalcCharWidth(t) = SumFunctionOnSet(g, DOMAIN t)
  <2>1. CalcCharWidth(t) = SumFunction(g)
    BY <1>5 DEF CalcCharWidth
  <2>2. DOMAIN g = DOMAIN t
    BY <1>5
  <2> QED BY <2>1, <2>2 DEF SumFunction
<1> QED BY <1>1, <1>2, <1>3, <1>10, <1>11

\* By how much a longer prefix is wider than a shorter one.
LEMMA PrefixWidths ==
    ASSUME NEW s \in Seq(Characters), NEW q \in 0..Len(s), NEW p \in 0..q
    PROVE  /\ CalcCharWidth(SubSeq(s, 1, q)) =
                  CalcCharWidth(SubSeq(s, 1, p)) + CalcCharWidth(SubSeq(s, p + 1, q))
           /\ CalcCharWidth(SubSeq(s, p + 1, q)) \in (q - p)..(2 * (q - p))
           /\ CalcCharWidth(SubSeq(s, 1, p)) \in Nat
<1>1. PICK f : f = [i \in DOMAIN s |-> CharWidth(s[i])]
  OBVIOUS
<1>2. /\ CalcCharWidth(SubSeq(s, 1, q)) = SumFunctionOnSet(f, 1..q)
      /\ \A i \in 1..q : f[i] \in 1..2
  BY <1>1, PieceWidth
<1>3. PICK A : A = 1..p
  OBVIOUS
<1>4. /\ CalcCharWidth(SubSeq(s, 1, p)) = SumFunctionOnSet(f, A)
      /\ IsFiniteSet(A) /\ \A i \in A : f[i] \in 1..2
  BY <1>1, <1>3, PieceWidth
<1>5. PICK B : B = (p + 1)..q
  OBVIOUS
<1>6. /\ CalcCharWidth(SubSeq(s, p + 1, q)) = SumFunctionOnSet(f, B)
      /\ IsFiniteSet(B) /\ \A i \in B : f[i] \in 1..2
  <2>1. p + 1 \in 1..(Len(s) + 1) /\ q \in ((p + 1) - 1)..Len(s)
    OBVIOUS
  <2> QED BY <1>1, <1>5, <2>1, PieceWidth
<1>7. 1..q = A \cup B /\ A \cap B = {}
  BY <1>3, <1>5
<1>8. Cardinality(A) = p /\ Cardinality(B) = q - p
  <2>1. \A a, b \in Int : Cardinality(a..b) = IF a > b THEN 0 ELSE b - a + 1
    BY FS_Interval
  <2>2. p \in Int /\ q \in Int /\ p + 1 \in Int /\ 1 \in Int /\ p <= q /\ p >= 0
    OBVIOUS
  <2>3. Cardinality(A) = p
    BY <1>3, <2>1, <2>2
  <2>4. Cardinality(B) = q - p
    <3>1. PICK c \in Int : c = p + 1
      BY <2>2
    <3>2. Cardinality(c..q) = IF c > q THEN 0 ELSE q - c + 1
      BY <2>1, <2>2
    <3> QED BY <1>5, <2>2, <3>1, <3>2
  <2> QED BY <2>3, <2>4
<1>9. \A i \in A \cup B : f[i] \in Int
  BY <1>4, <1>6
<1>10. SumFunctionOnSet(f, A \cup B) = SumFunctionOnSet(f, A) + SumFunctionOnSet(f, B)
  BY <1>4, <1>6, <1>7, <1>9, SumUnion
<1>11. /\ SumFunctionOnSet(f, B) \in Int
       /\ q - p <= SumFunctionOnSet(f, B) /\ SumFunctionOnSet(f, B) <= 2 * (q - p)
  <2>1. /\ SumFunctionOnSet(f, B) \in Int
        /\ 1 * Cardinality(B) <= SumFunctionOnSet(f, B)
        /\ SumFunctionOnSet(f, B) <= 2 * Cardinality(B)
    BY <1>6, SumBounds
  <2> QED BY <1>8, <2>1
<1>12. /\ SumFunctionOnSet(f, A) \in Int
       /\ p <= SumFunctionOnSet(f, A) /\ SumFunctionOnSet(f, A) <= 2 * p
  <2>1. /\ SumFunctionOnSet(f, A) \in Int
        /\ 1 * Cardinality(A) <= SumFunctionOnSet(f, A)
        /\ SumFunctionOnSet(f, A) <= 2 * Cardinality(A)
    BY <1>4, SumBounds
  <2> QED BY <1>8, <2>1
<1>13. CalcCharWidth(SubSeq(s, 1, p)) \in Nat
  BY <1>4, <1>12
<1>14. CalcCharWidth(SubSeq(s, p + 1, q)) \in (q - p)..(2 * (q - p))
  BY <1>6, <1>11
<1>15. CalcCharWidth(SubSeq(s, 1, q)) =
           CalcCharWidth(SubSeq(s, 1, p)) + CalcCharWidth(SubSeq(s, p + 1, q))
  BY <1>2, <1>4, <1>6, <1>7, <1>10
<1> QED BY <1>13, <1>14, <1>15

\* TrimRight takes away as few characters as there must be.
LEMMA TrimRightFits ==
    ASSUME NEW s \in Seq(Characters), CalcCharWidth(s) > Column
    PROVE  \E p \in 0..(Len(s) - 1) :
              /\ TrimRight(s, CalcCharWidth(s) - Column) = SubSeq(s, 1, p)
              /\ CalcCharWidth(SubSeq(s, 1, p)) <= Column
              /\ CalcCharWidth(SubSeq(s, 1, p + 1)) > Column
              /\ \A q \in 0..Len(s) :
                    CalcCharWidth(SubSeq(s, 1, q)) <= Column => q <= p
<1>1. PICK l \in Nat : l = Len(s)
  OBVIOUS
<1>2. PICK pre : pre = [p \in 0..l |-> CalcCharWidth(SubSeq(s, 1, p))]
  OBVIOUS
<1>3. PICK w : w = CalcCharWidth(s)
  OBVIOUS
<1>4. pre[l] = w
  <2>1. SubSeq(s, 1, l) = s
    BY <1>1, SubSeqFull
  <2> QED BY <1>2, <1>3, <2>1
<1>5. /\ pre[0] = 0
      /\ \A p \in 0..l : pre[p] \in Nat
      /\ \A p \in 0..l : CalcCharWidth(SubSeq(s, p + 1, l)) = w - pre[p]
  <2>1. \A p \in 0..l : /\ pre[p] \in Nat
                        /\ CalcCharWidth(SubSeq(s, p + 1, l)) \in Int
                        /\ pre[l] = pre[p] + CalcCharWidth(SubSeq(s, p + 1, l))
    <3> SUFFICES ASSUME NEW p \in 0..l
                 PROVE  /\ pre[p] \in Nat
                        /\ CalcCharWidth(SubSeq(s, p + 1, l)) \in Int
                        /\ pre[l] = pre[p] + CalcCharWidth(SubSeq(s, p + 1, l))
      OBVIOUS
    <3>1. l \in 0..Len(s)
      BY <1>1
    <3>2. /\ CalcCharWidth(SubSeq(s, 1, l)) =
                 CalcCharWidth(SubSeq(s, 1, p)) + CalcCharWidth(SubSeq(s, p + 1, l))
          /\ CalcCharWidth(SubSeq(s, p + 1, l)) \in (l - p)..(2 * (l - p))
          /\ CalcCharWidth(SubSeq(s, 1, p)) \in Nat
      BY <3>1, PrefixWidths
    <3> QED BY <1>2, <3>2
  <2>2. pre[0] = 0
    <3>1. /\ CalcCharWidth(SubSeq(s, 1, 0)) =
                 CalcCharWidth(SubSeq(s, 1, 0)) + CalcCharWidth(SubSeq(s, 0 + 1, 0))
          /\ CalcCharWidth(SubSeq(s, 0 + 1, 0)) \in (0 - 0)..(2 * (0 - 0))
          /\ CalcCharWidth(SubSeq(s, 1, 0)) \in Nat
      BY PrefixWidths
    <3> QED BY <1>2, <3>1
  <2> QED BY <1>4, <2>1, <2>2
<1>6. PICK enough : enough = {k \in 1..l :
          CalcCharWidth(SubSeq(s, l - k + 1, l)) >= w - Column}
  OBVIOUS
<1>7. \A k : k \in enough <=> k \in 1..l /\ pre[l - k] <= Column
  <2> SUFFICES ASSUME NEW k \in 1..l
               PROVE  CalcCharWidth(SubSeq(s, l - k + 1, l)) >= w - Column
                          <=> pre[l - k] <= Column
    BY <1>6
  <2>1. l - k \in 0..l
    OBVIOUS
  <2>2. CalcCharWidth(SubSeq(s, l - k + 1, l)) = w - pre[l - k]
    BY <1>5, <2>1
  <2>3. w \in Nat /\ pre[l - k] \in Nat
    BY <1>4, <1>5, <2>1
  <2> QED BY <2>2, <2>3, ColumnAssumption
<1>8. l \in enough
  <2>1. w \in Nat /\ w > Column /\ Column \in Nat
    BY <1>3, <1>4, <1>5, ColumnAssumption
  <2>2. l # 0
    BY <1>4, <1>5, <2>1
  <2>3. l \in 1..l /\ l - l = 0 /\ pre[0] <= Column
    BY <1>5, <2>1, <2>2
  <2>4. pre[l - l] <= Column
    BY <2>3
  <2> QED BY <1>7, <2>3, <2>4
<1>9. PICK m : m = Min(enough)
  OBVIOUS
<1>10. m \in enough /\ \A k \in enough : m <= k
  <2>1. enough \subseteq 1..l /\ IsFiniteSet(1..l)
    BY <1>7, FS_Interval
  <2>2. IsFiniteSet(enough)
    <3>1. PICK S : S = 1..l /\ IsFiniteSet(S) /\ enough \in SUBSET S
      BY <2>1
    <3> QED BY <3>1, FS_Subset
  <2>3. enough \in SUBSET Int /\ enough # {}
    BY <1>8, <2>1
  <2> QED BY <1>9, <2>2, <2>3, MaxMin
<1>11. TrimRight(s, w - Column) = SubSeq(s, 1, l - m)
  BY <1>1, <1>6, <1>8, <1>9 DEF TrimRight
<1>12. PICK p \in Int : p = l - m
  BY <1>7, <1>10
<1>13. p \in 0..(l - 1) /\ pre[p] <= Column
  BY <1>7, <1>10, <1>12
<1>14. ASSUME NEW q \in 0..l, pre[q] <= Column
       PROVE  q <= p
  <2>1. q # l
    BY <1>3, <1>4, <1>14, ColumnAssumption, <1>5
  <2>2. l - q \in 1..l /\ l - (l - q) = q
    BY <2>1
  <2>3. l - q \in enough
    BY <1>7, <1>14, <2>2
  <2> QED BY <1>7, <1>10, <1>12, <2>3
<1>15. pre[p + 1] > Column
  <2>1. p + 1 \in 0..l /\ ~ (p + 1 <= p)
    BY <1>13
  <2> QED BY <1>5, <1>14, <2>1, ColumnAssumption
<1>16. /\ CalcCharWidth(SubSeq(s, 1, p)) = pre[p]
       /\ CalcCharWidth(SubSeq(s, 1, p + 1)) = pre[p + 1]
       /\ \A q \in 0..l : CalcCharWidth(SubSeq(s, 1, q)) = pre[q]
  BY <1>2, <1>13
<1> QED BY <1>1, <1>3, <1>11, <1>12, <1>13, <1>14, <1>15, <1>16

\* What becomes of a name in its column.
LEMMA CellFits ==
    ASSUME NEW n \in Seq(Characters)
    PROVE  LET cell == Cell(n)
               fitting == {p \in Prefixes(n) : CalcCharWidth(p) <= Column}
           IN  /\ cell.name \in fitting
               /\ \A p \in fitting : Len(p) <= Len(cell.name)
               /\ CalcCharWidth(cell.name) + cell.blanks - Column \in
                      IF cell.name = n THEN {1} ELSE {0, 1}
<1>1. PICK fitting : fitting = {p \in Prefixes(n) : CalcCharWidth(p) <= Column}
  OBVIOUS
<1>2. Prefixes(n) = {SubSeq(n, 1, q) : q \in 0..Len(n)}
  BY DEF Prefixes
<1>3. Len(n) \in Nat /\ SubSeq(n, 1, Len(n)) = n
  BY SubSeqFull
<1>4. ASSUME NEW q \in 0..Len(n)
      PROVE  Len(SubSeq(n, 1, q)) = q
  <2>1. \A i \in 1..q : n[i] \in Characters
    OBVIOUS
  <2> QED BY <2>1, SubSeqProperties
<1>5. CASE CalcCharWidth(n) > Column
  <2>1. PICK p \in 0..(Len(n) - 1) :
              /\ TrimRight(n, CalcCharWidth(n) - Column) = SubSeq(n, 1, p)
              /\ CalcCharWidth(SubSeq(n, 1, p)) <= Column
              /\ CalcCharWidth(SubSeq(n, 1, p + 1)) > Column
              /\ \A q \in 0..Len(n) :
                    CalcCharWidth(SubSeq(n, 1, q)) <= Column => q <= p
    BY <1>5, TrimRightFits
  <2>2. p \in 0..Len(n) /\ p + 1 \in 0..Len(n) /\ p \in 0..(p + 1)
    BY <1>3
  <2>3. Cell(n).name = SubSeq(n, 1, p) /\ Cell(n).blanks = 1
    BY <1>5, <2>1 DEF Cell
  <2>4. SubSeq(n, 1, p) \in fitting
    BY <1>1, <1>2, <2>1, <2>2
  <2>5. ASSUME NEW t \in fitting
        PROVE  Len(t) <= Len(SubSeq(n, 1, p))
    <3>1. PICK q \in 0..Len(n) : t = SubSeq(n, 1, q) /\ CalcCharWidth(t) <= Column
      BY <1>1, <1>2
    <3> QED BY <1>4, <2>1, <2>2, <3>1
  <2>6. SubSeq(n, 1, p) # n
    <3>1. Len(SubSeq(n, 1, p)) = p
      BY <1>4, <2>2
    <3>2. p # Len(n)
      <4>1. PICK l \in Nat : l = Len(n)
        BY <1>3
      <4>2. p + 1 \in 0..l /\ p \in 0..l
        BY <2>2, <4>1
      <4> QED BY <4>1, <4>2
    <3> QED BY <3>1, <3>2
  <2>7. CalcCharWidth(SubSeq(n, 1, p)) + 1 - Column \in {0, 1}
    <3>1. PICK r \in Nat : r = p + 1
      BY <2>2
    <3>2. /\ CalcCharWidth(SubSeq(n, 1, r)) =
                CalcCharWidth(SubSeq(n, 1, p)) + CalcCharWidth(SubSeq(n, p + 1, r))
          /\ CalcCharWidth(SubSeq(n, p + 1, r)) \in (r - p)..(2 * (r - p))
          /\ CalcCharWidth(SubSeq(n, 1, p)) \in Nat
      <4>1. r \in 0..Len(n) /\ p \in 0..r
        BY <2>2, <3>1
      <4> QED BY <4>1, PrefixWidths
    <3> QED BY <2>1, <3>1, <3>2, ColumnAssumption
  <2> QED BY <1>1, <2>3, <2>4, <2>5, <2>6, <2>7
<1>6. CASE ~ CalcCharWidth(n) > Column
  <2>1. Cell(n).name = n /\ Cell(n).blanks = Column + 1 - CalcCharWidth(n)
    BY <1>6 DEF Cell
  <2>2. CalcCharWidth(n) \in Nat
    <3>1. PICK q \in Nat : q = Len(n)
      BY <1>3
    <3>2. q \in 0..Len(n) /\ q \in 0..q
      BY <3>1
    <3>3. CalcCharWidth(SubSeq(n, 1, q)) \in Nat
      BY <3>2, PrefixWidths
    <3> QED BY <1>3, <3>1, <3>3
  <2>3. n \in fitting
    <3>1. Len(n) \in 0..Len(n)
      BY <1>3
    <3>2. n \in Prefixes(n)
      BY <1>2, <1>3, <3>1
    <3> QED BY <1>1, <1>6, <2>2, <3>2, ColumnAssumption
  <2>4. ASSUME NEW t \in fitting
        PROVE  Len(t) <= Len(n)
    <3>1. PICK q \in 0..Len(n) : t = SubSeq(n, 1, q)
      BY <1>1, <1>2
    <3> QED BY <1>3, <1>4, <3>1
  <2>5. CalcCharWidth(n) + (Column + 1 - CalcCharWidth(n)) - Column = 1
    BY <2>2, ColumnAssumption
  <2> QED BY <1>1, <2>1, <2>3, <2>4, <2>5
<1> QED BY <1>5, <1>6

\* Whatever the names and the width of the column, a name that is cut keeps all
\* the characters that there is room for.
THEOREM NamesFitAlways == FSpec => []NamesFit
<1>1. ASSUME StreamInv
      PROVE  NamesFit
  <2>1. \A n \in left : n \in Seq(Characters)
    BY <1>1, NamesAssumption DEF StreamInv, ResultInv
  <2> QED BY <2>1, CellFits DEF NamesFit
<1> QED BY <1>1, StreamInvariance, PTL
==============================================================================
