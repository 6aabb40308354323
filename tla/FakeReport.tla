------------------------------ MODULE FakeReport ------------------------------
(***************************************************************************)
(* How OnBnClickedButtonAnalyze writes the four fake high quality reports  *)
(* (CreateFakeHighQualityReport of main_dialog.cpp) from the results that  *)
(* Reports has: each is a file with a header, a line for each result in    *)
(* Fake, and a footer with the numbers counted on the way, through one     *)
(* wofstream whose state nobody looks at.  A name that is too wide for its *)
(* column loses characters at its end; a character that the locale of the  *)
(* stream has no code for spoils the stream, like an error of the disk.    *)
(***************************************************************************)
EXTENDS Reports, SequencesExt

CONSTANTS Column,       \* maxFileNameLength
          MaxResults    \* bound: results in the map

\* A character takes one place or two; "x" takes two and has no code.
Characters == {"n", "w", "x"}

ASSUME NamesAssumption == Names \subseteq Seq(Characters)
ASSUME ColumnAssumption == Column \in Nat \ {0} /\ MaxResults \in Nat

VARIABLES
    pc,
    report,     \* which of the four is being written
    left,       \* the results still to be visited
    totalCount, scopeCount, fakeCount,
    stream,     \* what the state of the wofstream is
    text        \* the lines in the file

counts == <<totalCount, scopeCount, fakeCount>>
writing == <<pc, report, left, counts, stream, text>>
fvars == <<result, writing>>

FInit ==
    /\ Init
    /\ pc = "idle" /\ report = 1 /\ left = {}
    /\ totalCount = 0 /\ scopeCount = 0 /\ fakeCount = 0
    /\ stream = "closed" /\ text = << >>

------------------------------------------------------------------------------
(* A name in its column *)

CharWidth(c) == IF c = "n" THEN 1 ELSE 2

CalcCharWidth(s) == SumFunction([i \in DOMAIN s |-> CharWidth(s[i])])

\* Mutant: stops only when more than enough is gone.
TrimRightTooMuch(s, n) ==
    LET enough == {k \in 1..Len(s) :
                      CalcCharWidth(SubSeq(s, Len(s) - k + 1, Len(s))) > n}
    IN  IF enough = {} THEN s ELSE SubSeq(s, 1, Len(s) - Min(enough))

\* Characters are counted from the end until they are as wide as n.
TrimRight(s, n) ==
    LET enough == {k \in 1..Len(s) :
                      CalcCharWidth(SubSeq(s, Len(s) - k + 1, Len(s))) >= n}
    IN  IF enough = {} THEN s ELSE SubSeq(s, 1, Len(s) - Min(enough))

\* The first column of a line: the name, and the blanks up to the next column,
\* which are computed from the width the name was to have.
Cell(s) ==
    LET width == CalcCharWidth(s)
    IN  IF width > Column
        THEN [name |-> TrimRight(s, width - Column), blanks |-> 1]
        ELSE [name |-> s, blanks |-> Column + 1 - width]

Coded(cell) == \A i \in 1..Len(cell.name) : cell.name[i] # "x"

------------------------------------------------------------------------------
(* Writing a report *)

Torn == [torn |-> TRUE]

\* Mutant: the state of the stream is cleared before every line.
PutCleared(line, coded) ==
    \/ stream # "closed" /\ coded /\ stream' = "good" /\ text' = Append(text, line)
    \/ stream # "closed" /\ stream' = "bad" /\ text' = Append(text, Torn)
    \/ stream = "closed" /\ UNCHANGED <<stream, text>>

\* A line arrives as a whole, or in part and is the last one.
Put(line, coded) ==
    \/ stream = "good" /\ coded /\ text' = Append(text, line) /\ UNCHANGED stream
    \/ stream = "good" /\ stream' = "bad" /\ text' = Append(text, Torn)
    \/ stream # "good" /\ UNCHANGED <<stream, text>>

Header == [header |-> Column + 1]

Footer(fake, scope, total) == [fake |-> fake, scope |-> scope, total |-> total]

\* A result more before the button is pressed.
Collect ==
    /\ pc = "idle"
    /\ Cardinality(DOMAIN result) < MaxResults
    /\ Next
    /\ UNCHANGED writing

Analyze ==
    /\ pc = "idle"
    /\ pc' = "open" /\ report' = 1
    /\ UNCHANGED <<result, left, counts, stream, text>>

OpenReport ==
    /\ pc = "open"
    /\ stream' \in {"good", "closed"}
    /\ left' = DOMAIN result
    /\ totalCount' = 0 /\ scopeCount' = 0 /\ fakeCount' = 0
    /\ pc' = "header"
    /\ UNCHANGED <<result, report, text>>

WriteHeader ==
    /\ pc = "header"
    /\ Put(Header, TRUE)
    /\ pc' = "lines"
    /\ UNCHANGED <<result, report, left, counts>>

\* The loop takes the next result; in which order does not matter here.
Visit(n) ==
    /\ pc = "lines" /\ n \in left
    /\ left' = left \ {n}
    /\ UNCHANGED <<pc, result, report>>

SkipUnrecognized(n) ==
    /\ Visit(n) /\ Unrecognized(n)
    /\ UNCHANGED <<counts, stream, text>>

SkipOutOfScope(n) ==
    /\ Visit(n) /\ ~Unrecognized(n) /\ n \notin ScopeOf(report)
    /\ totalCount' = totalCount + 1
    /\ UNCHANGED <<scopeCount, fakeCount, stream, text>>

SkipGenuine(n) ==
    /\ Visit(n) /\ n \in ScopeOf(report) /\ n \notin FakeOf(report)
    /\ totalCount' = totalCount + 1 /\ scopeCount' = scopeCount + 1
    /\ UNCHANGED <<fakeCount, stream, text>>

WriteLine(n) ==
    /\ Visit(n) /\ n \in FakeOf(report)
    /\ Put(Cell(n), Coded(Cell(n)))
    /\ totalCount' = totalCount + 1 /\ scopeCount' = scopeCount + 1
    /\ fakeCount' = fakeCount + 1

WriteFooter ==
    /\ pc = "lines" /\ left = {}
    /\ Put(Footer(fakeCount, scopeCount, totalCount), TRUE)
    /\ pc' = "closed"
    /\ UNCHANGED <<result, report, left, counts>>

\* The stream is destroyed; the handler goes on to the next report.
CloseReport ==
    /\ pc = "closed"
    /\ stream' = "closed" /\ text' = << >>
    /\ IF report < Len(Baselines)
       THEN pc' = "open" /\ report' = report + 1
       ELSE pc' = "idle" /\ UNCHANGED report
    /\ UNCHANGED <<result, left, counts>>

FNext ==
    \/ Collect \/ Analyze \/ OpenReport \/ WriteHeader
    \/ \E n \in Names : \/ SkipUnrecognized(n) \/ SkipOutOfScope(n)
                        \/ SkipGenuine(n) \/ WriteLine(n)
    \/ WriteFooter \/ CloseReport

FSpec == FInit /\ [][FNext]_fvars

------------------------------------------------------------------------------
(* Properties *)

\* A report that has its footer is whole: every result that Reports takes for
\* fake has its line in full, there are no others, and the footer gives their
\* number, that of their scope and that of all recognized results.
FooterMeansWhole ==
    \A i \in 1..Len(text) : "fake" \in DOMAIN text[i] =>
        /\ i = Len(text) /\ text[i].fake = Len(text) - 2
        /\ text[i] = Footer(Cardinality(FakeOf(report)),
                            Cardinality(ScopeOf(report)), Cardinality(Recognized))
        /\ \A j \in 1..(i - 1) : text[j] # Torn
        /\ \A n \in FakeOf(report) : \E j \in 1..(i - 1) : text[j] = Cell(n)

\* A name keeps as many of its characters as the column has room for, and the
\* next column begins where it should, or one place before that if the
\* character that was cut off takes two.
NamesFit ==
    \A n \in left :
        LET cell == Cell(n)
            fitting == {p \in Prefixes(n) : CalcCharWidth(p) <= Column}
        IN  /\ cell.name \in fitting
            /\ \A p \in fitting : Len(p) <= Len(cell.name)
            /\ CalcCharWidth(cell.name) + cell.blanks - Column \in
                   IF cell.name = n THEN {1} ELSE {0, 1}
==============================================================================
