---------------------------- MODULE DirTraversal -----------------------------
(***************************************************************************)
(* DirTraversing::Traverse of dir_traversing.cpp, on its own: the files    *)
(* are first counted by a recursion over the directories                   *)
(* (CalculateNumFiles) and then visited breadth first (::Traverse).  Both  *)
(* passes read the directories from disk, in whatever order the file       *)
(* system lists them, and at any entry a filesystem_error may end the      *)
(* iteration of a directory.  The callback may halt the traversal.         *)
(***************************************************************************)
EXTENDS Naturals, Sequences, FiniteSets

CONSTANTS Dirs, Files, Root,
          Parent,           \* the directory every other path lies in
          Under,            \* what lies below a path, itself included
          Depth             \* how many directories down a path lies

Paths == Dirs \cup Files

Entries(d) == {p \in Paths \ {Root} : Parent[p] = d}

ASSUME RootAssumption == Root \in Dirs
ASSUME PathsAssumption ==
    /\ IsFiniteSet(Dirs) /\ IsFiniteSet(Files)
    /\ Dirs \cap Files = {}
    /\ Parent \in [Paths \ {Root} -> Dirs]

\* The paths are a tree: these equations determine Under and Depth.
ASSUME TreeAssumption ==
    /\ Under \in [Paths -> SUBSET Paths] /\ Under[Root] = Paths
    /\ \A p \in Paths : Under[p] = {p} \cup UNION {Under[e] : e \in Entries(p)}
    /\ \A p \in Paths \ {Root} : Parent[p] \notin Under[p]
    /\ \A p, q \in Paths \ {Root} :
           p # q /\ Parent[p] = Parent[q] => Under[p] \cap Under[q] = {}
    /\ Depth \in [Paths -> Nat]
    /\ \A p \in Paths \ {Root} : Depth[p] = Depth[Parent[p]] + 1

VARIABLES
    kind,       \* what the initial path is
    pc,
    frames,     \* recursion of CalculateNumFiles, innermost last
    count,      \* files counted so far
    cut,        \* history: directories whose count ended early
    pending,    \* directories still to visit, the one being visited first
    rest,       \* its entries still to come
    delivered,  \* paths given to Callback::Progress, in order
    broken,     \* history: directories whose visit ended early
    halted,     \* Progress has returned false
    dones       \* calls of Callback::Done

counting == <<frames, count, cut>>
visiting == <<pending, rest, delivered, broken, halted>>
vars == <<kind, pc, counting, visiting, dones>>

Frames == [dir : Dirs, rest : SUBSET (Paths \ {Root})]

\* The state is well formed; in particular Done is never called twice.
TypeOK ==
    /\ kind \in {"missing", "file", "directory"}
    /\ pc \in {"start", "count", "initialize", "enter", "walk", "done", "ended", "thrown"}
    /\ frames \in Seq(Frames) /\ count \in Nat /\ cut \subseteq Dirs
    /\ pending \in Seq(Dirs) /\ rest \subseteq Paths \ {Root}
    /\ delivered \in Seq(Files \cup {Root}) /\ broken \subseteq Dirs
    /\ halted \in BOOLEAN /\ dones \in {0, 1}

Init ==
    /\ kind \in {"missing", "file", "directory"}
    /\ pc = "start"
    /\ frames = << >> /\ count = 0 /\ cut = {}
    /\ pending = << >> /\ rest = {} /\ delivered = << >> /\ broken = {}
    /\ halted = FALSE /\ dones = 0

------------------------------------------------------------------------------
(* CalculateNumFiles *)

Enter(d) == [dir |-> d, rest |-> Entries(d)]

CountStart ==
    /\ pc = "start"
    /\ pc' = IF kind = "directory" THEN "count" ELSE "initialize"
    /\ frames' = IF kind = "directory" THEN <<Enter(Root)>> ELSE << >>
    /\ count' = IF kind = "file" THEN 1 ELSE 0
    /\ UNCHANGED <<kind, cut, visiting, dones>>

Innermost == frames[Len(frames)]
Outer == SubSeq(frames, 1, Len(frames) - 1)
Shorter(p) == [Innermost EXCEPT !.rest = @ \ {p}]

\* The innermost call returns; with the outermost the count is complete.
Return ==
    /\ frames' = Outer
    /\ pc' = IF Outer = << >> THEN "initialize" ELSE "count"

CountFile(f) ==
    /\ pc = "count" /\ f \in Innermost.rest
    /\ frames' = Append(Outer, Shorter(f))
    /\ count' = count + 1
    /\ UNCHANGED <<kind, pc, cut, visiting, dones>>

\* Mutant: the recursion's result is assigned, not added.
CountDirOverwrites(d) ==
    /\ pc = "count" /\ d \in Innermost.rest
    /\ frames' = Outer \o <<Shorter(d), Enter(d)>>
    /\ count' = 0
    /\ UNCHANGED <<kind, pc, cut, visiting, dones>>

CountDir(d) ==
    /\ pc = "count" /\ d \in Innermost.rest
    /\ frames' = Outer \o <<Shorter(d), Enter(d)>>
    /\ UNCHANGED <<kind, pc, count, cut, visiting, dones>>

CountReturn ==
    /\ pc = "count" /\ Innermost.rest = {}
    /\ Return
    /\ UNCHANGED <<kind, count, cut, visiting, dones>>

\* Mutant: an error abandons the count as a whole.
CountErrorAborts ==
    /\ pc = "count" /\ Innermost.rest # {}
    /\ cut' = cut \cup {Innermost.dir}
    /\ frames' = << >> /\ pc' = "initialize"
    /\ UNCHANGED <<kind, count, visiting, dones>>

\* An error at an entry, or on entering the directory it is (the test that it
\* exists is outside its own try), ends the iteration that met it.
CountError ==
    /\ pc = "count" /\ Innermost.rest # {}
    /\ cut' = cut \cup {Innermost.dir}
    /\ Return
    /\ UNCHANGED <<kind, count, visiting, dones>>

Initialize ==
    /\ pc = "initialize"
    /\ pc' = "enter"
    /\ UNCHANGED <<kind, counting, visiting, dones>>

------------------------------------------------------------------------------
(* The visit *)

Stop == pc' = "done"

EnterMissing ==
    /\ pc = "enter" /\ kind = "missing"
    /\ Stop
    /\ UNCHANGED <<kind, counting, visiting, dones>>

\* Mutant: Done is called here, and again on the way out.
EnterFileReportsDone ==
    /\ pc = "enter" /\ kind = "file"
    /\ delivered' = <<Root>> /\ dones' = dones + 1
    /\ Stop
    /\ UNCHANGED <<kind, counting, pending, rest, broken, halted>>

\* The initial path is a file: one Progress, whose answer is not looked at.
EnterFile ==
    /\ pc = "enter" /\ kind = "file"
    /\ delivered' = <<Root>>
    /\ Stop
    /\ UNCHANGED <<kind, counting, pending, rest, broken, halted, dones>>

EnterDirectory ==
    /\ pc = "enter" /\ kind = "directory"
    /\ pc' = "walk"
    /\ pending' = <<Root>> /\ rest' = Entries(Root)
    /\ UNCHANGED <<kind, counting, delivered, broken, halted, dones>>

\* exists and is_regular_file of the initial path throw outside any try: the
\* exception leaves Traverse, nothing on the thread catches it, and the
\* exception filter ends the process before any unwinding calls Done.
PathThrows ==
    /\ pc \in {"start", "enter"}
    /\ pc' = "thrown"
    /\ UNCHANGED <<kind, counting, visiting, dones>>

\* Mutant: a subdirectory is visited before its siblings.
VisitDirFirst(d) ==
    /\ pc = "walk" /\ d \in rest
    /\ pending' = <<Head(pending), d>> \o Tail(pending)
    /\ rest' = rest \ {d}
    /\ UNCHANGED <<kind, pc, counting, delivered, broken, halted, dones>>

VisitDir(d) ==
    /\ pc = "walk" /\ d \in rest
    /\ pending' = Append(pending, d)
    /\ rest' = rest \ {d}
    /\ UNCHANGED <<kind, pc, counting, delivered, broken, halted, dones>>

\* Mutant: a halt only ends the directory, as its siblings' caller ignores it.
VisitFileIgnoresHalt(f, goOn) ==
    /\ pc = "walk" /\ f \in rest
    /\ delivered' = Append(delivered, f)
    /\ rest' = IF goOn THEN rest \ {f} ELSE {}
    /\ halted' = ~goOn
    /\ UNCHANGED <<kind, pc, counting, pending, broken, dones>>

\* goOn is the answer of Callback::Progress.
VisitFile(f, goOn) ==
    /\ pc = "walk" /\ f \in rest
    /\ delivered' = Append(delivered, f)
    /\ rest' = rest \ {f}
    /\ halted' = ~goOn
    /\ IF goOn THEN UNCHANGED pc ELSE Stop
    /\ UNCHANGED <<kind, counting, pending, broken, dones>>

NextPending ==
    /\ pending' = Tail(pending)
    /\ IF Tail(pending) = << >>
       THEN rest' = {} /\ Stop
       ELSE rest' = Entries(pending[2]) /\ UNCHANGED pc

\* Mutant: an error ends the traversal.
VisitErrorStops ==
    /\ pc = "walk" /\ rest # {}
    /\ broken' = broken \cup {Head(pending)}
    /\ Stop
    /\ UNCHANGED <<kind, counting, pending, rest, delivered, halted, dones>>

VisitError ==
    /\ pc = "walk" /\ rest # {}
    /\ broken' = broken \cup {Head(pending)}
    /\ NextPending
    /\ UNCHANGED <<kind, counting, delivered, halted, dones>>

DirectoryEnds ==
    /\ pc = "walk" /\ rest = {}
    /\ NextPending
    /\ UNCHANGED <<kind, counting, delivered, broken, halted, dones>>

\* Mutant: Done on every way out but the early return.
CallDoneUnlessHalted ==
    /\ pc = "done"
    /\ dones' = IF halted THEN dones ELSE dones + 1
    /\ pc' = "ended"
    /\ UNCHANGED <<kind, counting, visiting>>

\* autoReportDone.
CallDone ==
    /\ pc = "done"
    /\ dones' = dones + 1
    /\ pc' = "ended"
    /\ UNCHANGED <<kind, counting, visiting>>

------------------------------------------------------------------------------
Next ==
    \/ CountStart \/ CountReturn \/ CountError \/ Initialize
    \/ \E f \in Files : CountFile(f)
    \/ \E d \in Dirs : CountDir(d) \/ VisitDir(d)
    \/ EnterMissing \/ EnterFile \/ EnterDirectory \/ PathThrows
    \/ \E f \in Files, goOn \in BOOLEAN : VisitFile(f, goOn)
    \/ VisitError \/ DirectoryEnds \/ CallDone

Spec == Init /\ [][Next]_vars

\* The thread keeps running and every callback returns.
FairSpec == Spec /\ WF_vars(Next)

------------------------------------------------------------------------------
(* Properties *)

\* The directories that wait, and with the entries all that is still to visit.
Waiting == {pending[i] : i \in 2..Len(pending)}
Unvisited == rest \cup Waiting
Given == {delivered[i] : i \in 1..Len(delivered)}
BelowAny(ds) == UNION {Under[d] : d \in ds}
Separate(ps) == \A p, q \in ps : p # q => Under[p] \cap Under[q] = {}

\* No file is progressed twice, and the files nearest to the initial directory
\* come first, although directories are discovered while they are visited.
BreadthFirst ==
    \A i, j \in 1..Len(delivered) :
        i < j => /\ delivered[i] # delivered[j]
                 /\ Depth[delivered[i]] <= Depth[delivered[j]]

\* The number announced to the callback is right unless an error cut the count
\* short, and an error only hides what lies below the directory that met it.
CountContained ==
    kind = "directory" /\ pc \notin {"start", "count", "thrown"} =>
        /\ count <= Cardinality(Files)
        /\ count >= Cardinality(Files \ BelowAny(cut))

\* A traversal that was not halted delivers every file except below directories
\* that met an error.
ErrorsContained ==
    kind = "directory" /\ pc \in {"done", "ended"} /\ ~halted =>
        Files \subseteq BelowAny(broken) \cup Given

\* Once Progress has said false it is not called again.
HaltIsFinal == [][halted => delivered' = delivered]_vars

Ahead ==
    CASE kind = "missing" -> {}
      [] kind = "file" -> IF delivered = << >> THEN {Root} ELSE {}
      [] kind = "directory" ->
           IF pc \in {"start", "count", "initialize", "enter", "thrown"} THEN Files
           ELSE Files \cap BelowAny(Unvisited)

Phase ==
    CASE pc = "ended" -> "reported"
      [] pc = "thrown" -> "dead"
      [] OTHER -> IF halted THEN "halted" ELSE "running"

Abstract == INSTANCE Traversal WITH ahead <- Ahead, phase <- Phase

\* The visit implements the traversal that the session assumes: it delivers the
\* paths below the initial one, each at most once and none after a halt, may
\* lose some but forgets none, and reports the end once.
TraversalSpec == Abstract!Spec

\* Callback::Done, "guaranteed to be called no matter success or failure", is
\* called once, at the end, unless the exception filter ended the process.
DoneOnce == <>[](pc = "thrown" \/ dones = 1)

------------------------------------------------------------------------------
(* The inductive invariant of the visit *)

\* What has happened at each place.
PlaceInv ==
    /\ pc \in {"start", "count", "initialize", "enter", "thrown"} =>
           /\ pending = << >> /\ rest = {} /\ delivered = << >> /\ broken = {}
           /\ ~halted
    /\ pc = "walk" =>
           /\ kind = "directory" /\ ~halted
           /\ pending # << >> /\ rest \subseteq Entries(pending[1])
    /\ pc # "ended" => dones = 0
    /\ pc \in {"done", "ended"} /\ kind = "directory" /\ ~halted => Unvisited = {}
    /\ kind # "directory" =>
           /\ pending = << >> /\ rest = {} /\ ~halted
           /\ delivered \in {<< >>, <<Root>>}
           /\ kind = "missing" => delivered = << >>
           /\ kind = "file" /\ pc \in {"done", "ended"} => delivered = <<Root>>

\* What is still to visit are separate subtrees, none of it given before.
SeparateInv ==
    /\ Separate(Unvisited)
    /\ rest \cap Waiting = {}
    /\ \A i, j \in 2..Len(pending) : i # j => pending[i] # pending[j]
    /\ kind = "directory" => Given \cap BelowAny(Unvisited) = {}

\* No file is forgotten.
CoverInv ==
    kind = "directory" /\ pc \in {"walk", "done", "ended"} =>
        Files \subseteq Given \cup BelowAny(Unvisited) \cup BelowAny(broken)

\* The directories wait in the order of their depth, and nothing that was
\* given lies deeper than what comes next.
DepthInv ==
    pc = "walk" =>
        /\ \A i, j \in 1..Len(pending) : i < j =>
               /\ Depth[pending[i]] <= Depth[pending[j]]
               /\ Depth[pending[j]] <= Depth[pending[1]] + 1
        /\ \A i \in 1..Len(delivered) :
               Depth[delivered[i]] <= Depth[pending[1]] + 1

VisitInv == PlaceInv /\ SeparateInv /\ CoverInv /\ DepthInv /\ BreadthFirst

------------------------------------------------------------------------------
(* The inductive invariant of the count *)

FramesInv ==
    /\ pc = "count" <=> frames # << >>
    /\ pc = "count" => kind = "directory"
    /\ pc = "start" => cut = {}
    /\ \A i \in 1..Len(frames) : frames[i].rest \subseteq Entries(frames[i].dir)

Uncounted == UNION {frames[i].rest : i \in 1..Len(frames)}

\* What the suspended calls have still to count are separate subtrees.
UncountedInv ==
    /\ Separate(Uncounted)
    /\ \A i, j \in 1..Len(frames) : i # j => frames[i].rest \cap frames[j].rest = {}

\* The number is that of some files; none of them is to be counted again, and
\* the others are, or an error hides them.
NumberInv ==
    kind = "directory" /\ pc \notin {"start", "thrown"} =>
        \E counted \in SUBSET Files :
            /\ count = Cardinality(counted)
            /\ counted \cap BelowAny(Uncounted) = {}
            /\ Files \subseteq counted \cup BelowAny(Uncounted) \cup BelowAny(cut)

CountInv == FramesInv /\ UncountedInv /\ NumberInv

DInv == TypeOK /\ CountInv /\ VisitInv
==============================================================================
