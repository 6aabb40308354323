-------------------------- MODULE DirTraversalProofs --------------------------
(***************************************************************************)
(* Proofs about DirTraversal, for every finite tree of directories: what   *)
(* the count and the visit promise, and that the visit implements the      *)
(* abstract Traversal.                                                     *)
(***************************************************************************)
EXTENDS DirTraversal, FiniteSetTheorems, SequenceTheorems, TLAPS

------------------------------------------------------------------------------
(* The tree *)

\* A path lies below itself, and no path outside the tree below any.
LEMMA UnderSelf ==
    \A p \in Paths : p \in Under[p] /\ Under[p] \subseteq Paths
BY TreeAssumption

\* The entries of a directory lie below it and are other paths.
LEMMA EntriesUnder ==
    ASSUME NEW p \in Paths, NEW e \in Entries(p)
    PROVE  /\ e \in Paths \ {Root} /\ Parent[e] = p
           /\ Under[e] \subseteq Under[p]
           /\ p \notin Under[e]
<1>1. e \in Paths \ {Root} /\ Parent[e] = p
  BY DEF Entries
<1>2. Under[e] \subseteq Under[p]
  BY TreeAssumption
<1>3. p \notin Under[e]
  BY <1>1, TreeAssumption
<1> QED BY <1>1, <1>2, <1>3

\* A file has no entries.
LEMMA FilesHaveNone == \A f \in Files : Entries(f) = {}
BY PathsAssumption DEF Entries

\* Entering one of several separate subtrees leaves separate subtrees: the
\* other ones and its entries; only its root has been taken.
LEMMA Descend ==
    ASSUME NEW U \in SUBSET Paths, Separate(U), NEW d \in U
    PROVE  LET V == (U \ {d}) \cup Entries(d)
           IN  /\ V \subseteq Paths
               /\ Separate(V)
               /\ Entries(d) \cap U = {}
               /\ BelowAny(V) \subseteq BelowAny(U)
               /\ BelowAny(U) \subseteq BelowAny(V) \cup {d}
<1> DEFINE V == (U \ {d}) \cup Entries(d)
<1>1. V \subseteq Paths
  BY DEF Entries
<1>2. ASSUME NEW e \in Entries(d), NEW u \in U \ {d}
      PROVE  Under[e] \cap Under[u] = {}
  <2>1. Under[d] \cap Under[u] = {}
    BY DEF Separate
  <2> QED BY <2>1, EntriesUnder
<1>3. ASSUME NEW e \in Entries(d), NEW g \in Entries(d), e # g
      PROVE  Under[e] \cap Under[g] = {}
  BY <1>3, EntriesUnder, TreeAssumption
<1>4. Separate(V)
  BY <1>2, <1>3 DEF Separate
<1>5. Entries(d) \cap U = {}
  BY <1>2, EntriesUnder, UnderSelf
<1>6. BelowAny(V) \subseteq BelowAny(U)
  BY EntriesUnder DEF BelowAny
<1>7. BelowAny(U) \subseteq BelowAny(V) \cup {d}
  <2>1. Under[d] = {d} \cup UNION {Under[e] : e \in Entries(d)}
    BY TreeAssumption
  <2> QED BY <2>1 DEF BelowAny
<1> QED BY <1>1, <1>4, <1>5, <1>6, <1>7

\* So does taking a file.
LEMMA TakeOne ==
    ASSUME NEW U \in SUBSET Paths, Separate(U), NEW f \in U
    PROVE  /\ Separate(U \ {f})
           /\ f \notin BelowAny(U \ {f})
           /\ BelowAny(U \ {f}) \subseteq BelowAny(U)
           /\ f \in Files => BelowAny(U) \subseteq BelowAny(U \ {f}) \cup {f}
<1>1. f \in Under[f]
  BY UnderSelf
<1>2. f \notin BelowAny(U \ {f})
  BY <1>1 DEF Separate, BelowAny
<1>3. f \in Files => Under[f] = {f}
  BY FilesHaveNone, TreeAssumption
<1> QED BY <1>2, <1>3 DEF Separate, BelowAny

------------------------------------------------------------------------------
(* The queue of the directories *)

\* A directory put at the end waits; the one being visited stays.
LEMMA PutLast ==
    ASSUME pending \in Seq(Dirs), pending # << >>, NEW d \in Dirs,
           pending' = Append(pending, d)
    PROVE  /\ pending' \in Seq(Dirs) /\ pending' # << >>
           /\ Len(pending') = Len(pending) + 1 /\ Len(pending) \in Nat \ {0}
           /\ \A i \in 1..Len(pending) : pending'[i] = pending[i]
           /\ pending'[Len(pending')] = d
           /\ Waiting' = Waiting \cup {d}
<1>1. /\ pending' \in Seq(Dirs) /\ pending' # << >>
      /\ Len(pending') = Len(pending) + 1 /\ Len(pending) \in Nat \ {0}
      /\ \A i \in 1..Len(pending) : pending'[i] = pending[i]
      /\ pending'[Len(pending) + 1] = d
  BY AppendProperties, EmptySeq
<1>2. Waiting' = Waiting \cup {d}
  <2>1. 2..Len(pending') = (2..Len(pending)) \cup {Len(pending) + 1}
    BY <1>1
  <2> QED BY <1>1, <2>1 DEF Waiting
<1> QED BY <1>1, <1>2

\* The next directory is taken from those that wait.
LEMMA TakeFirst ==
    ASSUME pending \in Seq(Dirs), pending # << >>, pending' = Tail(pending),
           \A i, j \in 2..Len(pending) : i # j => pending[i] # pending[j]
    PROVE  /\ pending' \in Seq(Dirs) /\ Len(pending) \in Nat \ {0}
           /\ Len(pending') = Len(pending) - 1
           /\ \A i \in 1..Len(pending') : pending'[i] = pending[i + 1]
           /\ pending' = << >> => Waiting = {} /\ Waiting' = {}
           /\ pending' # << >> =>
                  /\ pending[2] \in Waiting /\ pending[2] \in Dirs
                  /\ pending'[1] = pending[2]
                  /\ Waiting' = Waiting \ {pending[2]}
<1>1. /\ pending' \in Seq(Dirs) /\ Len(pending) \in Nat \ {0}
      /\ Len(pending') = Len(pending) - 1
      /\ \A i \in 1..Len(pending') : pending'[i] = pending[i + 1]
  BY HeadTailProperties, EmptySeq
<1>2. CASE pending' = << >>
  <2>1. Len(pending') = 0
    BY <1>2, EmptySeq
  <2>2. 2..Len(pending) = {} /\ 2..Len(pending') = {}
    BY <1>1, <2>1
  <2> QED BY <1>1, <1>2, <2>2 DEF Waiting
<1>3. CASE pending' # << >>
  <2>1. Len(pending') \in Nat \ {0}
    BY <1>1, <1>3, EmptySeq
  <2>2. 2 \in 2..Len(pending) /\ pending[2] \in Dirs /\ pending'[1] = pending[2]
    BY <1>1, <2>1, ElementOfSeq
  <2>3. Waiting' \subseteq Waiting \ {pending[2]}
    <3> SUFFICES ASSUME NEW i \in 2..Len(pending')
                 PROVE  pending'[i] \in Waiting \ {pending[2]}
      BY DEF Waiting
    <3>1. i + 1 \in 2..Len(pending) /\ i + 1 # 2 /\ pending'[i] = pending[i + 1]
      BY <1>1
    <3> QED BY <2>2, <3>1 DEF Waiting
  <2>4. Waiting \ {pending[2]} \subseteq Waiting'
    <3> SUFFICES ASSUME NEW i \in 2..Len(pending), i # 2
                 PROVE  pending[i] \in Waiting'
      BY DEF Waiting
    <3>1. i - 1 \in 2..Len(pending') /\ pending'[i - 1] = pending[(i - 1) + 1]
      BY <1>1
    <3> QED BY <3>1 DEF Waiting
  <2> QED BY <1>1, <1>3, <2>2, <2>3, <2>4 DEF Waiting
<1> QED BY <1>2, <1>3

------------------------------------------------------------------------------
(* The visit *)

Early == {"start", "count", "initialize", "enter", "thrown"}

NotBegun ==
    /\ pc \in Early
    /\ pending = << >> /\ rest = {} /\ delivered = << >> /\ broken = {}
    /\ ~halted /\ dones = 0

\* Before the visit there is nothing to check but that it has not begun.
LEMMA EarlyVisitInv == NotBegun => VisitInv
<1> SUFFICES ASSUME NotBegun PROVE VisitInv
  OBVIOUS
<1> USE DEF NotBegun
<1>1. Len(pending) = 0 /\ Len(delivered) = 0
  BY EmptySeq
<1>2. Waiting = {} /\ Given = {} /\ Unvisited = {}
  BY <1>1 DEF Waiting, Given, Unvisited
<1>3. PlaceInv
  BY DEF PlaceInv, Early
<1>4. SeparateInv
  BY <1>1, <1>2 DEF SeparateInv, Separate
<1>5. CoverInv /\ DepthInv
  BY DEF CoverInv, DepthInv, Early
<1>6. BreadthFirst
  BY <1>1 DEF BreadthFirst
<1> QED BY <1>3, <1>4, <1>5, <1>6 DEF VisitInv

CountStep ==
    \/ CountStart \/ CountReturn \/ CountError \/ Initialize \/ PathThrows
    \/ \E f \in Files : CountFile(f)
    \/ \E d \in Dirs : CountDir(d)

VisitStep ==
    \/ EnterMissing \/ EnterFile \/ EnterDirectory
    \/ \E d \in Dirs : VisitDir(d)
    \/ \E f \in Files, goOn \in BOOLEAN : VisitFile(f, goOn)
    \/ VisitError \/ DirectoryEnds \/ CallDone

\* The steps of the count do not begin the visit.
LEMMA CountKeepsVisit ==
    ASSUME VisitInv, CountStep
    PROVE  VisitInv'
<1>1. pc \in Early /\ pc' \in Early /\ UNCHANGED <<visiting, dones>>
  BY DEF CountStep, CountStart, CountReturn, CountError, Initialize, PathThrows,
         CountFile, CountDir, Return, Early
<1>2. /\ pending = << >> /\ rest = {} /\ delivered = << >> /\ broken = {}
      /\ ~halted /\ dones = 0
  BY <1>1 DEF VisitInv, PlaceInv, Early
<1>3. NotBegun'
  BY <1>1, <1>2 DEF visiting, NotBegun
<1> QED BY <1>3, EarlyVisitInv, PTL

\* The visit begins with the initial path.
LEMMA EnterVisitInv ==
    ASSUME TypeOK, VisitInv, EnterMissing \/ EnterFile \/ EnterDirectory
    PROVE  VisitInv'
<1>1. /\ pending = << >> /\ rest = {} /\ delivered = << >> /\ broken = {}
      /\ ~halted /\ dones = 0
  BY DEF VisitInv, PlaceInv, EnterMissing, EnterFile, EnterDirectory
<1>2. CASE EnterMissing
  <2>1. UNCHANGED <<kind, visiting, dones>> /\ kind' = "missing" /\ pc' = "done"
    BY <1>2 DEF EnterMissing, Stop
  <2>2. Waiting' = {} /\ Given' = {} /\ Len(pending') = 0 /\ Len(delivered') = 0
    BY <1>1, <2>1, EmptySeq DEF visiting, Waiting, Given
  <2> QED BY <1>1, <2>1, <2>2 DEF visiting, VisitInv, PlaceInv, SeparateInv, Separate,
            CoverInv, DepthInv, BreadthFirst, Unvisited
<1>3. CASE EnterFile
  <2>1. /\ UNCHANGED <<pending, rest, broken, halted, dones>> /\ delivered' = <<Root>>
        /\ kind' = "file" /\ pc' = "done"
    BY <1>3 DEF EnterFile, Stop
  <2>2. Waiting' = {} /\ Len(pending') = 0 /\ Len(delivered') = 1
    BY <1>1, <2>1, EmptySeq DEF Waiting
  <2> QED BY <1>1, <2>1, <2>2 DEF VisitInv, PlaceInv, SeparateInv, Separate,
            CoverInv, DepthInv, BreadthFirst, Unvisited
<1>4. CASE EnterDirectory
  <2>1. /\ UNCHANGED <<delivered, broken, halted, dones>> /\ pending' = <<Root>>
        /\ rest' = Entries(Root) /\ kind' = "directory" /\ pc' = "walk"
    BY <1>4 DEF EnterDirectory
  <2>2. /\ Len(pending') = 1 /\ pending'[1] = Root /\ pending' # << >>
        /\ Len(delivered') = 0
    BY <1>1, <2>1, EmptySeq
  <2>3. Waiting' = {} /\ Given' = {} /\ Unvisited' = Entries(Root)
    BY <2>1, <2>2 DEF Waiting, Given, Unvisited
  <2>4. PlaceInv'
    BY <1>1, <2>1, <2>2 DEF PlaceInv
  <2>5. Separate(Entries(Root)) /\ Files \subseteq BelowAny(Entries(Root))
    <3>1. Separate({Root}) /\ Root \in Paths
      BY RootAssumption DEF Separate, Paths
    <3>2. ({Root} \ {Root}) \cup Entries(Root) = Entries(Root)
      OBVIOUS
    <3>3. Files \subseteq BelowAny({Root})
      BY TreeAssumption DEF BelowAny, Paths
    <3>4. Root \notin Files
      BY RootAssumption, PathsAssumption
    <3> QED BY <3>1, <3>2, <3>3, <3>4, Descend
  <2>6. SeparateInv'
    BY <2>2, <2>3, <2>5 DEF SeparateInv, Separate
  <2>7. CoverInv'
    BY <2>3, <2>5 DEF CoverInv, BelowAny
  <2>8. DepthInv' /\ BreadthFirst'
    BY <2>2, RootAssumption, TreeAssumption DEF DepthInv, BreadthFirst, Paths
  <2> QED BY <2>4, <2>6, <2>7, <2>8 DEF VisitInv
<1> QED BY <1>2, <1>3, <1>4

\* A subdirectory changes hands: it waits now.
LEMMA VisitDirInv ==
    ASSUME TypeOK, VisitInv, NEW d \in Dirs, VisitDir(d)
    PROVE  VisitInv'
<1>1. /\ pc = "walk" /\ d \in rest /\ pending' = Append(pending, d)
      /\ rest' = rest \ {d}
      /\ UNCHANGED <<kind, pc, delivered, broken, halted, dones>>
  BY DEF VisitDir
<1>2. /\ pending \in Seq(Dirs) /\ pending # << >> /\ kind = "directory" /\ ~halted
      /\ rest \subseteq Entries(pending[1]) /\ dones = 0
  BY <1>1 DEF TypeOK, VisitInv, PlaceInv
<1>3. /\ pending' \in Seq(Dirs) /\ pending' # << >>
      /\ Len(pending') = Len(pending) + 1 /\ Len(pending) \in Nat \ {0}
      /\ \A i \in 1..Len(pending) : pending'[i] = pending[i]
      /\ pending'[Len(pending')] = d
      /\ Waiting' = Waiting \cup {d}
  BY <1>1, <1>2, PutLast
<1>4. rest \cap Waiting = {}
  BY DEF VisitInv, SeparateInv
<1>5. Unvisited' = Unvisited /\ Given' = Given /\ BelowAny(Unvisited)' = BelowAny(Unvisited)
  BY <1>1, <1>3 DEF Unvisited, Given, BelowAny
<1>6. pending'[1] = pending[1]
  BY <1>3
<1>7. PlaceInv'
  BY <1>1, <1>2, <1>3, <1>6 DEF PlaceInv
<1>8. SeparateInv'
  <2>1. Separate(Unvisited)'
    BY <1>5 DEF VisitInv, SeparateInv, Separate
  <2>2. (rest \cap Waiting = {})'
    BY <1>1, <1>3, <1>4
  <2>3. ASSUME NEW i \in 2..Len(pending'), NEW j \in 2..Len(pending'), i # j
        PROVE  pending'[i] # pending'[j]
    <3>1. \A k \in 2..Len(pending) : pending[k] # d /\ pending'[k] = pending[k]
      BY <1>1, <1>3, <1>4 DEF Waiting
    <3> QED BY <1>3, <2>3, <3>1 DEF VisitInv, SeparateInv
  <2> QED BY <1>1, <1>5, <2>1, <2>2, <2>3 DEF VisitInv, SeparateInv
<1>9. CoverInv'
  BY <1>1, <1>5 DEF VisitInv, CoverInv, BelowAny
<1>10. DepthInv'
  <2>1. /\ d \in Paths \ {Root} /\ Depth[d] = Depth[pending[1]] + 1
    BY <1>1, <1>2, TreeAssumption DEF Entries
  <2>2. \A k \in 1..Len(pending) : pending[k] \in Paths /\ Depth[pending[k]] \in Nat
    BY <1>2, ElementOfSeq, TreeAssumption DEF Paths
  <2>3. \A k \in 1..Len(pending) : Depth[pending[k]] <= Depth[pending[1]] + 1
    <3>1. \A k \in 1..Len(pending) : 1 < k => Depth[pending[k]] <= Depth[pending[1]] + 1
      BY <1>1, <1>3 DEF VisitInv, DepthInv
    <3> QED BY <1>3, <2>2, <3>1
  <2>4. ASSUME NEW i \in 1..Len(pending'), NEW j \in 1..Len(pending'), i < j
        PROVE  /\ Depth[pending'[i]] <= Depth[pending'[j]]
               /\ Depth[pending'[j]] <= Depth[pending'[1]] + 1
    <3>1. CASE j = Len(pending')
      BY <1>3, <1>6, <2>1, <2>2, <2>3, <2>4, <3>1
    <3>2. CASE j # Len(pending')
      BY <1>1, <1>3, <1>6, <2>4, <3>2 DEF VisitInv, DepthInv
    <3> QED BY <3>1, <3>2
  <2> QED BY <1>1, <1>6, <2>4 DEF VisitInv, DepthInv
<1>11. BreadthFirst'
  BY <1>1 DEF VisitInv, BreadthFirst
<1> QED BY <1>7, <1>8, <1>9, <1>10, <1>11 DEF VisitInv

\* What an append to the list of what was given makes of it.
LEMMA GivenGrows ==
    ASSUME delivered \in Seq(Paths), NEW f \in Paths,
           delivered' = Append(delivered, f)
    PROVE  /\ delivered' \in Seq(Paths)
           /\ Len(delivered') = Len(delivered) + 1 /\ Len(delivered) \in Nat
           /\ \A i \in 1..Len(delivered) : delivered'[i] = delivered[i]
           /\ delivered'[Len(delivered')] = f
           /\ Given' = Given \cup {f}
<1>1. /\ delivered' \in Seq(Paths)
      /\ Len(delivered') = Len(delivered) + 1 /\ Len(delivered) \in Nat
      /\ \A i \in 1..Len(delivered) : delivered'[i] = delivered[i]
      /\ delivered'[Len(delivered) + 1] = f
  BY AppendProperties, LenProperties
<1>2. 1..Len(delivered') = (1..Len(delivered)) \cup {Len(delivered) + 1}
  BY <1>1
<1> QED BY <1>1, <1>2 DEF Given

\* The types the visit relies on.
LEMMA VisitTypes ==
    TypeOK => /\ Unvisited \subseteq Paths /\ delivered \in Seq(Paths)
              /\ \A i \in 1..Len(delivered) : /\ delivered[i] \in Paths
                                              /\ Depth[delivered[i]] \in Nat
              /\ \A i \in 1..Len(pending) : /\ pending[i] \in Dirs
                                            /\ Depth[pending[i]] \in Nat
<1> SUFFICES ASSUME TypeOK
             PROVE  /\ Unvisited \subseteq Paths /\ delivered \in Seq(Paths)
                    /\ \A i \in 1..Len(delivered) : /\ delivered[i] \in Paths
                                                    /\ Depth[delivered[i]] \in Nat
                    /\ \A i \in 1..Len(pending) : /\ pending[i] \in Dirs
                                                  /\ Depth[pending[i]] \in Nat
  OBVIOUS
<1>1. delivered \in Seq(Files \cup {Root}) /\ pending \in Seq(Dirs) /\ rest \subseteq Paths
  BY DEF TypeOK
<1>2. Files \cup {Root} \subseteq Paths /\ Dirs \subseteq Paths
  BY RootAssumption DEF Paths
<1>3. \A i \in 1..Len(delivered) : delivered[i] \in Paths
  BY <1>1, <1>2, ElementOfSeq
<1>4. \A i \in 1..Len(pending) : pending[i] \in Dirs
  BY <1>1, ElementOfSeq
<1>5. delivered \in Seq(Paths)
  BY <1>1, <1>3, LenProperties, SeqDef
<1>6. Waiting \subseteq Dirs
  <2>1. Len(pending) \in Nat
    BY <1>1, LenProperties
  <2> QED BY <1>4, <2>1 DEF Waiting
<1>7. \A p \in Paths : Depth[p] \in Nat
  BY TreeAssumption
<1> QED BY <1>1, <1>2, <1>3, <1>4, <1>5, <1>6, <1>7 DEF Unvisited

\* A file is given; it is none of those given before, and what is still to
\* visit loses no more than this file.
LEMMA VisitFileInv ==
    ASSUME TypeOK, VisitInv, NEW f \in Files, NEW goOn \in BOOLEAN, VisitFile(f, goOn)
    PROVE  VisitInv'
<1>1. /\ pc = "walk" /\ f \in rest /\ delivered' = Append(delivered, f)
      /\ rest' = rest \ {f} /\ halted' = ~goOn
      /\ pc' = IF goOn THEN "walk" ELSE "done"
      /\ UNCHANGED <<kind, pending, broken, dones>>
  BY DEF VisitFile, Stop
<1>2. /\ pending \in Seq(Dirs) /\ pending # << >> /\ kind = "directory" /\ ~halted
      /\ rest \subseteq Entries(pending[1]) /\ dones = 0
  BY <1>1 DEF TypeOK, VisitInv, PlaceInv
<1>3. f \in Paths
  BY DEF Paths
<1>4. /\ Unvisited \subseteq Paths /\ delivered \in Seq(Paths)
      /\ \A i \in 1..Len(delivered) : delivered[i] \in Paths /\ Depth[delivered[i]] \in Nat
  BY VisitTypes
<1>5. /\ Len(delivered') = Len(delivered) + 1 /\ Len(delivered) \in Nat
      /\ \A i \in 1..Len(delivered) : delivered'[i] = delivered[i]
      /\ delivered'[Len(delivered')] = f
      /\ Given' = Given \cup {f}
  BY <1>1, <1>3, <1>4, GivenGrows
<1>6. f \in Unvisited /\ Separate(Unvisited) /\ rest \cap Waiting = {}
      /\ Given \cap BelowAny(Unvisited) = {}
  BY <1>1, <1>2 DEF VisitInv, SeparateInv, Unvisited
<1>7. Unvisited' = Unvisited \ {f} /\ Waiting' = Waiting
  BY <1>1, <1>6 DEF Unvisited, Waiting
<1>8. /\ Separate(Unvisited \ {f}) /\ f \notin BelowAny(Unvisited \ {f})
      /\ BelowAny(Unvisited \ {f}) \subseteq BelowAny(Unvisited)
      /\ BelowAny(Unvisited) \subseteq BelowAny(Unvisited \ {f}) \cup {f}
  BY <1>4, <1>6, TakeOne
<1>9. BelowAny(Unvisited)' = BelowAny(Unvisited \ {f})
  BY <1>7 DEF BelowAny
<1>10. f \notin Given
  BY <1>3, <1>6, UnderSelf DEF BelowAny
<1>11. PlaceInv'
  BY <1>1, <1>2 DEF PlaceInv
<1>12. SeparateInv'
  <2>1. Separate(Unvisited)'
    BY <1>7, <1>8 DEF Separate
  <2>2. (Given \cap BelowAny(Unvisited) = {})'
    BY <1>5, <1>6, <1>8, <1>9
  <2> QED BY <1>1, <1>6, <1>7, <2>1, <2>2 DEF VisitInv, SeparateInv
<1>13. CoverInv'
  <2>1. Files \subseteq Given \cup BelowAny(Unvisited) \cup BelowAny(broken)
    BY <1>1, <1>2 DEF VisitInv, CoverInv
  <2>2. BelowAny(broken)' = BelowAny(broken)
    BY <1>1 DEF BelowAny
  <2> QED BY <1>5, <1>8, <1>9, <2>1, <2>2 DEF CoverInv
<1>14. Depth[f] = Depth[pending[1]] + 1 /\ Depth[f] \in Nat
  BY <1>1, <1>2, <1>3, TreeAssumption DEF Entries
<1>15. \A i \in 1..Len(delivered) : Depth[delivered[i]] <= Depth[f]
  BY <1>1, <1>14 DEF VisitInv, DepthInv
<1>16. DepthInv'
  <2>1. \A i \in 1..Len(delivered') : Depth[delivered'[i]] <= Depth[f]
    BY <1>4, <1>5, <1>14, <1>15
  <2> QED BY <1>1, <1>14, <2>1 DEF VisitInv, DepthInv
<1>17. BreadthFirst'
  <2> SUFFICES ASSUME NEW i \in 1..Len(delivered'), NEW j \in 1..Len(delivered'), i < j
               PROVE  /\ delivered'[i] # delivered'[j]
                      /\ Depth[delivered'[i]] <= Depth[delivered'[j]]
    BY DEF BreadthFirst
  <2>1. CASE j = Len(delivered')
    BY <1>5, <1>10, <1>15, <2>1 DEF Given
  <2>2. CASE j # Len(delivered')
    BY <1>5, <2>2 DEF VisitInv, BreadthFirst
  <2> QED BY <2>1, <2>2
<1> QED BY <1>11, <1>12, <1>13, <1>16, <1>17 DEF VisitInv

\* The next directory that waits is entered, or none is left; what an error
\* leaves behind lies below the directory that met it.
LEMMA NextPendingInv ==
    ASSUME TypeOK, VisitInv, VisitError \/ DirectoryEnds
    PROVE  VisitInv'
<1>1. /\ pc = "walk" /\ NextPending
      /\ \/ rest = {} /\ broken' = broken
         \/ broken' = broken \cup {Head(pending)}
      /\ UNCHANGED <<kind, delivered, halted, dones>>
  BY DEF VisitError, DirectoryEnds
<1>2. /\ pending \in Seq(Dirs) /\ pending # << >> /\ kind = "directory" /\ ~halted
      /\ rest \subseteq Entries(pending[1]) /\ dones = 0
  BY <1>1 DEF TypeOK, VisitInv, PlaceInv
<1>3. pending' = Tail(pending)
      /\ \A i, j \in 2..Len(pending) : i # j => pending[i] # pending[j]
  BY <1>1 DEF NextPending, VisitInv, SeparateInv
<1>4. /\ pending' \in Seq(Dirs) /\ Len(pending) \in Nat \ {0}
      /\ Len(pending') = Len(pending) - 1
      /\ \A i \in 1..Len(pending') : pending'[i] = pending[i + 1]
      /\ pending' = << >> => Waiting = {} /\ Waiting' = {}
      /\ pending' # << >> =>
             /\ pending[2] \in Waiting /\ pending[2] \in Dirs
             /\ pending'[1] = pending[2]
             /\ Waiting' = Waiting \ {pending[2]}
  BY <1>2, <1>3, TakeFirst
<1>5. Unvisited \subseteq Paths /\ Waiting \subseteq Unvisited
  BY VisitTypes DEF Unvisited
<1>6. Given' = Given
  BY <1>1 DEF Given
<1>7. BelowAny(rest) \subseteq BelowAny(broken') /\ BelowAny(broken) \subseteq BelowAny(broken')
  <2>1. Head(pending) = pending[1] /\ pending[1] \in Paths
    BY <1>2, <1>4, ElementOfSeq DEF Paths
  <2>2. \A e \in rest : Under[e] \subseteq Under[pending[1]]
    BY <1>2, <2>1, EntriesUnder
  <2>3. CASE rest = {}
    BY <1>1, <2>3 DEF BelowAny
  <2>4. CASE broken' = broken \cup {Head(pending)}
    BY <2>1, <2>2, <2>4 DEF BelowAny
  <2> QED BY <1>1, <2>3, <2>4
<1>8. Files \subseteq Given \cup BelowAny(Waiting) \cup BelowAny(broken')
  <2>1. Files \subseteq Given \cup BelowAny(Unvisited) \cup BelowAny(broken)
    BY <1>1, <1>2 DEF VisitInv, CoverInv
  <2>2. BelowAny(Unvisited) = BelowAny(rest) \cup BelowAny(Waiting)
    BY DEF BelowAny, Unvisited
  <2> QED BY <1>7, <2>1, <2>2
<1>9. Separate(Waiting) /\ Given \cap BelowAny(Waiting) = {}
  BY <1>2, <1>5 DEF VisitInv, SeparateInv, Separate, BelowAny
<1>10. BelowAny(broken)' = BelowAny(broken')
  BY DEF BelowAny
<1>11. CASE pending' = << >>
  <2>1. rest' = {} /\ pc' = "done" /\ Unvisited' = {} /\ Len(pending') = 0
    BY <1>1, <1>3, <1>4, <1>11, EmptySeq DEF NextPending, Stop, Unvisited
  <2>2. PlaceInv' /\ SeparateInv' /\ DepthInv' /\ BreadthFirst'
    BY <1>1, <1>2, <1>4, <1>11, <2>1
    DEF VisitInv, PlaceInv, SeparateInv, Separate, DepthInv, BreadthFirst, BelowAny
  <2>3. CoverInv'
    BY <1>4, <1>6, <1>8, <1>10, <1>11 DEF CoverInv, BelowAny
  <2> QED BY <2>2, <2>3 DEF VisitInv
<1>12. CASE pending' # << >>
  <2> DEFINE h == pending[2]
  <2>1. rest' = Entries(h) /\ pc' = "walk"
    BY <1>1, <1>3, <1>12 DEF NextPending
  <2>2. h \in Waiting /\ h \in Dirs /\ pending'[1] = h /\ Waiting' = Waiting \ {h}
    BY <1>4, <1>12
  <2>3. Unvisited' = (Waiting \ {h}) \cup Entries(h)
    BY <2>1, <2>2 DEF Unvisited
  <2>4. Waiting \in SUBSET Paths
    BY <1>5
  <2> HIDE DEF h
  <2>5. /\ Separate(Unvisited') /\ Entries(h) \cap Waiting = {}
        /\ BelowAny(Unvisited') \subseteq BelowAny(Waiting)
        /\ BelowAny(Waiting) \subseteq BelowAny(Unvisited') \cup {h}
    BY <1>9, <2>2, <2>3, <2>4, Descend
  <2>6. BelowAny(Unvisited)' = BelowAny(Unvisited')
    BY DEF BelowAny
  <2>7. PlaceInv'
    BY <1>1, <1>2, <1>12, <2>1, <2>2 DEF PlaceInv
  <2>8. SeparateInv'
    <3>1. Separate(Unvisited)'
      BY <2>5 DEF Separate
    <3>2. (rest \cap Waiting)' = {}
      BY <2>1, <2>2, <2>5
    <3>3. \A i, j \in 2..Len(pending') : i # j => pending'[i] # pending'[j]
      BY <1>3, <1>4
    <3>4. (Given \cap BelowAny(Unvisited))' = {}
      BY <1>6, <1>9, <2>5, <2>6
    <3> QED BY <3>1, <3>2, <3>3, <3>4 DEF SeparateInv
  <2>9. CoverInv'
    <3>1. h \notin Files
      BY <2>2, PathsAssumption
    <3> QED BY <1>6, <1>8, <1>10, <2>5, <2>6, <3>1 DEF CoverInv
  <2>10. DepthInv'
    <3>1. \A i \in 1..Len(pending) : Depth[pending[i]] \in Nat
      BY VisitTypes
    <3>2. 2 \in 1..Len(pending) /\ Depth[pending[1]] <= Depth[h]
      <4>1. Len(pending') \in Nat \ {0}
        BY <1>4, <1>12, EmptySeq
      <4> QED BY <1>1, <1>4, <4>1 DEF VisitInv, DepthInv, h
    <3>3. ASSUME NEW i \in 1..Len(pending'), NEW j \in 1..Len(pending'), i < j
          PROVE  /\ Depth[pending'[i]] <= Depth[pending'[j]]
                 /\ Depth[pending'[j]] <= Depth[h] + 1
      <4>1. /\ i + 1 \in 1..Len(pending) /\ j + 1 \in 1..Len(pending) /\ i + 1 < j + 1
            /\ pending'[i] = pending[i + 1] /\ pending'[j] = pending[j + 1]
        BY <1>4, <3>3
      <4>2. /\ Depth[pending[i + 1]] <= Depth[pending[j + 1]]
            /\ Depth[pending[j + 1]] <= Depth[pending[1]] + 1
        BY <1>1, <4>1 DEF VisitInv, DepthInv
      <4>3. /\ Depth[pending[1]] \in Nat /\ Depth[h] \in Nat
            /\ Depth[pending[j + 1]] \in Nat /\ Depth[pending[1]] <= Depth[h]
        BY <1>4, <3>1, <3>2, <4>1 DEF h
      <4>4. Depth[pending[j + 1]] <= Depth[h] + 1
        BY <4>2, <4>3
      <4> QED BY <4>1, <4>2, <4>4
    <3>4. \A i \in 1..Len(delivered) : Depth[delivered[i]] <= Depth[h] + 1
      <4>1. \A i \in 1..Len(delivered) : /\ Depth[delivered[i]] \in Nat
                                         /\ Depth[delivered[i]] <= Depth[pending[1]] + 1
        BY <1>1, VisitTypes DEF VisitInv, DepthInv
      <4> QED BY <1>4, <3>1, <3>2, <4>1 DEF h
    <3> QED BY <1>1, <2>2, <3>3, <3>4 DEF DepthInv
  <2>11. BreadthFirst'
    BY <1>1 DEF VisitInv, BreadthFirst
  <2> QED BY <2>7, <2>8, <2>9, <2>10, <2>11 DEF VisitInv
<1> QED BY <1>11, <1>12

\* Done has no part in the visit.
LEMMA CallDoneInv ==
    ASSUME VisitInv, CallDone
    PROVE  VisitInv'
<1>1. UNCHANGED <<kind, visiting>> /\ pc = "done" /\ pc' = "ended"
  BY DEF CallDone
<1>2. Waiting' = Waiting /\ Given' = Given /\ Unvisited' = Unvisited
  BY <1>1 DEF visiting, Waiting, Given, Unvisited
<1> QED BY <1>1, <1>2 DEF visiting, VisitInv, PlaceInv, SeparateInv, Separate, CoverInv,
           DepthInv, BreadthFirst, BelowAny

\* Every step of the traversal keeps the invariant of the visit.
LEMMA VisitStepInv ==
    ASSUME TypeOK, VisitInv, [Next]_vars
    PROVE  VisitInv'
<1>1. CASE UNCHANGED vars
  <2>1. UNCHANGED <<kind, pc, pending, rest, delivered, broken, halted, dones>>
    BY <1>1 DEF vars, visiting
  <2>2. Waiting' = Waiting /\ Given' = Given /\ Unvisited' = Unvisited
    BY <2>1 DEF Waiting, Given, Unvisited
  <2>3. PlaceInv' /\ DepthInv' /\ BreadthFirst'
    BY <2>1, <2>2 DEF VisitInv, PlaceInv, DepthInv, BreadthFirst
  <2>4. SeparateInv' /\ CoverInv'
    BY <2>1, <2>2 DEF VisitInv, SeparateInv, Separate, CoverInv, BelowAny
  <2> QED BY <2>3, <2>4 DEF VisitInv
<1>2. CASE CountStep \/ VisitStep
  BY <1>2, CountKeepsVisit, EnterVisitInv, VisitDirInv, VisitFileInv, NextPendingInv,
     CallDoneInv DEF VisitStep
<1> QED BY <1>1, <1>2 DEF Next, CountStep, VisitStep

------------------------------------------------------------------------------
(* The recursion of the count *)

\* The outer calls, and the innermost one.
LEMMA Calls ==
    ASSUME frames \in Seq(Frames), frames # << >>
    PROVE  /\ Outer \in Seq(Frames) /\ Innermost \in Frames
           /\ Len(frames) \in Nat \ {0} /\ Len(Outer) = Len(frames) - 1
           /\ \A i \in 1..Len(Outer) : Outer[i] = frames[i] /\ Outer[i] \in Frames
<1>1. Len(frames) \in Nat \ {0}
  BY EmptySeq
<1>2. \A i \in 1..Len(frames) : frames[i] \in Frames
  BY ElementOfSeq
<1>3. /\ Outer \in Seq(Frames) /\ Len(Outer) = Len(frames) - 1
      /\ \A i \in 1..Len(Outer) : Outer[i] = frames[i]
  <2> DEFINE n == Len(frames) - 1
  <2>1. 1 \in Int /\ n \in Int /\ n >= 0 /\ \A i \in 1..n : frames[i] \in Frames
    BY <1>1, <1>2
  <2> HIDE DEF n
  <2>2. /\ SubSeq(frames, 1, n) \in Seq(Frames)
        /\ Len(SubSeq(frames, 1, n)) = IF 1 <= n THEN n - 1 + 1 ELSE 0
        /\ \A i \in 1..(n - 1 + 1) : SubSeq(frames, 1, n)[i] = frames[1 + i - 1]
    BY ONLY <2>1, SubSeqProperties
  <2>3. Len(SubSeq(frames, 1, n)) = n
    BY <2>1, <2>2
  <2>4. \A i \in 1..n : SubSeq(frames, 1, n)[i] = frames[i]
    BY <2>1, <2>2
  <2>5. Outer = SubSeq(frames, 1, n)
    BY DEF Outer, n
  <2> QED BY <2>2, <2>3, <2>4, <2>5 DEF n
<1>4. \A i \in 1..Len(Outer) : Outer[i] \in Frames
  BY <1>1, <1>2, <1>3
<1> QED BY <1>1, <1>2, <1>3, <1>4 DEF Innermost

\* A call goes on with less to do.
LEMMA CallGoesOn ==
    ASSUME frames \in Seq(Frames), frames # << >>, NEW r \in Frames,
           frames' = Append(Outer, r)
    PROVE  /\ frames' \in Seq(Frames) /\ frames' # << >> /\ Len(frames') = Len(frames)
           /\ \A i \in 1..Len(frames) :
                  frames'[i] = IF i = Len(frames) THEN r ELSE frames[i]
<1>1. /\ Outer \in Seq(Frames) /\ Len(frames) \in Nat \ {0}
      /\ Len(Outer) = Len(frames) - 1
      /\ \A i \in 1..Len(Outer) : Outer[i] = frames[i]
  BY Calls
<1> HIDE DEF Outer
<1>2. /\ frames' \in Seq(Frames) /\ frames' # << >> /\ Len(frames') = Len(Outer) + 1
      /\ \A i \in 1..Len(Outer) : frames'[i] = Outer[i]
      /\ frames'[Len(Outer) + 1] = r
  BY <1>1, AppendProperties
<1> QED BY <1>1, <1>2

\* A call goes on in a subdirectory.
LEMMA CallDescends ==
    ASSUME frames \in Seq(Frames), frames # << >>, NEW r \in Frames, NEW s \in Frames,
           frames' = Outer \o <<r, s>>
    PROVE  /\ frames' \in Seq(Frames) /\ frames' # << >> /\ Len(frames') = Len(frames) + 1
           /\ \A i \in 1..Len(frames') :
                  frames'[i] = IF i = Len(frames) + 1 THEN s
                               ELSE IF i = Len(frames) THEN r ELSE frames[i]
<1>1. /\ Outer \in Seq(Frames) /\ Len(frames) \in Nat \ {0}
      /\ Len(Outer) = Len(frames) - 1
      /\ \A i \in 1..Len(Outer) : Outer[i] = frames[i]
  BY Calls
<1>2. <<r, s>> \in Seq(Frames) /\ Len(<<r, s>>) = 2 /\ <<r, s>>[1] = r /\ <<r, s>>[2] = s
  OBVIOUS
<1> HIDE DEF Outer
<1>3. /\ frames' \in Seq(Frames) /\ Len(frames') = Len(Outer) + 2
      /\ \A i \in 1..(Len(Outer) + 2) :
             frames'[i] = IF i <= Len(Outer) THEN Outer[i] ELSE <<r, s>>[i - Len(Outer)]
  BY <1>1, <1>2, ConcatProperties
<1>4. frames' # << >>
  BY <1>1, <1>3, EmptySeq
<1>5. ASSUME NEW i \in 1..Len(frames')
      PROVE  frames'[i] = IF i = Len(frames) + 1 THEN s
                          ELSE IF i = Len(frames) THEN r ELSE frames[i]
  <2>1. CASE i = Len(frames) + 1
    <3>1. i - Len(Outer) = 2 /\ ~(i <= Len(Outer))
      BY <1>1, <2>1
    <3> QED BY <1>2, <1>3, <2>1, <3>1
  <2>2. CASE i = Len(frames)
    <3>1. i - Len(Outer) = 1 /\ ~(i <= Len(Outer)) /\ i # Len(frames) + 1
      BY <1>1, <2>2
    <3> QED BY <1>2, <1>3, <2>2, <3>1
  <2>3. CASE i # Len(frames) + 1 /\ i # Len(frames)
    BY <1>1, <1>3, <2>3
  <2> QED BY <2>1, <2>2, <2>3
<1> QED BY <1>1, <1>3, <1>4, <1>5

\* With less to do or in a subdirectory, a call is still one of a directory.
LEMMA CallTypes ==
    /\ \A d \in Dirs : Enter(d) \in Frames /\ Enter(d).rest = Entries(d) /\ Enter(d).dir = d
    /\ \A p : Innermost \in Frames =>
           /\ Shorter(p) \in Frames /\ Shorter(p).dir = Innermost.dir
           /\ Shorter(p).rest = Innermost.rest \ {p}
BY DEF Frames, Enter, Shorter, Entries

\* The state stays well formed.
LEMMA TypeStep ==
    ASSUME TypeOK, FramesInv, PlaceInv, [Next]_vars
    PROVE  TypeOK'
<1>1. CASE UNCHANGED vars
  BY <1>1 DEF vars, counting, visiting, TypeOK
<1>2. pc = "count" => frames \in Seq(Frames) /\ frames # << >> /\ Innermost \in Frames
                      /\ Outer \in Seq(Frames)
  BY Calls DEF TypeOK, FramesInv
<1>3. Innermost \in Frames => Innermost.dir \in Dirs /\ Innermost.rest \subseteq Paths \ {Root}
  BY DEF Frames
<1>4. << >> \in Seq(Frames)
  BY EmptySeq
<1>5. CASE CountStart
  <2>1. <<Enter(Root)>> \in Seq(Frames)
    BY CallTypes, RootAssumption
  <2> QED BY <1>4, <1>5, <2>1 DEF CountStart, TypeOK, visiting
<1>6. CASE CountReturn
  BY <1>2, <1>6 DEF CountReturn, Return, TypeOK, visiting
<1>7. CASE CountError
  BY <1>2, <1>3, <1>7 DEF CountError, Return, TypeOK, visiting
<1>8. CASE Initialize \/ PathThrows
  BY <1>8 DEF Initialize, PathThrows, TypeOK, counting, visiting
<1>9. ASSUME NEW f \in Files, CountFile(f) PROVE TypeOK'
  <2>1. frames' \in Seq(Frames)
    BY <1>2, <1>9, CallTypes, CallGoesOn DEF CountFile
  <2> QED BY <1>9, <2>1 DEF CountFile, TypeOK, visiting
<1>10. ASSUME NEW d \in Dirs, CountDir(d) PROVE TypeOK'
  <2>1. frames' \in Seq(Frames)
    BY <1>2, <1>10, CallTypes, CallDescends DEF CountDir
  <2> QED BY <1>10, <2>1 DEF CountDir, TypeOK, visiting
<1>11. CASE EnterMissing \/ EnterFile \/ EnterDirectory
  <2>1. <<Root>> \in Seq(Dirs) /\ <<Root>> \in Seq(Files \cup {Root})
    BY RootAssumption
  <2>2. Entries(Root) \subseteq Paths \ {Root}
    BY DEF Entries
  <2> QED BY <1>11, <2>1, <2>2
          DEF EnterMissing, EnterFile, EnterDirectory, Stop, TypeOK, counting, visiting
<1>12. ASSUME NEW d \in Dirs, VisitDir(d) PROVE TypeOK'
  <2>1. pending' \in Seq(Dirs)
    BY <1>12, AppendProperties DEF VisitDir, TypeOK
  <2> QED BY <1>12, <2>1 DEF VisitDir, TypeOK, counting
<1>13. ASSUME NEW f \in Files, NEW goOn \in BOOLEAN, VisitFile(f, goOn) PROVE TypeOK'
  <2>1. delivered' \in Seq(Files \cup {Root})
    BY <1>13, AppendProperties DEF VisitFile, TypeOK
  <2> QED BY <1>13, <2>1 DEF VisitFile, Stop, TypeOK, counting
<1>14. CASE VisitError \/ DirectoryEnds
  <2>1. pending \in Seq(Dirs) /\ pending # << >>
    BY <1>14 DEF VisitError, DirectoryEnds, TypeOK, PlaceInv
  <2>2. pending' \in Seq(Dirs) /\ Head(pending) \in Dirs
    BY <1>14, <2>1, HeadTailProperties DEF VisitError, DirectoryEnds, NextPending
  <2>3. rest' \subseteq Paths \ {Root}
    BY <1>14 DEF VisitError, DirectoryEnds, NextPending, Entries
  <2> QED BY <1>14, <2>2, <2>3
          DEF VisitError, DirectoryEnds, NextPending, Stop, TypeOK, counting
<1>15. CASE CallDone
  BY <1>15 DEF CallDone, TypeOK, PlaceInv, counting, visiting
<1> QED BY <1>1, <1>5, <1>6, <1>7, <1>8, <1>9, <1>10, <1>11, <1>12, <1>13, <1>14, <1>15
       DEF Next

\* What is still to be counted lies in the tree; the innermost call's share of
\* it is its own.
LEMMA Shares ==
    ASSUME TypeOK, FramesInv, UncountedInv, pc = "count"
    PROVE  /\ frames \in Seq(Frames) /\ frames # << >> /\ Len(frames) \in Nat \ {0}
           /\ Innermost = frames[Len(frames)] /\ Innermost \in Frames
           /\ Innermost.rest \subseteq Uncounted /\ Uncounted \subseteq Paths \ {Root}
           /\ Innermost.rest \subseteq Entries(Innermost.dir)
           /\ \A i \in 1..Len(frames) :
                  i # Len(frames) => frames[i].rest \cap Innermost.rest = {}
<1>1. frames \in Seq(Frames) /\ frames # << >>
  BY DEF TypeOK, FramesInv
<1>2. Len(frames) \in Nat \ {0} /\ Innermost \in Frames
  BY <1>1, Calls
<1>3. \A i \in 1..Len(frames) : frames[i] \in Frames
  BY <1>1, ElementOfSeq
<1>4. Innermost.rest \subseteq Uncounted /\ Uncounted \subseteq Paths \ {Root}
  BY <1>2, <1>3 DEF Uncounted, Innermost, Frames
<1> QED BY <1>1, <1>2, <1>4 DEF Innermost, FramesInv, UncountedInv

\* A file is counted once.
LEMMA CountFileInv ==
    ASSUME TypeOK, CountInv, NEW f \in Files, CountFile(f)
    PROVE  CountInv'
<1>1. /\ pc = "count" /\ f \in Innermost.rest /\ frames' = Append(Outer, Shorter(f))
      /\ count' = count + 1 /\ UNCHANGED <<kind, pc, cut>>
  BY DEF CountFile
<1>2. FramesInv /\ UncountedInv /\ NumberInv
  BY DEF CountInv
<1>3. /\ frames \in Seq(Frames) /\ frames # << >> /\ Len(frames) \in Nat \ {0}
      /\ Innermost = frames[Len(frames)] /\ Innermost \in Frames
      /\ Innermost.rest \subseteq Uncounted /\ Uncounted \subseteq Paths \ {Root}
      /\ Innermost.rest \subseteq Entries(Innermost.dir)
      /\ \A i \in 1..Len(frames) :
             i # Len(frames) => frames[i].rest \cap Innermost.rest = {}
  BY <1>1, <1>2, Shares
<1>4. /\ Shorter(f) \in Frames /\ Shorter(f).dir = Innermost.dir
      /\ Shorter(f).rest = Innermost.rest \ {f}
  BY <1>3, CallTypes
<1>5. /\ frames' \in Seq(Frames) /\ frames' # << >> /\ Len(frames') = Len(frames)
      /\ \A i \in 1..Len(frames) :
             frames'[i] = IF i = Len(frames) THEN Shorter(f) ELSE frames[i]
  BY <1>1, <1>3, <1>4, CallGoesOn
<1>6. Uncounted' = Uncounted \ {f}
  <2>1. \A i \in 1..Len(frames) : frames'[i].rest = frames[i].rest \ {f}
    BY <1>1, <1>3, <1>4, <1>5
  <2>2. \A x : x \in Uncounted <=> \E i \in 1..Len(frames) : x \in frames[i].rest
    BY DEF Uncounted
  <2>3. \A x : x \in Uncounted' <=> \E i \in 1..Len(frames) : x \in frames'[i].rest
    BY <1>5 DEF Uncounted
  <2> QED BY <2>1, <2>2, <2>3
<1>7. /\ Separate(Uncounted \ {f}) /\ f \notin BelowAny(Uncounted \ {f})
      /\ BelowAny(Uncounted \ {f}) \subseteq BelowAny(Uncounted)
      /\ BelowAny(Uncounted) \subseteq BelowAny(Uncounted \ {f}) \cup {f}
      /\ f \in BelowAny(Uncounted)
  <2>1. Uncounted \in SUBSET Paths /\ f \in Uncounted /\ Separate(Uncounted)
    BY <1>1, <1>2, <1>3 DEF UncountedInv
  <2>2. f \in BelowAny(Uncounted)
    BY <2>1, UnderSelf DEF BelowAny
  <2> QED BY <2>1, <2>2, TakeOne
<1>8. FramesInv'
  BY <1>1, <1>2, <1>3, <1>4, <1>5 DEF FramesInv
<1>9. UncountedInv'
  <2>1. Separate(Uncounted)'
    BY <1>6, <1>7 DEF Separate
  <2>2. \A i \in 1..Len(frames) : frames'[i].rest \subseteq frames[i].rest
    BY <1>3, <1>4, <1>5
  <2> QED BY <1>2, <1>5, <2>1, <2>2 DEF UncountedInv
<1>10. NumberInv'
  <2>1. kind = "directory"
    BY <1>1, <1>2 DEF FramesInv
  <2>2. PICK counted \in SUBSET Files :
            /\ count = Cardinality(counted)
            /\ counted \cap BelowAny(Uncounted) = {}
            /\ Files \subseteq counted \cup BelowAny(Uncounted) \cup BelowAny(cut)
    BY <1>1, <1>2, <2>1 DEF NumberInv
  <2> DEFINE more == counted \cup {f}
  <2>3. more \in SUBSET Files
    OBVIOUS
  <2>4. count' = Cardinality(more)
    <3>1. IsFiniteSet(counted) /\ f \notin counted
      BY <1>7, <2>2, PathsAssumption, FS_Subset
    <3> QED BY <1>1, <2>2, <3>1, FS_AddElement
  <2>5. BelowAny(Uncounted)' = BelowAny(Uncounted \ {f}) /\ BelowAny(cut)' = BelowAny(cut)
    BY <1>1, <1>6 DEF BelowAny
  <2>6. more \cap BelowAny(Uncounted)' = {}
    BY <1>7, <2>2, <2>5
  <2>7. Files \subseteq more \cup BelowAny(Uncounted)' \cup BelowAny(cut)'
    BY <1>7, <2>2, <2>5
  <2> HIDE DEF more
  <2> QED BY <2>3, <2>4, <2>6, <2>7 DEF NumberInv
<1> QED BY <1>8, <1>9, <1>10 DEF CountInv

\* A subdirectory's entries take its place.
LEMMA CountDirInv ==
    ASSUME TypeOK, CountInv, NEW d \in Dirs, CountDir(d)
    PROVE  CountInv'
<1>1. /\ pc = "count" /\ d \in Innermost.rest
      /\ frames' = Outer \o <<Shorter(d), Enter(d)>>
      /\ UNCHANGED <<kind, pc, count, cut>>
  BY DEF CountDir
<1>2. FramesInv /\ UncountedInv /\ NumberInv
  BY DEF CountInv
<1>3. /\ frames \in Seq(Frames) /\ frames # << >> /\ Len(frames) \in Nat \ {0}
      /\ Innermost = frames[Len(frames)] /\ Innermost \in Frames
      /\ Innermost.rest \subseteq Uncounted /\ Uncounted \subseteq Paths \ {Root}
      /\ Innermost.rest \subseteq Entries(Innermost.dir)
      /\ \A i \in 1..Len(frames) :
             i # Len(frames) => frames[i].rest \cap Innermost.rest = {}
  BY <1>1, <1>2, Shares
<1>4. /\ Shorter(d) \in Frames /\ Shorter(d).dir = Innermost.dir
      /\ Shorter(d).rest = Innermost.rest \ {d}
      /\ Enter(d) \in Frames /\ Enter(d).rest = Entries(d) /\ Enter(d).dir = d
  BY <1>3, CallTypes
<1>5. /\ frames' \in Seq(Frames) /\ frames' # << >> /\ Len(frames') = Len(frames) + 1
      /\ \A i \in 1..Len(frames') :
             frames'[i] = IF i = Len(frames) + 1 THEN Enter(d)
                          ELSE IF i = Len(frames) THEN Shorter(d) ELSE frames[i]
  BY <1>1, <1>3, <1>4, CallDescends
<1>6. \A i \in 1..Len(frames) : frames'[i].rest = frames[i].rest \ {d}
  BY <1>1, <1>3, <1>4, <1>5
<1>7. frames'[Len(frames) + 1].rest = Entries(d)
  BY <1>3, <1>4, <1>5
<1>8. Uncounted' = (Uncounted \ {d}) \cup Entries(d)
  <2>1. 1..Len(frames') = (1..Len(frames)) \cup {Len(frames) + 1}
    BY <1>3, <1>5
  <2>2. \A x : x \in Uncounted <=> \E i \in 1..Len(frames) : x \in frames[i].rest
    BY DEF Uncounted
  <2>3. \A x : x \in Uncounted' <=> \E i \in 1..Len(frames') : x \in frames'[i].rest
    BY DEF Uncounted
  <2>4. \A x : x \in Uncounted' <=> \/ \E i \in 1..Len(frames) : x \in frames'[i].rest
                                    \/ x \in frames'[Len(frames) + 1].rest
    BY <2>1, <2>3
  <2> QED BY <1>6, <1>7, <2>2, <2>4
<1>9. /\ Separate(Uncounted') /\ Entries(d) \cap Uncounted = {}
      /\ BelowAny(Uncounted') \subseteq BelowAny(Uncounted)
      /\ BelowAny(Uncounted) \subseteq BelowAny(Uncounted') \cup {d}
  <2>1. Uncounted \in SUBSET Paths /\ d \in Uncounted /\ Separate(Uncounted)
    BY <1>1, <1>2, <1>3 DEF UncountedInv
  <2> QED BY <1>8, <2>1, Descend
<1>10. FramesInv'
  <2>1. \A i \in 1..Len(frames') : frames'[i].rest \subseteq Entries(frames'[i].dir)
    BY <1>2, <1>3, <1>4, <1>5 DEF FramesInv
  <2> QED BY <1>1, <1>2, <1>5, <2>1 DEF FramesInv
<1>11. UncountedInv'
  <2>1. Separate(Uncounted)'
    BY <1>9 DEF Separate
  <2>2. \A i \in 1..Len(frames) : frames[i].rest \subseteq Uncounted
    BY DEF Uncounted
  <2>3. \A i, j \in 1..Len(frames) : i # j => frames[i].rest \cap frames[j].rest = {}
    BY <1>2 DEF UncountedInv
  <2>4. ASSUME NEW i \in 1..Len(frames'), NEW j \in 1..Len(frames'), i # j
        PROVE  frames'[i].rest \cap frames'[j].rest = {}
    <3>1. \A k \in 1..Len(frames') : k = Len(frames) + 1 \/ k \in 1..Len(frames)
      BY <1>3, <1>5
    <3>2. CASE i = Len(frames) + 1
      BY <1>6, <1>7, <1>9, <2>2, <2>4, <3>1, <3>2
    <3>3. CASE j = Len(frames) + 1
      BY <1>6, <1>7, <1>9, <2>2, <2>4, <3>1, <3>3
    <3>4. CASE i \in 1..Len(frames) /\ j \in 1..Len(frames)
      BY <1>6, <2>3, <2>4, <3>4
    <3> QED BY <3>1, <3>2, <3>3, <3>4
  <2> QED BY <2>1, <2>4 DEF UncountedInv
<1>12. NumberInv'
  <2>1. kind = "directory" /\ d \notin Files
    BY <1>1, <1>2, PathsAssumption DEF FramesInv
  <2>2. PICK counted \in SUBSET Files :
            /\ count = Cardinality(counted)
            /\ counted \cap BelowAny(Uncounted) = {}
            /\ Files \subseteq counted \cup BelowAny(Uncounted) \cup BelowAny(cut)
    BY <1>1, <1>2, <2>1 DEF NumberInv
  <2>3. BelowAny(Uncounted)' = BelowAny(Uncounted') /\ BelowAny(cut)' = BelowAny(cut)
    BY <1>1 DEF BelowAny
  <2>4. /\ count' = Cardinality(counted)
        /\ counted \cap BelowAny(Uncounted)' = {}
        /\ Files \subseteq counted \cup BelowAny(Uncounted)' \cup BelowAny(cut)'
    BY <1>1, <1>9, <2>1, <2>2, <2>3
  <2> QED BY <2>4 DEF NumberInv
<1> QED BY <1>10, <1>11, <1>12 DEF CountInv

\* The innermost call returns; what an error makes it leave out lies below its
\* directory.
LEMMA CountReturnInv ==
    ASSUME TypeOK, CountInv, CountReturn \/ CountError
    PROVE  CountInv'
<1>1. /\ pc = "count" /\ frames' = Outer /\ UNCHANGED <<kind, count>>
      /\ pc' = IF Outer = << >> THEN "initialize" ELSE "count"
      /\ \/ Innermost.rest = {} /\ cut' = cut
         \/ cut' = cut \cup {Innermost.dir}
  BY DEF CountReturn, CountError, Return
<1>2. FramesInv /\ UncountedInv /\ NumberInv
  BY DEF CountInv
<1>3. /\ frames \in Seq(Frames) /\ frames # << >> /\ Len(frames) \in Nat \ {0}
      /\ Innermost = frames[Len(frames)] /\ Innermost \in Frames
      /\ Innermost.rest \subseteq Uncounted /\ Uncounted \subseteq Paths \ {Root}
      /\ Innermost.rest \subseteq Entries(Innermost.dir)
      /\ \A i \in 1..Len(frames) :
             i # Len(frames) => frames[i].rest \cap Innermost.rest = {}
  BY <1>1, <1>2, Shares
<1>4. /\ Len(frames') = Len(frames) - 1
      /\ \A i \in 1..Len(frames') : frames'[i] = frames[i]
  BY <1>1, <1>3, Calls
<1>5. Uncounted' = Uncounted \ Innermost.rest
  <2>1. \A x : x \in Uncounted <=> \E i \in 1..Len(frames) : x \in frames[i].rest
    BY DEF Uncounted
  <2>2. \A x : x \in Uncounted' <=> \E i \in 1..Len(frames') : x \in frames'[i].rest
    BY DEF Uncounted
  <2>3. \A i : i \in 1..Len(frames') <=> i \in 1..Len(frames) /\ i # Len(frames)
    BY <1>3, <1>4
  <2> QED BY <1>3, <1>4, <2>1, <2>2, <2>3
<1>6. FramesInv'
  BY <1>1, <1>2, <1>3, <1>4 DEF FramesInv
<1>7. UncountedInv'
  <2>1. Separate(Uncounted)'
    BY <1>2, <1>5 DEF UncountedInv, Separate
  <2> QED BY <1>2, <1>3, <1>4, <2>1 DEF UncountedInv
<1>8. NumberInv'
  <2>1. kind = "directory" /\ Innermost.dir \in Paths
    BY <1>1, <1>2, <1>3 DEF FramesInv, Frames, Paths
  <2>2. PICK counted \in SUBSET Files :
            /\ count = Cardinality(counted)
            /\ counted \cap BelowAny(Uncounted) = {}
            /\ Files \subseteq counted \cup BelowAny(Uncounted) \cup BelowAny(cut)
    BY <1>1, <1>2, <2>1 DEF NumberInv
  <2>3. BelowAny(Uncounted)' = BelowAny(Uncounted') /\ BelowAny(cut)' = BelowAny(cut')
    BY DEF BelowAny
  <2>4. BelowAny(Uncounted') \subseteq BelowAny(Uncounted)
    BY <1>5 DEF BelowAny
  <2>5. BelowAny(Uncounted) \subseteq BelowAny(Uncounted') \cup BelowAny(Innermost.rest)
    BY <1>5 DEF BelowAny
  <2>6. BelowAny(Innermost.rest) \subseteq BelowAny(cut') /\ BelowAny(cut) \subseteq BelowAny(cut')
    <3>1. \A e \in Innermost.rest : Under[e] \subseteq Under[Innermost.dir]
      BY <1>3, <2>1, EntriesUnder
    <3>2. CASE Innermost.rest = {} /\ cut' = cut
      BY <3>2 DEF BelowAny
    <3>3. CASE cut' = cut \cup {Innermost.dir}
      BY <3>1, <3>3 DEF BelowAny
    <3> QED BY <1>1, <3>2, <3>3
  <2>7. /\ count' = Cardinality(counted)
        /\ counted \cap BelowAny(Uncounted)' = {}
        /\ Files \subseteq counted \cup BelowAny(Uncounted)' \cup BelowAny(cut)'
    BY <1>1, <2>2, <2>3, <2>4, <2>5, <2>6
  <2> QED BY <2>7 DEF NumberInv
<1> QED BY <1>6, <1>7, <1>8 DEF CountInv

\* The count begins with nothing counted and all below the initial path ahead.
LEMMA CountStartInv ==
    ASSUME TypeOK, CountInv, CountStart
    PROVE  CountInv'
<1>1. cut' = {} /\ kind' = kind
  BY DEF CountStart, CountInv, FramesInv
<1>2. CASE kind = "directory"
  <2>1. frames' = <<Enter(Root)>> /\ pc' = "count" /\ count' = 0
    BY <1>2 DEF CountStart
  <2>2. /\ Len(frames') = 1 /\ frames'[1] = Enter(Root) /\ frames' # << >>
        /\ Enter(Root).rest = Entries(Root) /\ Enter(Root).dir = Root
    BY <2>1, EmptySeq, CallTypes, RootAssumption
  <2>3. Uncounted' = Entries(Root)
    BY <2>2 DEF Uncounted
  <2>4. Separate(Entries(Root)) /\ Files \subseteq BelowAny(Entries(Root))
    <3>1. Separate({Root}) /\ Root \in Paths /\ Files \subseteq BelowAny({Root})
      BY RootAssumption, TreeAssumption DEF Separate, BelowAny, Paths
    <3>2. ({Root} \ {Root}) \cup Entries(Root) = Entries(Root)
      OBVIOUS
    <3>3. Root \notin Files
      BY RootAssumption, PathsAssumption
    <3> QED BY <3>1, <3>2, <3>3, Descend
  <2>5. FramesInv' /\ UncountedInv'
    BY <1>1, <1>2, <2>1, <2>2, <2>3, <2>4 DEF FramesInv, UncountedInv, Separate
  <2>6. NumberInv'
    <3>1. BelowAny(Uncounted)' = BelowAny(Entries(Root))
      BY <2>3 DEF BelowAny
    <3>2. {} \in SUBSET Files /\ count' = Cardinality({})
      BY <2>1, FS_EmptySet
    <3> QED BY <2>4, <3>1, <3>2 DEF NumberInv
  <2> QED BY <2>5, <2>6 DEF CountInv
<1>3. CASE kind # "directory"
  <2>1. frames' = << >> /\ pc' = "initialize"
    BY <1>3 DEF CountStart
  <2>2. Len(frames') = 0 /\ Uncounted' = {}
    BY <2>1, EmptySeq DEF Uncounted
  <2> QED BY <1>1, <1>3, <2>1, <2>2
          DEF CountInv, FramesInv, UncountedInv, Separate, NumberInv
<1> QED BY <1>2, <1>3

\* Nothing else has a part in the count.
LEMMA OthersKeepCount ==
    ASSUME CountInv, UNCHANGED <<kind, counting>>, pc' # "start" \/ pc' = pc,
           pc = "count" <=> pc' = "count",
           pc' \notin {"start", "thrown"} => pc \notin {"start", "thrown"}
    PROVE  CountInv'
<1>1. UNCHANGED <<kind, frames, count, cut>>
  BY DEF counting
<1>2. Uncounted' = Uncounted
  BY <1>1 DEF Uncounted
<1>3. FramesInv' /\ UncountedInv'
  BY <1>1, <1>2 DEF CountInv, FramesInv, UncountedInv, Separate
<1>4. NumberInv'
  BY <1>1, <1>2 DEF CountInv, NumberInv, BelowAny
<1> QED BY <1>3, <1>4 DEF CountInv

\* Every step of the traversal keeps the invariant of the count.
LEMMA CountStepInv ==
    ASSUME TypeOK, CountInv, [Next]_vars
    PROVE  CountInv'
<1>1. CASE UNCHANGED vars
  BY <1>1, OthersKeepCount DEF vars
<1>2. CASE VisitStep \/ Initialize \/ PathThrows
  BY <1>2, OthersKeepCount
  DEF VisitStep, Initialize, PathThrows, EnterMissing, EnterFile, EnterDirectory, VisitDir,
      VisitFile, VisitError, DirectoryEnds, NextPending, CallDone, Stop
<1> QED BY <1>1, <1>2, CountStartInv, CountReturnInv, CountFileInv, CountDirInv
        DEF Next, VisitStep

------------------------------------------------------------------------------
(* The properties *)

\* Nothing has begun, whatever the initial path is.
LEMMA InitInv == Init => DInv
<1> SUFFICES ASSUME Init PROVE DInv
  OBVIOUS
<1>1. NotBegun
  BY DEF Init, NotBegun, Early
<1>2. Len(frames) = 0 /\ Uncounted = {}
  BY EmptySeq DEF Init, Uncounted
<1>3. CountInv
  BY <1>2 DEF Init, CountInv, FramesInv, UncountedInv, Separate, NumberInv
<1>4. TypeOK
  BY EmptySeq DEF Init, TypeOK
<1> QED BY <1>1, <1>3, <1>4, EarlyVisitInv DEF DInv

\* The invariant of the traversal: what is counted, given and still ahead make
\* up the tree, but for what an error hides.
THEOREM Invariance == Spec => []DInv
<1>1. DInv /\ [Next]_vars => DInv'
  BY TypeStep, CountStepInv, VisitStepInv DEF DInv, CountInv, VisitInv
<1> QED BY <1>1, InitInv, PTL DEF Spec

\* The state is well formed; in particular Done is never called twice.
THEOREM TypeCorrect == Spec => []TypeOK
<1>1. DInv => TypeOK
  BY DEF DInv
<1> QED BY <1>1, Invariance, PTL

\* No file is progressed twice, and files come in the order of their depth.
THEOREM NearestFirst == Spec => []BreadthFirst
<1>1. DInv => BreadthFirst
  BY DEF DInv, VisitInv
<1> QED BY <1>1, Invariance, PTL

\* An error in a directory costs no file that does not lie below it.
THEOREM VisitContained == Spec => []ErrorsContained
<1>1. DInv => ErrorsContained
  BY DEF DInv, VisitInv, PlaceInv, CoverInv, ErrorsContained, BelowAny
<1> QED BY <1>1, Invariance, PTL

\* Nor does it hide from the count any file that does not lie below it.
THEOREM NumberContained == Spec => []CountContained
<1>1. DInv => CountContained
  <2> SUFFICES ASSUME DInv, kind = "directory", pc \notin {"start", "count", "thrown"}
               PROVE  /\ count <= Cardinality(Files)
                      /\ count >= Cardinality(Files \ BelowAny(cut))
    BY DEF CountContained
  <2>1. frames = << >> /\ Uncounted = {}
    BY EmptySeq DEF DInv, CountInv, FramesInv, Uncounted
  <2>2. PICK counted \in SUBSET Files :
            /\ count = Cardinality(counted)
            /\ Files \subseteq counted \cup BelowAny(Uncounted) \cup BelowAny(cut)
    BY DEF DInv, CountInv, NumberInv
  <2>3. Files \ BelowAny(cut) \subseteq counted
    BY <2>1, <2>2 DEF BelowAny
  <2>4. IsFiniteSet(Files) /\ IsFiniteSet(counted)
    BY <2>2, PathsAssumption, FS_Subset
  <2>5. /\ Cardinality(counted) \in Nat /\ Cardinality(Files) \in Nat
        /\ Cardinality(Files \ BelowAny(cut)) \in Nat
        /\ Cardinality(counted) <= Cardinality(Files)
        /\ Cardinality(Files \ BelowAny(cut)) <= Cardinality(counted)
    BY <2>2, <2>3, <2>4, FS_Subset, FS_CardinalityType
  <2> QED BY <2>2, <2>5
<1> QED BY <1>1, Invariance, PTL

\* Once Progress has said false it is not called again.
THEOREM HaltObeyed == Spec => HaltIsFinal
<1>1. DInv /\ [Next]_vars => (halted => delivered' = delivered)
  <2> SUFFICES ASSUME DInv, [Next]_vars, halted PROVE delivered' = delivered
    OBVIOUS
  <2>1. pc \notin Early /\ pc # "walk"
    BY DEF DInv, VisitInv, PlaceInv, Early
  <2> QED BY <2>1 DEF Next, vars, visiting, Early, CountStart, CountReturn, CountError,
           Initialize, PathThrows, CountFile, CountDir, EnterMissing, EnterFile,
           EnterDirectory, VisitDir, VisitFile, VisitError, DirectoryEnds, CallDone
<1> QED BY <1>1, Invariance, PTL DEF Spec, HaltIsFinal

------------------------------------------------------------------------------
(* The refinement of Traversal *)

Visiting == {"walk", "done", "ended"}

AheadFacts ==
    /\ kind = "missing" => Ahead = {}
    /\ kind = "file" => Ahead = IF delivered = << >> THEN {Root} ELSE {}
    /\ kind = "directory" /\ pc \in Early => Ahead = Files
    /\ kind = "directory" /\ pc \in Visiting => Ahead = Files \cap BelowAny(Unvisited)
    /\ Ahead \subseteq Paths

\* What is ahead, for each kind of initial path.
LEMMA AheadIs == TypeOK => AheadFacts
<1> SUFFICES ASSUME TypeOK PROVE AheadFacts
  OBVIOUS
<1>1. kind = "missing" => Ahead = {}
  BY DEF Ahead
<1>2. kind = "file" => Ahead = IF delivered = << >> THEN {Root} ELSE {}
  BY DEF Ahead
<1>3. kind = "directory" =>
          Ahead = IF pc \in {"start", "count", "initialize", "enter", "thrown"} THEN Files
                  ELSE Files \cap BelowAny(Unvisited)
  BY DEF Ahead
<1>4. kind \in {"missing", "file", "directory"}
  BY DEF TypeOK
<1>5. Ahead \subseteq Paths
  BY <1>1, <1>2, <1>3, <1>4, RootAssumption DEF Paths
<1> QED BY <1>1, <1>2, <1>3, <1>5 DEF AheadFacts, Early, Visiting

\* A step that has no part in what is ahead and does not end the traversal.
LEMMA Stutters ==
    ASSUME pc \notin {"ended", "thrown"}, pc' \notin {"ended", "thrown"},
           Ahead' = Ahead, UNCHANGED <<delivered, halted>>
    PROVE  UNCHANGED Abstract!vars
<1>1. Phase' = Phase
  BY DEF Phase
<1> QED BY <1>1 DEF Abstract!vars

\* The steps of the count do not concern the traversal, or it dies.
LEMMA CountRefines ==
    ASSUME DInv, DInv', CountStep
    PROVE  [Abstract!Next]_Abstract!vars
<1>1. pc \in Early /\ pc' \in Early /\ UNCHANGED <<kind, visiting, dones>> /\ pc # "thrown"
  BY DEF CountStep, CountStart, CountReturn, CountError, Initialize, PathThrows,
         CountFile, CountDir, Return, Early
<1>2. /\ kind = "directory" => Ahead = Files
      /\ kind = "file" => Ahead = IF delivered = << >> THEN {Root} ELSE {}
      /\ kind = "missing" => Ahead = {}
  BY <1>1, AheadIs DEF DInv, AheadFacts
<1>3. /\ kind' = "directory" => Ahead' = Files
      /\ kind' = "file" => Ahead' = IF delivered' = << >> THEN {Root} ELSE {}
      /\ kind' = "missing" => Ahead' = {}
  <2>1. TypeOK'
    BY DEF DInv
  <2>2. AheadFacts'
    BY <2>1, AheadIs, PTL
  <2> QED BY <1>1, <2>2 DEF AheadFacts
<1>4. Ahead' = Ahead /\ UNCHANGED <<delivered, halted>>
  BY <1>1, <1>2, <1>3 DEF DInv, TypeOK, visiting
<1>5. CASE pc' = "thrown"
  <2>1. Phase = "running" /\ Phase' = "dead"
    BY <1>1, <1>5 DEF Phase, Early, DInv, VisitInv, PlaceInv
  <2> QED BY <1>4, <2>1 DEF Abstract!Next, Abstract!Die
<1>6. CASE pc' # "thrown"
  BY <1>1, <1>4, <1>6, Stutters DEF Early
<1> QED BY <1>5, <1>6

\* Entering the initial path delivers it or sets out to visit it.
LEMMA EnterRefines ==
    ASSUME DInv, DInv', EnterMissing \/ EnterFile \/ EnterDirectory
    PROVE  [Abstract!Next]_Abstract!vars
<1>1. pc = "enter" /\ ~halted /\ delivered = << >>
  BY DEF EnterMissing, EnterFile, EnterDirectory, DInv, VisitInv, PlaceInv
<1>2. /\ kind = "directory" => Ahead = Files
      /\ kind = "file" => Ahead = {Root}
      /\ kind = "missing" => Ahead = {}
  BY <1>1, AheadIs DEF DInv, AheadFacts, Early
<1>3. /\ kind' = "directory" /\ pc' \in Visiting => Ahead' = Files \cap BelowAny(Unvisited)'
      /\ kind' = "file" => Ahead' = IF delivered' = << >> THEN {Root} ELSE {}
      /\ kind' = "missing" => Ahead' = {}
  <2>1. TypeOK'
    BY DEF DInv
  <2>2. AheadFacts'
    BY <2>1, AheadIs, PTL
  <2> QED BY <2>2 DEF AheadFacts
<1>4. CASE EnterMissing
  BY <1>1, <1>2, <1>3, <1>4, Stutters DEF EnterMissing, Stop, visiting
<1>5. CASE EnterFile
  <2>1. Ahead' = {} /\ delivered' = Append(delivered, Root)
    BY <1>1, <1>3, <1>5 DEF EnterFile
  <2>2. Phase = "running" /\ Phase' = "running"
    BY <1>1, <1>5 DEF EnterFile, Stop, Phase
  <2>3. Abstract!Deliver(Root, TRUE)
    BY <1>2, <1>5, <2>1, <2>2 DEF Abstract!Deliver, EnterFile
  <2> QED BY <2>3, RootAssumption DEF Abstract!Next, Paths
<1>6. CASE EnterDirectory
  <2>1. delivered' = << >> /\ broken' = {} /\ halted' = halted /\ pc' = "walk"
        /\ kind = "directory" /\ kind' = "directory"
    BY <1>1, <1>6 DEF EnterDirectory, DInv, VisitInv, PlaceInv
  <2>2. Given' = {} /\ BelowAny(broken)' = {}
    BY <2>1, EmptySeq DEF Given, BelowAny
  <2>3. Files \subseteq BelowAny(Unvisited)'
    BY <2>1, <2>2 DEF DInv, VisitInv, CoverInv
  <2>4. Ahead' = Ahead
    BY <1>2, <1>3, <2>1, <2>3 DEF Visiting
  <2> QED BY <1>1, <2>1, <2>4, Stutters
<1> QED BY <1>4, <1>5, <1>6

\* The visit delivers a file, or changes nothing, or loses what an error hides;
\* at its end nothing is ahead unless it was halted.
LEMMA VisitRefines ==
    ASSUME DInv, DInv',
           \/ \E d \in Dirs : VisitDir(d)
           \/ \E f \in Files, goOn \in BOOLEAN : VisitFile(f, goOn)
           \/ VisitError \/ DirectoryEnds
    PROVE  [Abstract!Next]_Abstract!vars
<1>1. pc = "walk" /\ ~halted /\ kind = "directory" /\ kind' = kind /\ pc' \in {"walk", "done"}
  BY DEF VisitDir, VisitFile, VisitError, DirectoryEnds, NextPending, Stop, DInv, VisitInv,
         PlaceInv
<1>2. Ahead = Files \cap BelowAny(Unvisited) /\ Ahead \subseteq Paths
  BY <1>1, AheadIs DEF DInv, AheadFacts, Visiting
<1>3. Ahead' = Files \cap BelowAny(Unvisited)'
  <2>1. TypeOK' /\ kind' = "directory" /\ pc' \in Visiting
    BY <1>1 DEF DInv, Visiting
  <2>2. AheadFacts'
    BY <2>1, AheadIs, PTL
  <2> QED BY <1>1, <2>1, <2>2 DEF AheadFacts
<1>4. Phase = "running"
  BY <1>1 DEF Phase
<1>5. ASSUME NEW d \in Dirs, VisitDir(d) PROVE UNCHANGED Abstract!vars
  <2>1. pending \in Seq(Dirs) /\ pending # << >>
    BY <1>1 DEF DInv, TypeOK, VisitInv, PlaceInv
  <2>2. Waiting' = Waiting \cup {d} /\ rest' = rest \ {d} /\ d \in rest
    BY <1>5, <2>1, PutLast DEF VisitDir
  <2>3. Unvisited' = Unvisited
    BY <2>2 DEF Unvisited
  <2>4. Ahead' = Ahead
    BY <1>2, <1>3, <2>3 DEF BelowAny
  <2> QED BY <1>1, <1>5, <2>4, Stutters DEF VisitDir
<1>6. ASSUME NEW f \in Files, NEW goOn \in BOOLEAN, VisitFile(f, goOn)
      PROVE  Abstract!Deliver(f, goOn)
  <2>1. f \in rest /\ rest \cap Waiting = {} /\ Separate(Unvisited)
    BY <1>6 DEF VisitFile, DInv, VisitInv, SeparateInv
  <2>2. Unvisited' = Unvisited \ {f} /\ f \in Unvisited
    BY <1>6, <2>1 DEF VisitFile, Unvisited, Waiting
  <2>3. /\ f \notin BelowAny(Unvisited \ {f})
        /\ BelowAny(Unvisited \ {f}) \subseteq BelowAny(Unvisited)
        /\ BelowAny(Unvisited) \subseteq BelowAny(Unvisited \ {f}) \cup {f}
        /\ f \in BelowAny(Unvisited)
    <3>1. Unvisited \in SUBSET Paths
      BY VisitTypes DEF DInv
    <3>2. f \in BelowAny(Unvisited)
      BY <2>2, UnderSelf DEF BelowAny, Paths
    <3> QED BY <2>1, <2>2, <3>1, <3>2, TakeOne
  <2>4. BelowAny(Unvisited)' = BelowAny(Unvisited \ {f})
    BY <2>2 DEF BelowAny
  <2>5. f \in Ahead /\ Ahead' = Ahead \ {f}
    BY <1>2, <1>3, <2>3, <2>4
  <2>6. Phase' = IF goOn THEN Phase ELSE "halted"
    BY <1>1, <1>4, <1>6 DEF VisitFile, Stop, Phase
  <2> QED BY <1>4, <1>6, <2>5, <2>6 DEF Abstract!Deliver, VisitFile
<1>7. CASE VisitError \/ DirectoryEnds
  <2>1. /\ pending \in Seq(Dirs) /\ pending # << >> /\ pending' = Tail(pending)
        /\ \A i, j \in 2..Len(pending) : i # j => pending[i] # pending[j]
        /\ Separate(Unvisited) /\ rest \subseteq Unvisited /\ Waiting \subseteq Unvisited
        /\ UNCHANGED <<delivered, halted>>
    BY <1>1, <1>7 DEF VisitError, DirectoryEnds, NextPending, DInv, TypeOK, VisitInv,
                      PlaceInv, SeparateInv, Unvisited
  <2>2. /\ pending' = << >> => Waiting = {} /\ Waiting' = {}
        /\ pending' # << >> => /\ pending[2] \in Waiting /\ pending[2] \in Dirs
                               /\ Waiting' = Waiting \ {pending[2]}
    BY <2>1, TakeFirst
  <2>3. BelowAny(Unvisited)' \subseteq BelowAny(Unvisited)
    <3>1. CASE pending' = << >>
      BY <1>7, <2>1, <2>2, <3>1
      DEF VisitError, DirectoryEnds, NextPending, Unvisited, BelowAny
    <3>2. CASE pending' # << >>
      <4>1. Unvisited' \subseteq Unvisited \cup Entries(pending[2])
        BY <1>7, <2>1, <2>2, <3>2
        DEF VisitError, DirectoryEnds, NextPending, Unvisited
      <4>2. pending[2] \in Unvisited /\ pending[2] \in Paths
        BY <2>1, <2>2, <3>2 DEF Paths
      <4> QED BY <4>1, <4>2, EntriesUnder DEF BelowAny
    <3> QED BY <3>1, <3>2
  <2>4. Phase' = "running"
    BY <1>1, <2>1 DEF Phase
  <2>5. Ahead \ Ahead' \subseteq Ahead /\ Ahead' = Ahead \ (Ahead \ Ahead')
    BY <1>2, <1>3, <2>3
  <2>6. Abstract!Lose(Ahead \ Ahead')
    BY <1>4, <2>1, <2>4, <2>5 DEF Abstract!Lose
  <2> QED BY <1>2, <2>6 DEF Abstract!Next
<1> QED BY <1>5, <1>6, <1>7 DEF Abstract!Next, Paths

\* Done is the report; nothing is ahead then, or the traversal was halted.
LEMMA DoneRefines ==
    ASSUME DInv, DInv', CallDone
    PROVE  Abstract!Report
<1>1. pc = "done" /\ pc' = "ended" /\ UNCHANGED <<kind, visiting>>
  BY DEF CallDone
<1>2. Waiting' = Waiting /\ Unvisited' = Unvisited
  BY <1>1 DEF visiting, Waiting, Unvisited
<1>3. /\ kind = "missing" => Ahead = {}
      /\ kind = "file" => Ahead = IF delivered = << >> THEN {Root} ELSE {}
      /\ kind = "directory" => Ahead = Files \cap BelowAny(Unvisited)
  BY <1>1, AheadIs DEF DInv, AheadFacts, Visiting
<1>4. /\ kind' = "missing" => Ahead' = {}
      /\ kind' = "file" => Ahead' = IF delivered' = << >> THEN {Root} ELSE {}
      /\ kind' = "directory" => Ahead' = Files \cap BelowAny(Unvisited)'
  <2>1. TypeOK' /\ pc' \in Visiting
    BY <1>1 DEF DInv, Visiting
  <2>2. AheadFacts'
    BY <2>1, AheadIs, PTL
  <2> QED BY <1>1, <2>1, <2>2 DEF AheadFacts
<1>5. Ahead' = Ahead
  <2>1. BelowAny(Unvisited)' = BelowAny(Unvisited)
    BY <1>2 DEF BelowAny
  <2>2. kind \in {"missing", "file", "directory"} /\ kind' = kind /\ delivered' = delivered
    BY <1>1 DEF DInv, TypeOK, visiting
  <2> QED BY <1>3, <1>4, <2>1, <2>2
<1>6. Phase' = "reported" /\ Phase = IF halted THEN "halted" ELSE "running"
  BY <1>1 DEF Phase
<1>7. ~halted => Ahead = {}
  <2>1. <<Root>> # << >>
    OBVIOUS
  <2> QED BY <1>1, <1>3, <2>1 DEF DInv, TypeOK, VisitInv, PlaceInv, BelowAny
<1> QED BY <1>1, <1>5, <1>6, <1>7 DEF Abstract!Report, visiting

\* The visit implements the abstract traversal.
THEOREM TraversalKept == Spec => TraversalSpec
<1>1. Init => Abstract!Init
  <2> SUFFICES ASSUME Init PROVE Abstract!Init
    OBVIOUS
  <2>1. Ahead \subseteq Paths
    BY InitInv, AheadIs DEF DInv, AheadFacts
  <2> QED BY <2>1 DEF Init, Phase, Abstract!Init
<1>2. DInv /\ DInv' /\ [Next]_vars => [Abstract!Next]_Abstract!vars
  <2> SUFFICES ASSUME DInv, DInv', [Next]_vars PROVE [Abstract!Next]_Abstract!vars
    OBVIOUS
  <2>1. CASE UNCHANGED vars
    <3>1. UNCHANGED <<kind, pc, pending, rest, delivered, halted>>
      BY <2>1 DEF vars, visiting
    <3>2. Waiting' = Waiting /\ Unvisited' = Unvisited
      BY <3>1 DEF Waiting, Unvisited
    <3> QED BY <3>1, <3>2 DEF Abstract!vars, Ahead, Phase, BelowAny
  <2> QED BY <2>1, CountRefines, EnterRefines, VisitRefines, DoneRefines
          DEF Next, CountStep, Abstract!Next
<1> QED BY <1>1, <1>2, Invariance, PTL DEF Spec, TraversalSpec, Abstract!Spec
==============================================================================
