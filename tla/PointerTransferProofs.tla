------------------------ MODULE PointerTransferProofs ------------------------
(***************************************************************************)
(* Proofs about PointerTransfer, for any finite set of threads.            *)
(***************************************************************************)
EXTENDS PointerTransfer, FiniteSetTheorems, TLAPS

USE ThreadsAssumption, EmptyAssumption DEF beingWritten

\* The readers are a finite set, counted by a natural number.
LEMMA ReadersFinite ==
    /\ IsFiniteSet(Readers)
    /\ Cardinality(Readers) \in Nat /\ Cardinality(Threads) \in Nat
    /\ Cardinality(Readers) <= Cardinality(Threads)
    /\ Cardinality(Readers) = 0 <=> Readers = {}
<1>1. Readers \subseteq Threads
  BY DEF Readers
<1> QED BY <1>1, FS_Subset, FS_CardinalityType, FS_EmptySet

\* A thread that starts or stops reading changes the number of readers by one.
LEMMA ReadersStep ==
    ASSUME NEW t \in Threads, NEW S \in SUBSET Threads
    PROVE  /\ Cardinality(S \cup {t}) =
                  IF t \in S THEN Cardinality(S) ELSE Cardinality(S) + 1
           /\ Cardinality(S \ {t}) =
                  IF t \in S THEN Cardinality(S) - 1 ELSE Cardinality(S)
<1>1. IsFiniteSet(S)
  BY FS_Subset
<1> QED BY <1>1, FS_AddElement, FS_RemoveElement

\* The initial state satisfies the inductive invariant.
LEMMA InitInvariant == Init => IInv
<1> SUFFICES ASSUME Init PROVE IInv
  OBVIOUS
<1>1. Writers = {} /\ Readers = {}
  BY DEF Init, Writers, Readers, Writing, Reading
<1>2. TypeOK
  BY ReadersFinite DEF Init, TypeOK, PCs, WeakPtrs, Whole
<1>3. CountExact
  BY <1>1, FS_EmptySet DEF Init, CountExact
<1>4. Exclusion /\ SpinInv /\ DataInv /\ KeepInv
  BY <1>1 DEF Init, Exclusion, SpinInv, DataInv, KeepInv, Whole
<1> QED BY <1>2, <1>3, <1>4 DEF IInv

\* The lock's own invariant: a compare-and-swap that succeeds is entitled to.
LEMMA LockInvariance == IInv /\ [Next]_vars => (Exclusion /\ CountExact /\ SpinInv)'
<1> SUFFICES ASSUME IInv, [Next]_vars PROVE (Exclusion /\ CountExact /\ SpinInv)'
  OBVIOUS
<1> USE DEF IInv, TypeOK, Exclusion, CountExact, SpinInv, Goto
<1>1. CASE UNCHANGED vars
  BY <1>1 DEF vars, Writers, Readers
<1>2. ASSUME NEW t \in Threads, NEW p \in Pointers, Set(t, p)
      PROVE  (Exclusion /\ CountExact /\ SpinInv)'
  <2>1. Writers' = Writers /\ Readers' = Readers
    BY <1>2 DEF Set, Writers, Readers, Writing, Reading
  <2> QED BY <1>2, <2>1 DEF Set
<1>3. ASSUME NEW t \in Threads,
             \/ Get(t) \/ LoadWrite(t) \/ LoadRead(t) \/ Drop(t)
             \/ Take(t) \/ PutObject(t) \/ PutControl(t)
             \/ GetObject(t) \/ GetControl(t)
      PROVE  (Exclusion /\ CountExact /\ SpinInv)'
  <2>1. Writers' = Writers /\ Readers' = Readers
    BY <1>3 DEF Get, LoadWrite, LoadRead, Drop, Take, PutObject, PutControl, GetObject,
                GetControl, Writers, Readers, Writing, Reading
  <2> QED BY <1>3, <2>1 DEF Get, LoadWrite, LoadRead, Drop, Take, PutObject, PutControl,
                            GetObject, GetControl
<1>4. ASSUME NEW t \in Threads, CasWrite(t)
      PROVE  (Exclusion /\ CountExact /\ SpinInv)'
  <2>1. CASE lockCount = seen[t]
    <3>1. lockCount = 0
      BY <1>4, <2>1 DEF CasWrite
    <3>2. Writers = {} /\ Readers = {}
      BY <3>1, ReadersFinite
    <3>3. Writers' = {t} /\ Readers' = {}
      BY <1>4, <2>1, <3>2 DEF CasWrite, Writers, Readers, Writing, Reading
    <3> QED BY <1>4, <2>1, <3>3 DEF CasWrite
  <2>2. CASE lockCount # seen[t]
    <3>1. Writers' = Writers /\ Readers' = Readers
      BY <1>4, <2>2 DEF CasWrite, Writers, Readers, Writing, Reading
    <3> QED BY <1>4, <2>2, <3>1 DEF CasWrite
  <2> QED BY <2>1, <2>2
<1>5. ASSUME NEW t \in Threads, ReleaseWrite(t)
      PROVE  (Exclusion /\ CountExact /\ SpinInv)'
  <2>1. Writers = {t} /\ Readers = {}
    BY <1>5 DEF ReleaseWrite, Writers, Readers, Writing, Reading
  <2>2. Writers' = {} /\ Readers' = {}
    BY <1>5, <2>1 DEF ReleaseWrite, Writers, Readers, Writing, Reading
  <2> QED BY <1>5, <2>2, FS_EmptySet DEF ReleaseWrite
<1>6. ASSUME NEW t \in Threads, CasRead(t)
      PROVE  (Exclusion /\ CountExact /\ SpinInv)'
  <2>1. CASE lockCount = seen[t]
    <3>1. Writers = {}
      BY <1>6, <2>1 DEF CasRead
    <3>2. Writers' = {} /\ Readers' = Readers \cup {t} /\ t \notin Readers
      BY <1>6, <2>1, <3>1 DEF CasRead, Writers, Readers, Writing, Reading
    <3>3. Cardinality(Readers') = Cardinality(Readers) + 1
      BY <3>2, ReadersStep DEF Readers
    <3> QED BY <1>6, <2>1, <3>1, <3>2, <3>3 DEF CasRead
  <2>2. CASE lockCount # seen[t]
    <3>1. Writers' = Writers /\ Readers' = Readers
      BY <1>6, <2>2 DEF CasRead, Writers, Readers, Writing, Reading
    <3> QED BY <1>6, <2>2, <3>1 DEF CasRead
  <2> QED BY <2>1, <2>2
<1>7. ASSUME NEW t \in Threads, ReleaseRead(t)
      PROVE  (Exclusion /\ CountExact /\ SpinInv)'
  <2>1. t \in Readers /\ Writers = {}
    BY <1>7 DEF ReleaseRead, Writers, Readers, Writing, Reading
  <2>2. Writers' = {} /\ Readers' = Readers \ {t}
    BY <1>7, <2>1 DEF ReleaseRead, Writers, Readers, Writing, Reading
  <2>3. Cardinality(Readers') = Cardinality(Readers) - 1
    BY <2>1, <2>2, ReadersStep DEF Readers
  <2> QED BY <1>7, <2>1, <2>2, <2>3 DEF ReleaseRead
<1> QED
  BY <1>1, <1>2, <1>3, <1>4, <1>5, <1>6, <1>7 DEF Next, Call, Step

\* The set of readers stays finite.
LEMMA ReadersFiniteNext ==
    /\ Cardinality(Readers') \in Nat /\ Cardinality(Threads) \in Nat
    /\ Cardinality(Readers') <= Cardinality(Threads)
<1>1. Readers' \subseteq Threads
  BY DEF Readers
<1> QED BY <1>1, FS_Subset, FS_CardinalityType

\* The lock word stays in range because it counts readers.
LEMMA TypeInvariance == IInv /\ (Exclusion /\ CountExact)' /\ [Next]_vars => TypeOK'
<1> SUFFICES ASSUME IInv, (Exclusion /\ CountExact)', [Next]_vars PROVE TypeOK'
  OBVIOUS
<1> USE DEF IInv, TypeOK, Goto, PCs, Reading, Writing, WeakPtrs, Whole
<1>0. lockCount' \in beingWritten..Cardinality(Threads)
  BY ReadersFiniteNext DEF CountExact
<1>1. CASE UNCHANGED vars
  BY <1>1 DEF vars
<1>2. ASSUME NEW t \in Threads, NEW p \in Pointers, Set(t, p) PROVE TypeOK'
  BY <1>2, <1>0 DEF Set
<1>3. ASSUME NEW t \in Threads, Get(t) PROVE TypeOK'
  BY <1>3, <1>0 DEF Get
<1>4. ASSUME NEW t \in Threads, LoadWrite(t) PROVE TypeOK'
  BY <1>4, <1>0 DEF LoadWrite
<1>5. ASSUME NEW t \in Threads, CasWrite(t) PROVE TypeOK'
  BY <1>5, <1>0 DEF CasWrite
<1>6. ASSUME NEW t \in Threads, Take(t) PROVE TypeOK'
  BY <1>6, <1>0 DEF Take
<1>7. ASSUME NEW t \in Threads, PutObject(t) PROVE TypeOK'
  BY <1>7, <1>0 DEF PutObject
<1>8. ASSUME NEW t \in Threads, PutControl(t) PROVE TypeOK'
  BY <1>8, <1>0 DEF PutControl
<1>9. ASSUME NEW t \in Threads, ReleaseWrite(t) PROVE TypeOK'
  BY <1>9, <1>0 DEF ReleaseWrite
<1>10. ASSUME NEW t \in Threads, Drop(t) PROVE TypeOK'
  BY <1>10, <1>0 DEF Drop
<1>11. ASSUME NEW t \in Threads, LoadRead(t) PROVE TypeOK'
  BY <1>11, <1>0 DEF LoadRead
<1>12. ASSUME NEW t \in Threads, CasRead(t) PROVE TypeOK'
  BY <1>12, <1>0 DEF CasRead
<1>13. ASSUME NEW t \in Threads, GetObject(t) PROVE TypeOK'
  BY <1>13, <1>0 DEF GetObject
<1>14. ASSUME NEW t \in Threads, GetControl(t) PROVE TypeOK'
  BY <1>14, <1>0 DEF GetControl
<1>15. ASSUME NEW t \in Threads, ReleaseRead(t) PROVE TypeOK'
  BY <1>15, <1>0 DEF ReleaseRead
<1> QED
  BY <1>1, <1>2, <1>3, <1>4, <1>5, <1>6, <1>7, <1>8, <1>9, <1>10, <1>11, <1>12, <1>13, <1>14, <1>15
     DEF Next, Call, Step

\* Nobody is between the two words of the pointer while a writer changes them.
LEMMA DataInvariance == IInv /\ (Exclusion /\ CountExact)' /\ [Next]_vars => (DataInv /\ KeepInv)'
<1> SUFFICES ASSUME IInv, (Exclusion /\ CountExact)', [Next]_vars PROVE (DataInv /\ KeepInv)'
  OBVIOUS
<1> USE DEF IInv, TypeOK, DataInv, KeepInv, Goto, WeakPtrs, Whole, PCs, Exclusion, Writers, Readers,
            Reading, Writing
<1>1. CASE UNCHANGED vars
  BY <1>1 DEF vars
<1>2. ASSUME NEW t \in Threads, NEW p \in Pointers, Set(t, p) PROVE (DataInv /\ KeepInv)'
  BY <1>2 DEF Set
<1>3. ASSUME NEW t \in Threads, Get(t) PROVE (DataInv /\ KeepInv)'
  BY <1>3 DEF Get
<1>4. ASSUME NEW t \in Threads, LoadWrite(t) PROVE (DataInv /\ KeepInv)'
  BY <1>4 DEF LoadWrite
<1>5. ASSUME NEW t \in Threads, CasWrite(t) PROVE (DataInv /\ KeepInv)'
  BY <1>5 DEF CasWrite
<1>6. ASSUME NEW t \in Threads, Take(t) PROVE (DataInv /\ KeepInv)'
  BY <1>6 DEF Take
<1>7. ASSUME NEW t \in Threads, PutObject(t) PROVE (DataInv /\ KeepInv)'
  BY <1>7 DEF PutObject
<1>8. ASSUME NEW t \in Threads, PutControl(t) PROVE (DataInv /\ KeepInv)'
  BY <1>8 DEF PutControl
<1>9. ASSUME NEW t \in Threads, ReleaseWrite(t) PROVE (DataInv /\ KeepInv)'
  BY <1>9 DEF ReleaseWrite
<1>10. ASSUME NEW t \in Threads, Drop(t) PROVE (DataInv /\ KeepInv)'
  BY <1>10 DEF Drop
<1>11. ASSUME NEW t \in Threads, LoadRead(t) PROVE (DataInv /\ KeepInv)'
  BY <1>11 DEF LoadRead
<1>12. ASSUME NEW t \in Threads, CasRead(t) PROVE (DataInv /\ KeepInv)'
  BY <1>12 DEF CasRead
<1>13. ASSUME NEW t \in Threads, GetObject(t) PROVE (DataInv /\ KeepInv)'
  BY <1>13 DEF GetObject
<1>14. ASSUME NEW t \in Threads, GetControl(t) PROVE (DataInv /\ KeepInv)'
  BY <1>14 DEF GetControl
<1>15. ASSUME NEW t \in Threads, ReleaseRead(t) PROVE (DataInv /\ KeepInv)'
  BY <1>15 DEF ReleaseRead
<1> QED
  BY <1>1, <1>2, <1>3, <1>4, <1>5, <1>6, <1>7, <1>8, <1>9, <1>10, <1>11, <1>12, <1>13, <1>14, <1>15
     DEF Next, Call, Step

\* The strengthening that the lock properties and the refinement follow from.
THEOREM Invariance == Spec => []IInv
<1>1. IInv /\ [Next]_vars => IInv'
  BY LockInvariance, TypeInvariance, DataInvariance DEF IInv
<1> QED BY <1>1, InitInvariant, PTL DEF Spec

\* The lock word is in range and every pointer is one that exists.
THEOREM TypeCorrect == Spec => []TypeOK
<1>1. IInv => TypeOK
  BY DEF IInv
<1> QED BY <1>1, Invariance, PTL

\* For any number of threads a writer is alone, and the word says exactly who
\* holds the lock.
THEOREM LockCorrect == Spec => [](Exclusion /\ CountExact)
<1>1. IInv => Exclusion /\ CountExact
  BY DEF IInv
<1> QED BY <1>1, Invariance, PTL

\* A step of a writer inside the lock never releases the last reference to a
\* control block.
LEMMA DestroyedUnlockedStep ==
    IInv /\ [Next]_vars => [Live \ Live' # {} => \A t \in Writers : pc'[t] = pc[t]]_vars
<1> SUFFICES ASSUME IInv, Next, NEW w \in Writers, pc'[w] # pc[w]
             PROVE  Live \subseteq Live'
  BY DEF vars
<1> USE DEF IInv, TypeOK, KeepInv, Goto, WeakPtrs
<1>1. w \in Threads /\ pc[w] \in Writing
  BY DEF Writers
<1>2. PICK t \in Threads : Call(t) \/ Step(t)
  BY DEF Next
<1>3. t = w
  BY <1>1, <1>2 DEF Call, Step, Set, Get, LoadWrite, CasWrite, Take, PutObject, PutControl,
       ReleaseWrite, Drop, LoadRead, CasRead, GetObject, GetControl, ReleaseRead
<1>4. \/ Take(w) \/ PutObject(w) \/ PutControl(w) \/ ReleaseWrite(w)
  BY <1>1, <1>2, <1>3 DEF Writing, Call, Step, Set, Get, LoadWrite, CasWrite, Drop, LoadRead,
       CasRead, GetObject, GetControl, ReleaseRead
<1>5. CASE Take(w)
  <2>1. cell' = cell /\ arg' = arg /\ \A u \in Threads \ {w} : local'[u] = local[u]
    BY <1>5 DEF Take
  <2>2. local[w].control = Empty
    BY <1>1, <1>5 DEF Take, Whole
  <2> QED BY <2>1, <2>2 DEF Live
<1>6. CASE PutControl(w)
  <2>1. local' = local /\ arg' = arg /\ local[w].control = cell.control
    BY <1>1, <1>6 DEF PutControl
  <2> QED BY <1>1, <2>1 DEF Live
<1>7. CASE PutObject(w) \/ ReleaseWrite(w)
  <2>1. local' = local /\ arg' = arg /\ cell'.control = cell.control
    BY <1>7 DEF PutObject, ReleaseWrite
  <2> QED BY <2>1 DEF Live
<1> QED BY <1>4, <1>5, <1>6, <1>7

\* What the comment at multi_thread_pointer_transfer.h:110 promises, for any
\* number of threads and pointers.
THEOREM NoDestructorInLock == Spec => DestroyedUnlocked
<1>1. IInv /\ [Next]_vars => [Live \ Live' # {} => \A t \in Writers : pc'[t] = pc[t]]_vars
  BY DestroyedUnlockedStep
<1> QED BY <1>1, Invariance, PTL DEF Spec, DestroyedUnlocked

\* Half a pointer written is none written: the value is what the control word
\* says, and both words say so while somebody reads.
LEMMA ValueIsControl ==
    IInv => /\ value = Whole(cell.control)
            /\ Readers # {} => cell.object = cell.control
<1> SUFFICES ASSUME IInv
             PROVE  /\ value = Whole(cell.control)
                    /\ Readers # {} => cell.object = cell.control
  OBVIOUS
<1>1. (\A t \in Threads : pc[t] # "putControl") => cell = Whole(cell.control)
  BY DEF IInv, TypeOK, DataInv, WeakPtrs, Whole
<1>2. value = Whole(cell.control)
  BY <1>1 DEF value
<1>3. Readers # {} => \A t \in Threads : pc[t] # "putControl"
  BY DEF IInv, Exclusion, Readers, Writers, Reading, Writing
<1> QED BY <1>2, <1>3 DEF IInv, DataInv

\* Each step is a step of the atomic register or leaves it alone: PutControl is
\* where a Set takes effect, GetControl where a Get does.
LEMMA StepRefines ==
    IInv /\ IInv' /\ [Next]_vars => [Register!Next]_<<value, phase, asked, result>>
<1>a. IInv => value = Whole(cell.control)
  BY ValueIsControl
<1>b. IInv' => (value = Whole(cell.control))'
  BY <1>a, PTL
<1> SUFFICES ASSUME IInv, IInv', [Next]_vars
             PROVE  [Register!Next]_<<value, phase, asked, result>>
  OBVIOUS
<1> USE DEF IInv, TypeOK, Goto
<1>0. value = Whole(cell.control) /\ value' = Whole(cell'.control)
  BY <1>a, <1>b
<1>1. CASE UNCHANGED vars
  BY <1>1 DEF vars, value, phase, asked, result
<1>2. ASSUME NEW t \in Threads, NEW p \in Pointers, Set(t, p)
      PROVE  Register!InvokeSet(t, Whole(p))
  BY <1>2, <1>0 DEF Set, Register!InvokeSet, phase, asked, result
<1>3. ASSUME NEW t \in Threads, Get(t) PROVE Register!InvokeGet(t)
  BY <1>3, <1>0 DEF Get, Register!InvokeGet, phase, asked, result
<1>4. ASSUME NEW t \in Threads, PutControl(t) PROVE Register!Write(t)
  BY <1>4, <1>0 DEF PutControl, WeakPtrs, Register!Write, phase, asked, result
<1>5. ASSUME NEW t \in Threads, GetControl(t) PROVE Register!Read(t)
  <2>1. t \in Readers
    BY <1>5 DEF GetControl, Readers, Reading
  <2>2. local'[t] = value
    BY <1>5, <2>1, <1>0, ValueIsControl DEF GetControl, DataInv, WeakPtrs, Whole
  <2> QED BY <1>5, <2>2, <1>0 DEF GetControl, Register!Read, phase, asked, result
<1>6. ASSUME NEW t \in Threads, Drop(t) \/ ReleaseRead(t) PROVE Register!Return(t)
  <2>1. phase[t] = "done" /\ phase' = [phase EXCEPT ![t] = "idle"]
    BY <1>6 DEF Drop, ReleaseRead, phase
  <2>2. result' = [result EXCEPT ![t] = NoResult]
    BY <1>6 DEF Drop, ReleaseRead, result
  <2>3. asked' = [asked EXCEPT ![t] = Whole(Empty)] /\ value' = value
    BY <1>6, <1>0 DEF Drop, ReleaseRead, KeepInv, Reading, asked
  <2> QED BY <2>1, <2>2, <2>3 DEF Register!Return
<1>7. ASSUME NEW t \in Threads,
             \/ LoadWrite(t) \/ CasWrite(t) \/ Take(t) \/ PutObject(t) \/ ReleaseWrite(t)
             \/ LoadRead(t) \/ CasRead(t) \/ GetObject(t)
      PROVE  UNCHANGED <<value, phase, asked, result>>
  <2>1. UNCHANGED <<value, asked>>
    BY <1>7, <1>0 DEF LoadWrite, CasWrite, Take, PutObject, ReleaseWrite, LoadRead, CasRead,
                      GetObject, asked, WeakPtrs
  <2>2. UNCHANGED <<phase, result>>
    BY <1>7 DEF LoadWrite, CasWrite, Take, PutObject, ReleaseWrite, LoadRead, CasRead,
                GetObject, phase, result
  <2> QED BY <2>1, <2>2
<1> QED
  BY <1>1, <1>2, <1>3, <1>4, <1>5, <1>6, <1>7 DEF Next, Call, Step, Register!Next

\* Set and Get are atomic, for any number of threads and pointers, although the
\* pointer they move is two words.
THEOREM Linearizable == Spec => Atomic
<1>1. Init => Register!Init
  BY DEF Init, Register!Init, value, phase, asked, result, Whole
<1>2. IInv /\ IInv' /\ [Next]_vars => [Register!Next]_<<value, phase, asked, result>>
  BY StepRefines
<1> QED BY <1>1, <1>2, Invariance, PTL DEF Spec, Atomic, Register!Spec, Register!vars
==============================================================================
