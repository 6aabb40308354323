--------------------------- MODULE PointerTransfer ---------------------------
(***************************************************************************)
(* multi_thread_pointer_transfer.h: the CSpinLockPointerTransfer through   *)
(* which the exception filter, on whatever thread faults, reaches the      *)
(* current PersistentMap, and its lock CSeqLock, one word that is          *)
(* beingWritten or counts the readers.  Each load and compare-and-swap of  *)
(* the spin loops is a step of its own.  The pointer is a weak_ptr, two    *)
(* words (object and control block) copied one after the other.            *)
(***************************************************************************)
EXTENDS Integers, FiniteSets

CONSTANTS Threads, Pointers, Empty

ASSUME ThreadsAssumption == IsFiniteSet(Threads)
ASSUME EmptyAssumption == Empty \in Pointers

VARIABLES
    pc,         \* where each thread is
    lockCount,  \* m_lockCount
    cell,       \* m_pointer
    arg,        \* the p each thread last passed to Set
    seen,       \* the "old" of each thread's spin loop
    local       \* t of Set, or the value Get is copying

vars == <<pc, lockCount, cell, arg, seen, local>>

beingWritten == -1

Whole(p) == [object |-> p, control |-> p]
WeakPtrs == [object : Pointers, control : Pointers]

Writing == {"take", "putObject", "putControl", "unlockWrite"}
Reading == {"getObject", "getControl", "unlockRead"}
PCs == {"idle", "loadWrite", "casWrite", "drop", "loadRead", "casRead"}
           \cup Writing \cup Reading

TypeOK ==
    /\ pc \in [Threads -> PCs]
    /\ lockCount \in beingWritten..Cardinality(Threads)
    /\ cell \in WeakPtrs
    /\ arg \in [Threads -> Pointers]
    /\ seen \in [Threads -> Int]
    /\ local \in [Threads -> WeakPtrs]

Init ==
    /\ pc = [t \in Threads |-> "idle"]
    /\ lockCount = 0
    /\ cell = Whole(Empty)
    /\ arg = [t \in Threads |-> Empty]
    /\ seen = [t \in Threads |-> 0]
    /\ local = [t \in Threads |-> Whole(Empty)]

Goto(t, from, to) == pc[t] = from /\ pc' = [pc EXCEPT ![t] = to]

------------------------------------------------------------------------------
(* Set *)

Set(t, p) ==
    /\ Goto(t, "idle", "loadWrite")
    /\ arg' = [arg EXCEPT ![t] = p]
    /\ UNCHANGED <<lockCount, cell, seen, local>>

\* AcquireWrite: spin until nobody holds the lock.
LoadWrite(t) ==
    /\ pc[t] = "loadWrite"
    /\ seen' = [seen EXCEPT ![t] = lockCount]
    /\ pc' = [pc EXCEPT ![t] = IF lockCount # 0 THEN "loadWrite" ELSE "casWrite"]
    /\ UNCHANGED <<lockCount, cell, arg, local>>

\* Mutant: a store instead of the compare-and-swap.
CasWriteBlind(t) ==
    /\ pc[t] = "casWrite"
    /\ lockCount' = beingWritten
    /\ pc' = [pc EXCEPT ![t] = "take"]
    /\ UNCHANGED <<cell, arg, seen, local>>

CasWrite(t) ==
    /\ pc[t] = "casWrite"
    /\ IF lockCount = seen[t]
       THEN lockCount' = beingWritten /\ pc' = [pc EXCEPT ![t] = "take"]
       ELSE UNCHANGED lockCount /\ pc' = [pc EXCEPT ![t] = "loadWrite"]
    /\ UNCHANGED <<cell, arg, seen, local>>

\* Mutant: the old pointer is not kept beyond the lock.
TakeNothing(t) ==
    /\ Goto(t, "take", "putObject")
    /\ UNCHANGED <<lockCount, cell, arg, seen, local>>

Take(t) ==
    /\ Goto(t, "take", "putObject")
    /\ local' = [local EXCEPT ![t] = cell]
    /\ UNCHANGED <<lockCount, cell, arg, seen>>

PutObject(t) ==
    /\ Goto(t, "putObject", "putControl")
    /\ cell' = [cell EXCEPT !.object = arg[t]]
    /\ UNCHANGED <<lockCount, arg, seen, local>>

PutControl(t) ==
    /\ Goto(t, "putControl", "unlockWrite")
    /\ cell' = [cell EXCEPT !.control = arg[t]]
    /\ UNCHANGED <<lockCount, arg, seen, local>>

\* Mutant: the lock is not released.
ReleaseWriteNever(t) ==
    /\ Goto(t, "unlockWrite", "drop")
    /\ UNCHANGED <<lockCount, cell, arg, seen, local>>

ReleaseWrite(t) ==
    /\ Goto(t, "unlockWrite", "drop")
    /\ lockCount' = 0
    /\ UNCHANGED <<cell, arg, seen, local>>

\* The old pointer and the caller's argument are destroyed.
Drop(t) ==
    /\ Goto(t, "drop", "idle")
    /\ local' = [local EXCEPT ![t] = Whole(Empty)]
    /\ arg' = [arg EXCEPT ![t] = Empty]
    /\ UNCHANGED <<lockCount, cell, seen>>

------------------------------------------------------------------------------
(* Get *)

Get(t) ==
    /\ Goto(t, "idle", "loadRead")
    /\ UNCHANGED <<lockCount, cell, arg, seen, local>>

\* AcquireRead: spin while a writer holds the lock.
LoadRead(t) ==
    /\ pc[t] = "loadRead"
    /\ seen' = [seen EXCEPT ![t] = lockCount]
    /\ pc' = [pc EXCEPT ![t] =
                  IF lockCount = beingWritten THEN "loadRead" ELSE "casRead"]
    /\ UNCHANGED <<lockCount, cell, arg, local>>

\* Mutant: the increment is not conditional on what was loaded.
CasReadBlind(t) ==
    /\ pc[t] = "casRead"
    /\ lockCount' = lockCount + 1 /\ pc' = [pc EXCEPT ![t] = "getObject"]
    /\ UNCHANGED <<cell, arg, seen, local>>

CasRead(t) ==
    /\ pc[t] = "casRead"
    /\ IF lockCount = seen[t]
       THEN lockCount' = seen[t] + 1 /\ pc' = [pc EXCEPT ![t] = "getObject"]
       ELSE UNCHANGED lockCount /\ pc' = [pc EXCEPT ![t] = "loadRead"]
    /\ UNCHANGED <<cell, arg, seen, local>>

GetObject(t) ==
    /\ Goto(t, "getObject", "getControl")
    /\ local' = [local EXCEPT ![t].object = cell.object]
    /\ UNCHANGED <<lockCount, cell, arg, seen>>

GetControl(t) ==
    /\ Goto(t, "getControl", "unlockRead")
    /\ local' = [local EXCEPT ![t].control = cell.control]
    /\ UNCHANGED <<lockCount, cell, arg, seen>>

\* The copy is returned, and released by the caller.
ReleaseRead(t) ==
    /\ Goto(t, "unlockRead", "idle")
    /\ lockCount' = lockCount - 1
    /\ local' = [local EXCEPT ![t] = Whole(Empty)]
    /\ UNCHANGED <<cell, arg, seen>>

------------------------------------------------------------------------------
Step(t) ==
    \/ LoadWrite(t) \/ CasWrite(t) \/ Take(t) \/ PutObject(t) \/ PutControl(t)
    \/ ReleaseWrite(t) \/ Drop(t)
    \/ LoadRead(t) \/ CasRead(t) \/ GetObject(t) \/ GetControl(t) \/ ReleaseRead(t)

Call(t) == (\E p \in Pointers : Set(t, p)) \/ Get(t)

Next == \E t \in Threads : Call(t) \/ Step(t)

Spec == Init /\ [][Next]_vars

\* Every thread inside a call keeps running.
FairSpec == Spec /\ \A t \in Threads : WF_vars(Step(t))

------------------------------------------------------------------------------
(* Properties *)

Writers == {t \in Threads : pc[t] \in Writing}
Readers == {t \in Threads : pc[t] \in Reading}

\* A writer is alone with the pointer.
Exclusion ==
    \A t \in Writers : \A u \in Writers \cup Readers : u = t

\* The word always tells who holds the lock: a lost or doubled count would
\* leave it taken, or free too early.
CountExact ==
    lockCount = IF Writers # {} THEN beingWritten ELSE Cardinality(Readers)

\* The control blocks somebody still refers to; an empty pointer has none.
Live ==
    ({cell.control} \cup {arg[t] : t \in Threads}
        \cup {local[t].control : t \in Threads}) \ {Empty}

\* "Make sure that any kind of expensive destructor wouldn't be called within
\* the scope of a spin lock": the last reference to a control block is never
\* released by a step between acquiring and releasing the write lock.
DestroyedUnlocked ==
    [][Live \ Live' # {} => \A t \in Writers : pc'[t] = pc[t]]_vars

\* The abstract call of each thread.
phase == [t \in Threads |->
    CASE pc[t] = "idle" -> "idle"
      [] pc[t] \in {"loadRead", "casRead", "getObject", "getControl"} -> "get"
      [] pc[t] \in {"unlockRead", "unlockWrite", "drop"} -> "done"
      [] OTHER -> "set"]

\* Half a pointer written counts as none written.
value ==
    IF \E t \in Threads : pc[t] = "putControl"
    THEN Whole(cell.control) ELSE cell

NoResult == [object |-> "none", control |-> "none"]

asked == [t \in Threads |-> Whole(arg[t])]
result == [t \in Threads |-> IF pc[t] = "unlockRead" THEN local[t] ELSE NoResult]

Register == INSTANCE AtomicPointer
    WITH Pointers <- {Whole(p) : p \in Pointers}, Empty <- Whole(Empty), arg <- asked

\* Set and Get are atomic: no Get ever returns half of one pointer and half of
\* another, or a pointer that was replaced before it was called.
Atomic == Register!Spec

\* Nobody waits for ever on a lock that nobody gets: when a thread starts to
\* spin, some thread finishes a Set or a Get.
SomeoneGetsThrough ==
    \A t \in Threads :
        (pc[t] \in {"loadWrite", "loadRead"}) ~>
            (\E u \in Threads : pc[u] \in {"drop", "unlockRead"})

------------------------------------------------------------------------------
(* The inductive invariant *)

\* What a thread knows when it attempts its compare-and-swap.
SpinInv ==
    \A t \in Threads : /\ pc[t] = "casWrite" => seen[t] = 0
                       /\ pc[t] = "casRead" => seen[t] # beingWritten

\* The two words differ only while a writer stands between them, and a reader
\* that stands between them has the right first one.
DataInv ==
    /\ (\A t \in Threads : pc[t] # "putControl") => cell.object = cell.control
    /\ \A t \in Threads :
        /\ pc[t] = "putControl" => cell.object = arg[t]
        /\ pc[t] = "getControl" => local[t].object = cell.object

\* A writer holds the old pointer until it has released the lock; a thread
\* that is not setting a pointer holds no argument.
KeepInv ==
    \A t \in Threads :
        /\ pc[t] \in {"idle", "loadWrite", "casWrite", "take"} => local[t] = Whole(Empty)
        /\ pc[t] \in {"putObject", "putControl"} => local[t].control = cell.control
        /\ pc[t] \in Reading \cup {"idle", "loadRead", "casRead"} => arg[t] = Empty

IInv == TypeOK /\ Exclusion /\ CountExact /\ SpinInv /\ DataInv /\ KeepInv
==============================================================================
