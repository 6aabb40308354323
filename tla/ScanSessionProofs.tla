-------------------------- MODULE ScanSessionProofs --------------------------
(***************************************************************************)
(* The safety properties of ScanSession, proved for every set of files and *)
(* names, any assignment of names to files, any outcome of the count and   *)
(* any depth of nested error boxes.                                        *)
(*                                                                         *)
(* All follow from IInv, the inductive invariant of ScanSession.  There is *)
(* one lemma per group of its conjuncts (TypeInvariance to                 *)
(* StoreInvariance), each with one step per action; InitInvariant and      *)
(* StepInvariant put them together, and Refinement maps each step of the   *)
(* two threads to a step of ResultStore or to none.  The last section      *)
(* shows that the session assumes of the identification of a file exactly  *)
(* what Identification says, which AudioQualityIdent implements.           *)
(***************************************************************************)
EXTENDS ScanSession, TLAPS

USE FilesAssumption, NameOfAssumption

\* The map of a new PersistentMap is a result map.
LEMMA EmptyMapType == EmptyMap \in ResultMaps
BY DEF EmptyMap, ResultMaps

\* The absence of an object is told by a value of the objects' type.
LEMMA NoInstType == NoInst \in Instances
BY EmptyMapType DEF NoInst, Instances

\* The scan a Start begins with is well formed.
LEMMA NoScanType == NoScan \in Scans
BY DEF NoScan, Scans

\* A ProgressDialog is well formed when it is constructed.
LEMMA NewDialogType == NewDialog \in Dialogs
BY DEF NewDialog, Dialogs, MessageQueues

\* Cutting an archive short loses entries and changes none.
LEMMA RemainsType ==
    ASSUME NEW m \in ResultMaps, NEW r \in Remains(m)
    PROVE  /\ r \in ResultMaps
           /\ \A n \in Names : r[n] \in {m[n], NoRecord}
BY DEF Remains, ResultMaps

\* What the PersistentMap constructor builds is an object with a map.
LEMMA LoadsType ==
    ASSUME NEW file \in ArchiveFiles, NEW inst \in Loads(file)
    PROVE  /\ inst \in Instances
           /\ inst.load # "none"
BY EmptyMapType, RemainsType DEF Loads, ArchiveFiles, Instances

\* Closing a stream late leaves an archive file, the one there was or a torn one.
LEMMA ClosingsType ==
    ASSUME NEW file \in ArchiveFiles, NEW m \in ResultMaps, NEW c \in Closings(file, m)
    PROVE  /\ c \in ArchiveFiles
           /\ c = file \/ c.health = "torn"
           /\ \A n \in Names : c.map[n] \in {m[n], file.map[n]}
<1>1. CASE c = file
  BY <1>1 DEF ArchiveFiles
<1>2. ASSUME NEW S \in SUBSET Names,
             c = Torn([n \in Names |-> IF n \in S THEN m[n] ELSE file.map[n]])
      PROVE  /\ c \in ArchiveFiles /\ c.health = "torn"
             /\ \A n \in Names : c.map[n] \in {m[n], file.map[n]}
  BY <1>2 DEF Torn, ArchiveFiles, ResultMaps
<1> QED BY <1>1, <1>2 DEF Closings

\* The stack of suspended handlers with its innermost one removed: the others
\* are the same and in their places.
LEMMA ReturnFacts ==
    ASSUME frames \in Seq(Instances), frames # << >>, ReturnToInnermost
    PROVE  /\ Innermost \in Instances
           /\ Len(frames) \in Nat \ {0} /\ Len(frames') = Len(frames) - 1
           /\ frames' \in Seq(Instances)
           /\ \A i \in 1..Len(frames') : i \in 1..Len(frames) /\ frames'[i] = frames[i]
<1>1. Len(frames) \in Nat \ {0} /\ Innermost \in Instances
  BY DEF Innermost
<1>2. frames' = [i \in 1..(Len(frames) - 1) |-> frames[i]]
  BY <1>1 DEF ReturnToInnermost
<1>3. \A i \in 1..(Len(frames) - 1) : i \in 1..Len(frames) /\ frames[i] \in Instances
  BY <1>1
<1>4. Len(frames) - 1 \in Nat
  BY <1>1
<1>5. frames' \in Seq(Instances) /\ Len(frames') = Len(frames) - 1
  BY <1>2, <1>3, <1>4
<1> QED BY <1>1, <1>2, <1>3, <1>5

\* The stack with another handler suspended on top.
LEMMA SuspendFacts ==
    ASSUME frames \in Seq(Instances), NEW inst \in Instances, frames' = Append(frames, inst)
    PROVE  /\ frames' \in Seq(Instances) /\ Len(frames) \in Nat
           /\ Len(frames') = Len(frames) + 1 /\ frames'[Len(frames')] = inst
           /\ \A i \in 1..Len(frames) : frames'[i] = frames[i]
           /\ \A i \in 1..Len(frames') : i \in 1..Len(frames) \/ frames'[i] = inst
OBVIOUS

\* Recording a result keeps every result there is.
LEMMA InsertType ==
    ASSUME NEW m \in ResultMaps, NEW n \in Names, NEW r \in Records
    PROVE  /\ InsertResult(m, n, r) \in ResultMaps
           /\ Extends(InsertResult(m, n, r), m)
BY DEF InsertResult, ResultMaps, Extends, Recorded

\* The few message queues there are, under the operations of a queue.
LEMMA QueueFacts ==
    /\ Append(<< >>, "Initializing") = <<"Initializing">>
    /\ Append(<< >>, "Done") = <<"Done">>
    /\ Append(<<"Initializing">>, "Done") = <<"Initializing", "Done">>
    /\ Tail(<<"Initializing">>) = << >> /\ Tail(<<"Done">>) = << >>
    /\ Tail(<<"Initializing", "Done">>) = <<"Done">>
<1> DEFINE one == <<"Initializing">>  two == <<"Initializing", "Done">>
<1>1. one \in Seq({"Initializing", "Done"}) /\ Len(one) = 1 /\ one[1] = "Initializing"
  OBVIOUS
<1>2. Append(one, "Done") = [i \in 1..2 |-> IF i = 2 THEN "Done" ELSE one[i]]
  BY <1>1
<1>3. 1..2 = {1, 2}
  OBVIOUS
<1>4. two = [i \in 1..2 |-> IF i = 2 THEN "Done" ELSE one[i]]
  BY <1>3
<1>5. Append(one, "Done") = two
  BY <1>2, <1>4
<1>6. Append(<< >>, "Initializing") = <<"Initializing">> /\ Append(<< >>, "Done") = <<"Done">>
  OBVIOUS
<1>7. /\ Tail(<<"Initializing">>) = << >> /\ Tail(<<"Done">>) = << >>
      /\ Tail(<<"Initializing", "Done">>) = <<"Done">>
  OBVIOUS
<1> QED BY <1>5, <1>6, <1>7

\* Taking a message off a queue leaves a queue; Done is always the last one.
LEMMA HeadFacts ==
    ASSUME NEW q \in MessageQueues, q # << >>
    PROVE  /\ Tail(q) \in MessageQueues
           /\ Head(q) = "Done" => q = <<"Done">> 
<1>1. \/ q = <<"Initializing">> \/ q = <<"Done">> \/ q = <<"Initializing", "Done">>
  BY DEF MessageQueues
<1>2. CASE q = <<"Initializing">>
  BY <1>2, QueueFacts DEF MessageQueues
<1>3. CASE q = <<"Done">>
  BY <1>3, QueueFacts DEF MessageQueues
<1>4. CASE q = <<"Initializing", "Done">>
  BY <1>4, QueueFacts DEF MessageQueues
<1> QED BY <1>1, <1>2, <1>3, <1>4

\* Every step keeps the types; for the queue this takes QueueInv: the worker
\* posts each of its messages once and Initializing first.
LEMMA TypeInvariance == IInv /\ [Next]_vars => TypeOK'
<1> SUFFICES ASSUME IInv, [Next]_vars PROVE TypeOK'
  OBVIOUS
<1> USE EmptyMapType, NoInstType, NoScanType, NewDialogType
<1> USE DEF IInv, TypeOK, UIStates, WorkerStates, files
<1>1. ASSUME NEW found \in SUBSET Files, Start(found) PROVE TypeOK'
  BY <1>1 DEF Start, NoScan, Scans
<1>2. CASE OnCancel
  BY <1>2 DEF OnCancel, Dialogs
<1>3. ASSUME NEW inst \in Loads(archive), Analyze(inst) PROVE TypeOK'
  BY <1>3, LoadsType DEF Analyze
<1>4. ASSUME NEW inst \in Loads(archive), AnalyzeCorrupt(inst) PROVE TypeOK'
  BY <1>4, LoadsType DEF AnalyzeCorrupt
<1>5. CASE DismissLoadBox
  BY <1>5, ReturnFacts DEF DismissLoadBox
<1>6. CASE CreateWindow
  BY <1>6 DEF CreateWindow
<1>7. CASE OnInitDialog
  BY <1>7 DEF OnInitDialog, Dialogs
<1>8. CASE OnInitializing
  BY <1>8, HeadFacts DEF OnInitializing, Dialogs
<1>9. CASE OnDone
  BY <1>9, HeadFacts DEF OnDone, Dialogs
<1>10. CASE SaveOpens
  BY <1>10 DEF SaveOpens, Torn, ArchiveFiles, Instances
<1>11. CASE SaveSkipped
  BY <1>11 DEF SaveSkipped, HandlerReturns
<1>12. CASE SaveCloses
  BY <1>12 DEF SaveCloses, HandlerReturns, Good, ArchiveFiles, Instances
<1>13. CASE SaveFails
  <2>1. [map |-> pers.map, load |-> "failed"] \in Instances
    BY DEF Instances
  <2> QED BY <1>13, <2>1, SuspendFacts DEF SaveFails, HandlerReturns
<1>14. ASSUME NEW n \in Counts, CalculateNumFiles(n) PROVE TypeOK'
  BY <1>14, CountsAssumption DEF CalculateNumFiles, Scans
<1>15. CASE InitTotals
  BY <1>15 DEF InitTotals, Dialogs, Scans
<1>16. CASE InitNotify
  BY <1>16, QueueFacts DEF InitNotify, PostMessage, Dialogs, MessageQueues, QueueInv
<1>17. ASSUME NEW inst \in Loads(archive), CreateInstance(inst) PROVE TypeOK'
  BY <1>17, LoadsType DEF CreateInstance
<1>18. CASE DismissWorkerBox
  BY <1>18 DEF DismissWorkerBox
<1>19. ASSUME NEW ok \in BOOLEAN, IdentInit(ok) PROVE TypeOK'
  BY <1>19 DEF IdentInit, Scans, Records
<1>20. ASSUME NEW f \in Files, NextFile(f) PROVE TypeOK'
  BY <1>20 DEF NextFile, Scans, Records
<1>21. ASSUME NEW lost \in SUBSET Files, DirectoryError(lost) PROVE TypeOK'
  BY <1>21 DEF DirectoryError, Scans, Records
<1>22. CASE TraversalEnds
  BY <1>22 DEF TraversalEnds
<1>23. CASE ProgressUninitialized
  BY <1>23 DEF ProgressUninitialized
<1>24. CASE Progress
  BY <1>24 DEF Progress, FileFinished, Scans
<1>25. CASE ProgressFaults
  BY <1>25 DEF ProgressFaults
<1>26. CASE IdentifyUnreadable
  BY <1>26 DEF IdentifyUnreadable, Scans, ScanInv, OnFile, Measuring
<1>27. CASE IdentifyUnmeasured
  BY <1>27 DEF IdentifyUnmeasured, Scans, Records
<1>28. CASE IdentifyExtracts
  BY <1>28 DEF IdentifyExtracts
<1>29. CASE IdentifyThrows
  BY <1>29 DEF IdentifyThrows, Scans, Records
<1>30. CASE IdentifyFaults
  BY <1>30 DEF IdentifyFaults
<1>31. CASE ReceiveCancelled
  BY <1>31 DEF ReceiveCancelled, Scans, Records
<1>32. CASE ExtractEnds
  BY <1>32 DEF ExtractEnds, Scans, Records
<1>33. CASE IdentifyReturns
  BY <1>33 DEF IdentifyReturns, FileFinished, Scans
<1>34. CASE Insert
  <2>1. NameOf[scan.current] \in Names /\ scan.record \in Records
    BY <1>34 DEF Insert, ScanInv, OnFile, Measuring, Records
  <2>2. pers' \in Instances
    BY <1>34, <2>1, InsertType DEF Insert, Instances
  <2>3. scan' \in Scans
    <3>1. scan.late + 1 \in Nat
      BY DEF Scans
    <3>2. CASE dlg.cancelled
      BY <1>34, <3>1, <3>2 DEF Insert, Scans
    <3>3. CASE ~dlg.cancelled
      BY <1>34, <3>3 DEF Insert, Scans
    <3> QED BY <3>2, <3>3
  <2> QED BY <1>34, <2>2, <2>3 DEF Insert
<1>35. CASE Done
  BY <1>35, QueueFacts DEF Done, PostMessage, Dialogs, MessageQueues, QueueInv
<1>36. CASE EmergencySerialize
  BY <1>36 DEF EmergencySerialize
<1>37. CASE FilterReturns
  BY <1>37 DEF FilterReturns, ProcessDies
<1>38. CASE Killed
  BY <1>38 DEF Killed, ProcessDies
<1>39. CASE PathThrows
  BY <1>39 DEF PathThrows
<1>40. CASE SaveUnflushed
  BY <1>40 DEF SaveUnflushed, HandlerReturns
<1>41. CASE DismissSaveBox
  BY <1>41, ReturnFacts, ClosingsType DEF DismissSaveBox, Instances
<1>42. CASE UNCHANGED vars
  BY <1>42 DEF vars
<1> QED
  BY <1>1, <1>2, <1>3, <1>4, <1>5, <1>6, <1>7, <1>8, <1>9, <1>10,
     <1>11, <1>12, <1>13, <1>14, <1>15, <1>16, <1>17, <1>18, <1>19,
     <1>20, <1>21, <1>22, <1>23, <1>24, <1>25, <1>26, <1>27, <1>28,
     <1>29, <1>30, <1>31, <1>32, <1>33, <1>34, <1>35, <1>36, <1>37,
     <1>38, <1>39, <1>40, <1>41, <1>42
     DEF Next, UserActs, Commands, OnCommand, UIStep, WorkerStep, InitializingStep, TraverseStep,
         IdentifyStep, EndStep

\* Every step keeps the session alive as long as the task: of the messages and
\* commands the dialog gets only Done ends it (an IDOK would as well, but nothing
\* in the template sends one), and a queue with Done belongs to a finished task.
LEMMA SessionInvariance == IInv /\ [Next]_vars => (SessionOutlivesTask /\ QueueInv)'
<1> SUFFICES ASSUME IInv, [Next]_vars PROVE (SessionOutlivesTask /\ QueueInv)'
  OBVIOUS
<1> USE DEF IInv, TypeOK, SessionOutlivesTask, QueueInv
<1>1. ASSUME NEW found \in SUBSET Files, Start(found) PROVE (SessionOutlivesTask /\ QueueInv)'
  BY <1>1 DEF Start, NewDialog
<1>2. CASE OnCancel
  BY <1>2 DEF OnCancel
<1>3. ASSUME NEW inst \in Loads(archive), Analyze(inst) PROVE (SessionOutlivesTask /\ QueueInv)'
  BY <1>3 DEF Analyze
<1>4. ASSUME NEW inst \in Loads(archive), AnalyzeCorrupt(inst) PROVE (SessionOutlivesTask /\ QueueInv)'
  BY <1>4 DEF AnalyzeCorrupt
<1>5. CASE DismissLoadBox
  BY <1>5 DEF DismissLoadBox
<1>6. CASE CreateWindow
  BY <1>6 DEF CreateWindow
<1>7. CASE OnInitDialog
  BY <1>7 DEF OnInitDialog
<1>8. CASE OnInitializing
  <2>1. wk # "idle" => Tail(dlg.queue) = << >>
    BY <1>8, QueueFacts DEF OnInitializing
  <2>2. dlg'.queue = Tail(dlg.queue)
    BY <1>8 DEF OnInitializing, Dialogs
  <2> QED BY <1>8, <2>1, <2>2 DEF OnInitializing
<1>9. CASE OnDone
  BY <1>9, HeadFacts DEF OnDone
<1>10. CASE SaveOpens
  BY <1>10 DEF SaveOpens
<1>11. CASE SaveSkipped
  BY <1>11 DEF SaveSkipped, HandlerReturns
<1>12. CASE SaveCloses
  BY <1>12 DEF SaveCloses, HandlerReturns
<1>13. CASE SaveFails
  BY <1>13 DEF SaveFails, HandlerReturns
<1>14. ASSUME NEW n \in Counts, CalculateNumFiles(n) PROVE (SessionOutlivesTask /\ QueueInv)'
  BY <1>14 DEF CalculateNumFiles
<1>15. CASE InitTotals
  BY <1>15 DEF InitTotals
<1>16. CASE InitNotify
  BY <1>16, QueueFacts DEF InitNotify, PostMessage, Dialogs
<1>17. ASSUME NEW inst \in Loads(archive), CreateInstance(inst) PROVE (SessionOutlivesTask /\ QueueInv)'
  BY <1>17 DEF CreateInstance
<1>18. CASE DismissWorkerBox
  BY <1>18 DEF DismissWorkerBox
<1>19. ASSUME NEW ok \in BOOLEAN, IdentInit(ok) PROVE (SessionOutlivesTask /\ QueueInv)'
  BY <1>19 DEF IdentInit
<1>20. ASSUME NEW f \in Files, NextFile(f) PROVE (SessionOutlivesTask /\ QueueInv)'
  BY <1>20 DEF NextFile
<1>21. ASSUME NEW lost \in SUBSET Files, DirectoryError(lost) PROVE (SessionOutlivesTask /\ QueueInv)'
  BY <1>21 DEF DirectoryError
<1>22. CASE TraversalEnds
  BY <1>22 DEF TraversalEnds
<1>23. CASE ProgressUninitialized
  BY <1>23 DEF ProgressUninitialized
<1>24. CASE Progress
  BY <1>24 DEF Progress, FileFinished
<1>25. CASE ProgressFaults
  BY <1>25 DEF ProgressFaults
<1>26. CASE IdentifyUnreadable
  BY <1>26 DEF IdentifyUnreadable
<1>27. CASE IdentifyUnmeasured
  BY <1>27 DEF IdentifyUnmeasured
<1>28. CASE IdentifyExtracts
  BY <1>28 DEF IdentifyExtracts
<1>29. CASE IdentifyThrows
  BY <1>29 DEF IdentifyThrows
<1>30. CASE IdentifyFaults
  BY <1>30 DEF IdentifyFaults
<1>31. CASE ReceiveCancelled
  BY <1>31 DEF ReceiveCancelled
<1>32. CASE ExtractEnds
  BY <1>32 DEF ExtractEnds
<1>33. CASE IdentifyReturns
  BY <1>33 DEF IdentifyReturns, FileFinished
<1>34. CASE Insert
  BY <1>34 DEF Insert
<1>35. CASE Done
  BY <1>35 DEF Done
<1>36. CASE EmergencySerialize
  BY <1>36 DEF EmergencySerialize
<1>37. CASE FilterReturns
  BY <1>37 DEF FilterReturns, ProcessDies
<1>38. CASE Killed
  BY <1>38 DEF Killed, ProcessDies
<1>39. CASE PathThrows
  BY <1>39 DEF PathThrows
<1>40. CASE SaveUnflushed
  BY <1>40 DEF SaveUnflushed, HandlerReturns
<1>41. CASE DismissSaveBox
  BY <1>41 DEF DismissSaveBox
<1>42. CASE UNCHANGED vars
  BY <1>42 DEF vars
<1> QED
  BY <1>1, <1>2, <1>3, <1>4, <1>5, <1>6, <1>7, <1>8, <1>9, <1>10,
     <1>11, <1>12, <1>13, <1>14, <1>15, <1>16, <1>17, <1>18, <1>19,
     <1>20, <1>21, <1>22, <1>23, <1>24, <1>25, <1>26, <1>27, <1>28,
     <1>29, <1>30, <1>31, <1>32, <1>33, <1>34, <1>35, <1>36, <1>37,
     <1>38, <1>39, <1>40, <1>41, <1>42
     DEF Next, UserActs, Commands, OnCommand, UIStep, WorkerStep, InitializingStep, TraverseStep,
         IdentifyStep, EndStep

\* Every step keeps the range handshake: either OnInitDialog ran after the
\* total was stored, or the worker saw the window and posted Initializing.
LEMMA RangeInvariance == IInv /\ [Next]_vars => RangeSettled'
<1> SUFFICES ASSUME IInv, [Next]_vars PROVE RangeSettled'
  OBVIOUS
<1> USE DEF IInv, TypeOK, SessionOutlivesTask, QueueInv, RangeSettled
<1>1. ASSUME NEW found \in SUBSET Files, Start(found) PROVE RangeSettled'
  BY <1>1 DEF Start
<1>2. CASE OnCancel
  BY <1>2 DEF OnCancel
<1>3. ASSUME NEW inst \in Loads(archive), Analyze(inst) PROVE RangeSettled'
  BY <1>3 DEF Analyze
<1>4. ASSUME NEW inst \in Loads(archive), AnalyzeCorrupt(inst) PROVE RangeSettled'
  BY <1>4 DEF AnalyzeCorrupt
<1>5. CASE DismissLoadBox
  BY <1>5 DEF DismissLoadBox
<1>6. CASE CreateWindow
  BY <1>6 DEF CreateWindow
<1>7. CASE OnInitDialog
  BY <1>7 DEF OnInitDialog
<1>8. CASE OnInitializing
  BY <1>8 DEF OnInitializing
<1>9. CASE OnDone
  BY <1>9 DEF OnDone
<1>10. CASE SaveOpens
  BY <1>10 DEF SaveOpens
<1>11. CASE SaveSkipped
  BY <1>11 DEF SaveSkipped, HandlerReturns
<1>12. CASE SaveCloses
  BY <1>12 DEF SaveCloses, HandlerReturns
<1>13. CASE SaveFails
  BY <1>13 DEF SaveFails, HandlerReturns
<1>14. ASSUME NEW n \in Counts, CalculateNumFiles(n) PROVE RangeSettled'
  BY <1>14 DEF CalculateNumFiles
<1>15. CASE InitTotals
  BY <1>15 DEF InitTotals
<1>16. CASE InitNotify
  BY <1>16 DEF InitNotify, PostMessage, HasWindow, Dialogs
<1>17. ASSUME NEW inst \in Loads(archive), CreateInstance(inst) PROVE RangeSettled'
  BY <1>17 DEF CreateInstance
<1>18. CASE DismissWorkerBox
  BY <1>18 DEF DismissWorkerBox
<1>19. ASSUME NEW ok \in BOOLEAN, IdentInit(ok) PROVE RangeSettled'
  BY <1>19 DEF IdentInit
<1>20. ASSUME NEW f \in Files, NextFile(f) PROVE RangeSettled'
  BY <1>20 DEF NextFile
<1>21. ASSUME NEW lost \in SUBSET Files, DirectoryError(lost) PROVE RangeSettled'
  BY <1>21 DEF DirectoryError
<1>22. CASE TraversalEnds
  BY <1>22 DEF TraversalEnds
<1>23. CASE ProgressUninitialized
  BY <1>23 DEF ProgressUninitialized
<1>24. CASE Progress
  BY <1>24 DEF Progress, FileFinished
<1>25. CASE ProgressFaults
  BY <1>25 DEF ProgressFaults
<1>26. CASE IdentifyUnreadable
  BY <1>26 DEF IdentifyUnreadable
<1>27. CASE IdentifyUnmeasured
  BY <1>27 DEF IdentifyUnmeasured
<1>28. CASE IdentifyExtracts
  BY <1>28 DEF IdentifyExtracts
<1>29. CASE IdentifyThrows
  BY <1>29 DEF IdentifyThrows
<1>30. CASE IdentifyFaults
  BY <1>30 DEF IdentifyFaults
<1>31. CASE ReceiveCancelled
  BY <1>31 DEF ReceiveCancelled
<1>32. CASE ExtractEnds
  BY <1>32 DEF ExtractEnds
<1>33. CASE IdentifyReturns
  BY <1>33 DEF IdentifyReturns, FileFinished
<1>34. CASE Insert
  BY <1>34 DEF Insert
<1>35. CASE Done
  BY <1>35 DEF Done, PostMessage, HasWindow, Dialogs
<1>36. CASE EmergencySerialize
  BY <1>36 DEF EmergencySerialize
<1>37. CASE FilterReturns
  BY <1>37 DEF FilterReturns, ProcessDies
<1>38. CASE Killed
  BY <1>38 DEF Killed, ProcessDies
<1>39. CASE PathThrows
  BY <1>39 DEF PathThrows
<1>40. CASE SaveUnflushed
  BY <1>40 DEF SaveUnflushed, HandlerReturns
<1>41. CASE DismissSaveBox
  BY <1>41 DEF DismissSaveBox
<1>42. CASE UNCHANGED vars
  BY <1>42 DEF vars
<1> QED
  BY <1>1, <1>2, <1>3, <1>4, <1>5, <1>6, <1>7, <1>8, <1>9, <1>10,
     <1>11, <1>12, <1>13, <1>14, <1>15, <1>16, <1>17, <1>18, <1>19,
     <1>20, <1>21, <1>22, <1>23, <1>24, <1>25, <1>26, <1>27, <1>28,
     <1>29, <1>30, <1>31, <1>32, <1>33, <1>34, <1>35, <1>36, <1>37,
     <1>38, <1>39, <1>40, <1>41, <1>42
     DEF Next, UserActs, Commands, OnCommand, UIStep, WorkerStep, InitializingStep, TraverseStep,
         IdentifyStep, EndStep

\* Every step keeps what the stage of the task says of the file in progress,
\* and a file is late only if it was being measured when Cancel came.
LEMMA ScanInvariance == IInv /\ [Next]_vars => (ScanInv /\ LateInv)'
<1> SUFFICES ASSUME IInv, [Next]_vars PROVE (ScanInv /\ LateInv)'
  OBVIOUS
<1> USE DEF IInv, TypeOK, SessionOutlivesTask, ScanInv, LateInv, AtMostOneLate, BeforeScan, BeforeLoad,
            OnFile, Measuring
<1>1. ASSUME NEW found \in SUBSET Files, Start(found) PROVE (ScanInv /\ LateInv)'
  BY <1>1 DEF Start, Dialogs, Scans, NoScan, NewDialog
<1>2. CASE OnCancel
  BY <1>2 DEF OnCancel
<1>3. ASSUME NEW inst \in Loads(archive), Analyze(inst) PROVE (ScanInv /\ LateInv)'
  BY <1>3 DEF Analyze
<1>4. ASSUME NEW inst \in Loads(archive), AnalyzeCorrupt(inst) PROVE (ScanInv /\ LateInv)'
  BY <1>4 DEF AnalyzeCorrupt
<1>5. CASE DismissLoadBox
  BY <1>5 DEF DismissLoadBox
<1>6. CASE CreateWindow
  BY <1>6 DEF CreateWindow
<1>7. CASE OnInitDialog
  BY <1>7 DEF OnInitDialog
<1>8. CASE OnInitializing
  BY <1>8 DEF OnInitializing
<1>9. CASE OnDone
  BY <1>9 DEF OnDone
<1>10. CASE SaveOpens
  BY <1>10 DEF SaveOpens
<1>11. CASE SaveSkipped
  BY <1>11 DEF SaveSkipped, HandlerReturns, Dialogs, Scans, NoScan, NewDialog
<1>12. CASE SaveCloses
  BY <1>12 DEF SaveCloses, HandlerReturns, Dialogs, Scans, NoScan, NewDialog
<1>13. CASE SaveFails
  BY <1>13 DEF SaveFails, HandlerReturns, Dialogs, Scans, NoScan, NewDialog
<1>14. ASSUME NEW n \in Counts, CalculateNumFiles(n) PROVE (ScanInv /\ LateInv)'
  BY <1>14 DEF CalculateNumFiles
<1>15. CASE InitTotals
  BY <1>15 DEF InitTotals
<1>16. CASE InitNotify
  BY <1>16 DEF InitNotify
<1>17. ASSUME NEW inst \in Loads(archive), CreateInstance(inst) PROVE (ScanInv /\ LateInv)'
  BY <1>17 DEF CreateInstance
<1>18. CASE DismissWorkerBox
  BY <1>18 DEF DismissWorkerBox
<1>19. ASSUME NEW ok \in BOOLEAN, IdentInit(ok) PROVE (ScanInv /\ LateInv)'
  BY <1>19 DEF IdentInit
<1>20. ASSUME NEW f \in Files, NextFile(f) PROVE (ScanInv /\ LateInv)'
  BY <1>20 DEF NextFile
<1>21. ASSUME NEW lost \in SUBSET Files, DirectoryError(lost) PROVE (ScanInv /\ LateInv)'
  BY <1>21 DEF DirectoryError
<1>22. CASE TraversalEnds
  BY <1>22 DEF TraversalEnds
<1>23. CASE ProgressUninitialized
  BY <1>23 DEF ProgressUninitialized
<1>24. CASE Progress
  BY <1>24 DEF Progress, FileFinished, Dialogs, Scans, NoScan, NewDialog
<1>25. CASE ProgressFaults
  BY <1>25 DEF ProgressFaults
<1>26. CASE IdentifyUnreadable
  BY <1>26 DEF IdentifyUnreadable
<1>27. CASE IdentifyUnmeasured
  BY <1>27 DEF IdentifyUnmeasured
<1>28. CASE IdentifyExtracts
  BY <1>28 DEF IdentifyExtracts
<1>29. CASE IdentifyThrows
  BY <1>29 DEF IdentifyThrows
<1>30. CASE IdentifyFaults
  BY <1>30 DEF IdentifyFaults
<1>31. CASE ReceiveCancelled
  BY <1>31 DEF ReceiveCancelled
<1>32. CASE ExtractEnds
  BY <1>32 DEF ExtractEnds
<1>33. CASE IdentifyReturns
  BY <1>33 DEF IdentifyReturns, FileFinished, Dialogs, Scans, NoScan, NewDialog
<1>34. CASE Insert
  BY <1>34 DEF Insert
<1>35. CASE Done
  BY <1>35 DEF Done, PostMessage, HasWindow, Dialogs, Scans, NoScan, NewDialog
<1>36. CASE EmergencySerialize
  BY <1>36 DEF EmergencySerialize
<1>37. CASE FilterReturns
  BY <1>37 DEF FilterReturns, ProcessDies, Dialogs, Scans, NoScan, NewDialog
<1>38. CASE Killed
  BY <1>38 DEF Killed, ProcessDies, Dialogs, Scans, NoScan, NewDialog
<1>39. CASE PathThrows
  BY <1>39 DEF PathThrows
<1>40. CASE SaveUnflushed
  BY <1>40 DEF SaveUnflushed, HandlerReturns, Dialogs, Scans, NoScan, NewDialog
<1>41. CASE DismissSaveBox
  BY <1>41 DEF DismissSaveBox
<1>42. CASE UNCHANGED vars
  BY <1>42 DEF vars
<1> QED
  BY <1>1, <1>2, <1>3, <1>4, <1>5, <1>6, <1>7, <1>8, <1>9, <1>10,
     <1>11, <1>12, <1>13, <1>14, <1>15, <1>16, <1>17, <1>18, <1>19,
     <1>20, <1>21, <1>22, <1>23, <1>24, <1>25, <1>26, <1>27, <1>28,
     <1>29, <1>30, <1>31, <1>32, <1>33, <1>34, <1>35, <1>36, <1>37,
     <1>38, <1>39, <1>40, <1>41, <1>42
     DEF Next, UserActs, Commands, OnCommand, UIStep, WorkerStep, InitializingStep, TraverseStep,
         IdentifyStep, EndStep

\* Where the entries of a loaded map come from.
LEMMA LoadsMap ==
    ASSUME NEW file \in ArchiveFiles, NEW inst \in Loads(file)
    PROVE  /\ \A n \in Names : inst.map[n] \in {file.map[n], NoRecord}
           /\ inst.load = "ok" =>
                 \/ file.health = "absent" /\ inst.map = EmptyMap
                 \/ file.health = "good" /\ inst.map = file.map
BY RemainsType DEF Loads, ArchiveFiles, EmptyMap

\* Recording a result touches no other name.
LEMMA InsertMap ==
    ASSUME NEW m \in ResultMaps, NEW k \in Names, NEW r \in Records
    PROVE  /\ InsertResult(m, k, r)[k] # NoRecord
           /\ \A n \in Names : /\ InsertResult(m, k, r)[n] \in {m[n], r}
                               /\ m[n] # NoRecord => InsertResult(m, k, r)[n] # NoRecord
BY DEF InsertResult, ResultMaps, Records, NoRecord

\* No step lets an interrupted measurement into a map: Insert is only reached
\* with it through the check of the flag, which is never reset in a session.
LEMMA CancelInvariance == IInv /\ [Next]_vars => CancelledNeverRecorded'
<1> SUFFICES ASSUME IInv, [Next]_vars PROVE CancelledNeverRecorded'
  OBVIOUS
<1> USE DEF IInv, TypeOK, CancelledNeverRecorded, files
<1>1. ASSUME NEW found \in SUBSET Files, Start(found) PROVE CancelledNeverRecorded'
  BY <1>1 DEF Start
<1>2. CASE OnCancel
  BY <1>2 DEF OnCancel
<1>3. ASSUME NEW inst \in Loads(archive), Analyze(inst) PROVE CancelledNeverRecorded'
  BY <1>3, LoadsMap DEF Analyze, NoRecord, Instances
<1>4. ASSUME NEW inst \in Loads(archive), AnalyzeCorrupt(inst) PROVE CancelledNeverRecorded'
  BY <1>4, LoadsMap DEF AnalyzeCorrupt, NoRecord, Instances
<1>5. CASE DismissLoadBox
  <2>1. pers'.map = frames[Len(frames)].map /\ Len(frames) \in 1..Len(frames)
    BY <1>5, ReturnFacts DEF DismissLoadBox, Innermost
  <2> QED BY <1>5, <2>1, ReturnFacts DEF DismissLoadBox
<1>6. CASE CreateWindow
  BY <1>6 DEF CreateWindow
<1>7. CASE OnInitDialog
  BY <1>7 DEF OnInitDialog
<1>8. CASE OnInitializing
  BY <1>8 DEF OnInitializing
<1>9. CASE OnDone
  BY <1>9 DEF OnDone
<1>10. CASE SaveOpens
  BY <1>10 DEF SaveOpens, NoInst, EmptyMap, NoRecord, Torn, Good
<1>11. CASE SaveSkipped
  BY <1>11 DEF SaveSkipped, HandlerReturns, NoInst, EmptyMap, NoRecord, Torn, Good
<1>12. CASE SaveCloses
  BY <1>12 DEF SaveCloses, HandlerReturns, NoInst, EmptyMap, NoRecord, Torn, Good
<1>13. CASE SaveFails
  <2> DEFINE inst == [map |-> pers.map, load |-> "failed"]
  <2>1. inst \in Instances /\ \A n \in Names : inst.map[n] # "interrupted"
    BY DEF Instances
  <2>2. frames' = Append(frames, inst) /\ pers' = NoInst /\ UNCHANGED files
    BY <1>13 DEF SaveFails, HandlerReturns
  <2>3. \A n \in Names : pers'.map[n] # "interrupted"
    BY <2>2 DEF NoInst, EmptyMap, NoRecord
  <2> HIDE DEF inst
  <2>4. \A i \in 1..Len(frames') : \A n \in Names : frames'[i].map[n] # "interrupted"
    BY <2>1, <2>2, SuspendFacts
  <2> QED BY <2>2, <2>3, <2>4
<1>14. ASSUME NEW n \in Counts, CalculateNumFiles(n) PROVE CancelledNeverRecorded'
  BY <1>14 DEF CalculateNumFiles
<1>15. CASE InitTotals
  BY <1>15 DEF InitTotals
<1>16. CASE InitNotify
  BY <1>16 DEF InitNotify
<1>17. ASSUME NEW inst \in Loads(archive), CreateInstance(inst) PROVE CancelledNeverRecorded'
  BY <1>17, LoadsMap DEF CreateInstance, NoRecord, Instances
<1>18. CASE DismissWorkerBox
  BY <1>18 DEF DismissWorkerBox
<1>19. ASSUME NEW ok \in BOOLEAN, IdentInit(ok) PROVE CancelledNeverRecorded'
  BY <1>19 DEF IdentInit
<1>20. ASSUME NEW f \in Files, NextFile(f) PROVE CancelledNeverRecorded'
  BY <1>20 DEF NextFile
<1>21. ASSUME NEW lost \in SUBSET Files, DirectoryError(lost) PROVE CancelledNeverRecorded'
  BY <1>21 DEF DirectoryError
<1>22. CASE TraversalEnds
  BY <1>22 DEF TraversalEnds
<1>23. CASE ProgressUninitialized
  BY <1>23 DEF ProgressUninitialized
<1>24. CASE Progress
  BY <1>24 DEF Progress, FileFinished
<1>25. CASE ProgressFaults
  BY <1>25 DEF ProgressFaults
<1>26. CASE IdentifyUnreadable
  BY <1>26 DEF IdentifyUnreadable
<1>27. CASE IdentifyUnmeasured
  BY <1>27 DEF IdentifyUnmeasured
<1>28. CASE IdentifyExtracts
  BY <1>28 DEF IdentifyExtracts
<1>29. CASE IdentifyThrows
  BY <1>29 DEF IdentifyThrows
<1>30. CASE IdentifyFaults
  BY <1>30 DEF IdentifyFaults
<1>31. CASE ReceiveCancelled
  BY <1>31 DEF ReceiveCancelled
<1>32. CASE ExtractEnds
  BY <1>32 DEF ExtractEnds
<1>33. CASE IdentifyReturns
  BY <1>33 DEF IdentifyReturns, FileFinished
<1>34. CASE Insert
  <2>1. NameOf[scan.current] \in Names /\ scan.record \in {"measured", "unmeasured"}
    BY <1>34 DEF Insert, ScanInv, OnFile, Measuring
  <2>2. \A n \in Names : pers'.map[n] # "interrupted"
    BY <1>34, <2>1, InsertMap DEF Insert, Instances, Records
  <2> QED BY <1>34, <2>2 DEF Insert
<1>35. CASE Done
  BY <1>35 DEF Done
<1>36. CASE EmergencySerialize
  BY <1>36 DEF EmergencySerialize
<1>37. CASE FilterReturns
  BY <1>37 DEF FilterReturns, ProcessDies, NoInst, EmptyMap, NoRecord, Torn, Good
<1>38. CASE Killed
  BY <1>38 DEF Killed, ProcessDies, NoInst, EmptyMap, NoRecord, Torn, Good
<1>39. CASE PathThrows
  BY <1>39 DEF PathThrows
<1>40. CASE SaveUnflushed
  BY <1>40 DEF SaveUnflushed, HandlerReturns, NoInst, EmptyMap, NoRecord, Torn, Good
<1>41. CASE DismissSaveBox
  <2>1. /\ Innermost \in Instances /\ Innermost = frames[Len(frames)]
        /\ Len(frames) \in 1..Len(frames)
    BY <1>41, ReturnFacts DEF DismissSaveBox, Innermost
  <2>2. \A n \in Names : archive'.map[n] \in {Innermost.map[n], archive.map[n]}
    BY <1>41, <2>1, ClosingsType DEF DismissSaveBox, Instances
  <2>3. \A n \in Names : archive'.map[n] # "interrupted"
    BY <2>1, <2>2
  <2> QED BY <1>41, <2>3, ReturnFacts DEF DismissSaveBox
<1>42. CASE UNCHANGED vars
  BY <1>42 DEF vars
<1> QED
  BY <1>1, <1>2, <1>3, <1>4, <1>5, <1>6, <1>7, <1>8, <1>9, <1>10,
     <1>11, <1>12, <1>13, <1>14, <1>15, <1>16, <1>17, <1>18, <1>19,
     <1>20, <1>21, <1>22, <1>23, <1>24, <1>25, <1>26, <1>27, <1>28,
     <1>29, <1>30, <1>31, <1>32, <1>33, <1>34, <1>35, <1>36, <1>37,
     <1>38, <1>39, <1>40, <1>41, <1>42
     DEF Next, UserActs, Commands, OnCommand, UIStep, WorkerStep, InitializingStep, TraverseStep,
         IdentifyStep, EndStep

\* Every step of an uncancelled traversal accounts for each file: recorded,
\* missed, in progress or still to come.
LEMMA CoverageInvariance == IInv /\ [Next]_vars => CoverageInv'
<1> SUFFICES ASSUME IInv, [Next]_vars PROVE CoverageInv'
  OBVIOUS
<1> USE DEF IInv, TypeOK, SessionOutlivesTask, ScanInv, CoverageInv, OnFile, Measuring,
            BeforeScan, BeforeLoad
<1>1. ASSUME NEW found \in SUBSET Files, Start(found) PROVE CoverageInv'
  BY <1>1 DEF Start
<1>2. CASE OnCancel
  BY <1>2 DEF OnCancel
<1>3. ASSUME NEW inst \in Loads(archive), Analyze(inst) PROVE CoverageInv'
  BY <1>3 DEF Analyze
<1>4. ASSUME NEW inst \in Loads(archive), AnalyzeCorrupt(inst) PROVE CoverageInv'
  BY <1>4 DEF AnalyzeCorrupt
<1>5. CASE DismissLoadBox
  BY <1>5 DEF DismissLoadBox
<1>6. CASE CreateWindow
  BY <1>6 DEF CreateWindow
<1>7. CASE OnInitDialog
  BY <1>7 DEF OnInitDialog
<1>8. CASE OnInitializing
  BY <1>8 DEF OnInitializing
<1>9. CASE OnDone
  BY <1>9 DEF OnDone
<1>10. CASE SaveOpens
  BY <1>10 DEF SaveOpens
<1>11. CASE SaveSkipped
  BY <1>11 DEF SaveSkipped, HandlerReturns
<1>12. CASE SaveCloses
  BY <1>12 DEF SaveCloses, HandlerReturns
<1>13. CASE SaveFails
  BY <1>13 DEF SaveFails, HandlerReturns
<1>14. ASSUME NEW n \in Counts, CalculateNumFiles(n) PROVE CoverageInv'
  BY <1>14 DEF CalculateNumFiles
<1>15. CASE InitTotals
  BY <1>15 DEF InitTotals
<1>16. CASE InitNotify
  BY <1>16 DEF InitNotify
<1>17. ASSUME NEW inst \in Loads(archive), CreateInstance(inst) PROVE CoverageInv'
  BY <1>17 DEF CreateInstance
<1>18. CASE DismissWorkerBox
  BY <1>18 DEF DismissWorkerBox
<1>19. ASSUME NEW ok \in BOOLEAN, IdentInit(ok) PROVE CoverageInv'
  BY <1>19 DEF IdentInit
<1>20. ASSUME NEW f \in Files, NextFile(f) PROVE CoverageInv'
  BY <1>20 DEF NextFile
<1>21. ASSUME NEW lost \in SUBSET Files, DirectoryError(lost) PROVE CoverageInv'
  BY <1>21 DEF DirectoryError
<1>22. CASE TraversalEnds
  BY <1>22 DEF TraversalEnds
<1>23. CASE ProgressUninitialized
  BY <1>23 DEF ProgressUninitialized
<1>24. CASE Progress
  BY <1>24 DEF Progress, FileFinished, Dialogs, Scans
<1>25. CASE ProgressFaults
  BY <1>25 DEF ProgressFaults
<1>26. CASE IdentifyUnreadable
  BY <1>26 DEF IdentifyUnreadable
<1>27. CASE IdentifyUnmeasured
  BY <1>27 DEF IdentifyUnmeasured
<1>28. CASE IdentifyExtracts
  BY <1>28 DEF IdentifyExtracts
<1>29. CASE IdentifyThrows
  BY <1>29 DEF IdentifyThrows
<1>30. CASE IdentifyFaults
  BY <1>30 DEF IdentifyFaults
<1>31. CASE ReceiveCancelled
  BY <1>31 DEF ReceiveCancelled
<1>32. CASE ExtractEnds
  BY <1>32 DEF ExtractEnds
<1>33. CASE IdentifyReturns
  BY <1>33 DEF IdentifyReturns, FileFinished
<1>34. CASE Insert
  <2>1. NameOf[scan.current] \in Names /\ scan.record \in Records
    BY <1>34 DEF Insert, ScanInv, OnFile, Measuring, Records
  <2>2. /\ pers'.map[NameOf[scan.current]] # NoRecord
        /\ \A n \in Names : pers.map[n] # NoRecord => pers'.map[n] # NoRecord
    BY <1>34, <2>1, InsertMap DEF Insert, Instances
  <2>3. /\ scan'.missed = scan.missed /\ scan'.todo = scan.todo
        /\ scan'.initialized = scan.initialized /\ scan'.current = NoFile
    BY <1>34 DEF Insert, Scans
  <2> QED BY <1>34, <2>2, <2>3 DEF Insert
<1>35. CASE Done
  BY <1>35 DEF Done
<1>36. CASE EmergencySerialize
  BY <1>36 DEF EmergencySerialize
<1>37. CASE FilterReturns
  BY <1>37 DEF FilterReturns, ProcessDies
<1>38. CASE Killed
  BY <1>38 DEF Killed, ProcessDies
<1>39. CASE PathThrows
  BY <1>39 DEF PathThrows
<1>40. CASE SaveUnflushed
  BY <1>40 DEF SaveUnflushed, HandlerReturns
<1>41. CASE DismissSaveBox
  BY <1>41 DEF DismissSaveBox
<1>42. CASE UNCHANGED vars
  BY <1>42 DEF vars
<1> QED
  BY <1>1, <1>2, <1>3, <1>4, <1>5, <1>6, <1>7, <1>8, <1>9, <1>10,
     <1>11, <1>12, <1>13, <1>14, <1>15, <1>16, <1>17, <1>18, <1>19,
     <1>20, <1>21, <1>22, <1>23, <1>24, <1>25, <1>26, <1>27, <1>28,
     <1>29, <1>30, <1>31, <1>32, <1>33, <1>34, <1>35, <1>36, <1>37,
     <1>38, <1>39, <1>40, <1>41, <1>42
     DEF Next, UserActs, Commands, OnCommand, UIStep, WorkerStep, InitializingStep, TraverseStep,
         IdentifyStep, EndStep

\* Every step keeps the relation between the archive, the last completed save
\* and the map in memory, through truncation, faults and restarts.
LEMMA StoreInvariance == IInv /\ [Next]_vars => StoreInv'
<1> SUFFICES ASSUME IInv, [Next]_vars PROVE StoreInv'
  OBVIOUS
<1> USE DEF IInv, TypeOK, SessionOutlivesTask, StoreInv, BeforeLoad, files
<1>1. ASSUME NEW found \in SUBSET Files, Start(found) PROVE StoreInv'
  BY <1>1 DEF Start
<1>2. CASE OnCancel
  BY <1>2 DEF OnCancel
<1>3. ASSUME NEW inst \in Loads(archive), Analyze(inst) PROVE StoreInv'
  BY <1>3, LoadsType, LoadsMap DEF Analyze, Instances, EmptyMap, Extends, Recorded
<1>4. ASSUME NEW inst \in Loads(archive), AnalyzeCorrupt(inst) PROVE StoreInv'
  BY <1>4, LoadsType, LoadsMap, SuspendFacts DEF AnalyzeCorrupt, Instances, EmptyMap, Extends, Recorded
<1>5. CASE DismissLoadBox
  BY <1>5, ReturnFacts DEF DismissLoadBox
<1>6. CASE CreateWindow
  BY <1>6 DEF CreateWindow
<1>7. CASE OnInitDialog
  BY <1>7 DEF OnInitDialog
<1>8. CASE OnInitializing
  BY <1>8 DEF OnInitializing
<1>9. CASE OnDone
  BY <1>9 DEF OnDone
<1>10. CASE SaveOpens
  BY <1>10 DEF SaveOpens, NoInst, Torn, Good, Extends, Recorded
<1>11. CASE SaveSkipped
  BY <1>11 DEF SaveSkipped, HandlerReturns, NoInst, Torn, Good, Extends, Recorded
<1>12. CASE SaveCloses
  BY <1>12 DEF SaveCloses, HandlerReturns, NoInst, Torn, Good, Extends, Recorded
<1>13. CASE SaveFails
  <2>1. [map |-> pers.map, load |-> "failed"] \in Instances
    BY DEF Instances
  <2> QED BY <1>13, <2>1, SuspendFacts DEF SaveFails, HandlerReturns, NoInst, Torn, Good, Extends, Recorded
<1>14. ASSUME NEW n \in Counts, CalculateNumFiles(n) PROVE StoreInv'
  BY <1>14 DEF CalculateNumFiles
<1>15. CASE InitTotals
  BY <1>15 DEF InitTotals
<1>16. CASE InitNotify
  BY <1>16 DEF InitNotify
<1>17. ASSUME NEW inst \in Loads(archive), CreateInstance(inst) PROVE StoreInv'
  BY <1>17, LoadsType, LoadsMap DEF CreateInstance, Instances, EmptyMap, Extends, Recorded
<1>18. CASE DismissWorkerBox
  BY <1>18 DEF DismissWorkerBox
<1>19. ASSUME NEW ok \in BOOLEAN, IdentInit(ok) PROVE StoreInv'
  BY <1>19 DEF IdentInit
<1>20. ASSUME NEW f \in Files, NextFile(f) PROVE StoreInv'
  BY <1>20 DEF NextFile
<1>21. ASSUME NEW lost \in SUBSET Files, DirectoryError(lost) PROVE StoreInv'
  BY <1>21 DEF DirectoryError
<1>22. CASE TraversalEnds
  BY <1>22 DEF TraversalEnds
<1>23. CASE ProgressUninitialized
  BY <1>23 DEF ProgressUninitialized
<1>24. CASE Progress
  BY <1>24 DEF Progress, FileFinished
<1>25. CASE ProgressFaults
  BY <1>25 DEF ProgressFaults
<1>26. CASE IdentifyUnreadable
  BY <1>26 DEF IdentifyUnreadable
<1>27. CASE IdentifyUnmeasured
  BY <1>27 DEF IdentifyUnmeasured
<1>28. CASE IdentifyExtracts
  BY <1>28 DEF IdentifyExtracts
<1>29. CASE IdentifyThrows
  BY <1>29 DEF IdentifyThrows
<1>30. CASE IdentifyFaults
  BY <1>30 DEF IdentifyFaults
<1>31. CASE ReceiveCancelled
  BY <1>31 DEF ReceiveCancelled
<1>32. CASE ExtractEnds
  BY <1>32 DEF ExtractEnds
<1>33. CASE IdentifyReturns
  BY <1>33 DEF IdentifyReturns, FileFinished
<1>34. CASE Insert
  <2>1. NameOf[scan.current] \in Names /\ scan.record \in Records
    BY <1>34 DEF Insert, ScanInv, OnFile, Measuring, Records
  <2>2. pers'.load = pers.load /\ Extends(pers'.map, pers.map)
    BY <1>34, <2>1, InsertType DEF Insert, Instances
  <2>3. pers.load = "ok" => Extends(pers'.map, committed)
    BY <2>2 DEF Extends, Recorded
  <2> QED BY <1>34, <2>2, <2>3 DEF Insert
<1>35. CASE Done
  BY <1>35 DEF Done
<1>36. CASE EmergencySerialize
  BY <1>36 DEF EmergencySerialize
<1>37. CASE FilterReturns
  BY <1>37 DEF FilterReturns, ProcessDies, NoInst, Torn, Good, Extends, Recorded
<1>38. CASE Killed
  BY <1>38 DEF Killed, ProcessDies, NoInst, Torn, Good, Extends, Recorded
<1>39. CASE PathThrows
  BY <1>39 DEF PathThrows
<1>40. CASE SaveUnflushed
  BY <1>40 DEF SaveUnflushed, HandlerReturns, NoInst, Torn, Good, Extends, Recorded
<1>41. CASE DismissSaveBox
  BY <1>41, ReturnFacts, ClosingsType DEF DismissSaveBox, Instances
<1>42. CASE UNCHANGED vars
  BY <1>42 DEF vars
<1> QED
  BY <1>1, <1>2, <1>3, <1>4, <1>5, <1>6, <1>7, <1>8, <1>9, <1>10,
     <1>11, <1>12, <1>13, <1>14, <1>15, <1>16, <1>17, <1>18, <1>19,
     <1>20, <1>21, <1>22, <1>23, <1>24, <1>25, <1>26, <1>27, <1>28,
     <1>29, <1>30, <1>31, <1>32, <1>33, <1>34, <1>35, <1>36, <1>37,
     <1>38, <1>39, <1>40, <1>41, <1>42
     DEF Next, UserActs, Commands, OnCommand, UIStep, WorkerStep, InitializingStep, TraverseStep,
         IdentifyStep, EndStep

\* The initial state satisfies the inductive invariant.
LEMMA InitInvariant == Init => IInv
<1> SUFFICES ASSUME Init PROVE IInv
  OBVIOUS
<1> USE DEF Init
<1>1. TypeOK
  BY EmptyMapType, NoInstType, NoScanType, NewDialogType
     DEF TypeOK, UIStates, WorkerStates, ArchiveFiles, Absent
<1>2. SessionOutlivesTask /\ QueueInv /\ RangeSettled /\ ScanInv /\ CoverageInv
  BY DEF SessionOutlivesTask, QueueInv, RangeSettled, ScanInv, CoverageInv,
         BeforeScan, BeforeLoad, OnFile, Measuring
<1>3. CancelledNeverRecorded
  <2>1. \A n \in Names : EmptyMap[n] # "interrupted"
    BY DEF EmptyMap, NoRecord
  <2>2. Len(frames) = 0
    OBVIOUS
  <2>3. pers.map = EmptyMap /\ archive.map = EmptyMap /\ committed = EmptyMap
    BY DEF NoInst, Absent
  <2>4. \A m \in {pers.map, archive.map, committed} : m = EmptyMap
    BY <2>3
  <2>5. 1..Len(frames) = {}
    BY <2>2
  <2> HIDE DEF Init
  <2> QED BY <2>1, <2>4, <2>5 DEF CancelledNeverRecorded
<1>4. LateInv
  BY DEF LateInv, AtMostOneLate, NoScan
<1>5. StoreInv
  BY DEF StoreInv, NoInst, Absent, BeforeLoad
<1> QED BY <1>1, <1>2, <1>3, <1>4, <1>5 DEF IInv

\* The invariant is inductive.
LEMMA StepInvariant == IInv /\ [Next]_vars => IInv'
BY TypeInvariance, SessionInvariance, RangeInvariance, ScanInvariance,
   CancelInvariance, CoverageInvariance, StoreInvariance DEF IInv

\* The strengthening that all the safety properties follow from.
THEOREM Invariance == Spec => []IInv
BY InitInvariant, StepInvariant, PTL DEF Spec

\* Every value keeps its type, and the dialog's queue never holds two messages
\* of a kind nor Done before Initializing.
THEOREM TypeCorrect == Spec => []TypeOK
<1>1. IInv => TypeOK
  BY DEF IInv
<1> QED BY <1>1, Invariance, PTL

\* The Start handler's stack, on which the dialog and the Intermedia live,
\* outlives every task that refers to them, however the threads interleave, for
\* the commands that the template of the dialog offers (Commands).
THEOREM SessionLifetime == Spec => []SessionOutlivesTask
<1>1. IInv => SessionOutlivesTask
  BY DEF IInv
<1> QED BY <1>1, Invariance, PTL

\* A measurement interrupted by Cancel is never recorded in memory or on disk,
\* and at most one file is recorded after a Cancel.
THEOREM CancelSafe == Spec => [](CancelledNeverRecorded /\ AtMostOneLate)
<1>1. IInv => CancelledNeverRecorded /\ AtMostOneLate
  BY DEF IInv, LateInv
<1> QED BY <1>1, Invariance, PTL

\* The progress bar gets the range of the scan whichever thread comes first.
THEOREM RangeHandshake == Spec => []RangeSettled
<1>1. IInv => RangeSettled
  BY DEF IInv
<1> QED BY <1>1, Invariance, PTL

\* A traversal that ends without a cancel has a result for every file that
\* could be read, for any set of files and any clash of their names.
THEOREM CompleteCoverage == Spec => []Coverage
<1>1. IInv => Coverage
  BY DEF IInv, CoverageInv, Coverage
<1> QED BY <1>1, Invariance, PTL

\* Saved results are only lost by a handler that could not read them, and the
\* archive only stops to hold them through a save that was not completed or the
\* late close of a suspended one: the sessions implement the result store.
THEOREM Refinement == Spec => StoreSpec
<1>1. Init => Store!Init
  <2> SUFFICES ASSUME Init PROVE Store!Init
    OBVIOUS
  <2>1. 1..Len(frames) = {}
    BY DEF Init
  <2> QED BY <2>1 DEF Init, Store!Init, session, intact, unclosed, Absent, NoInst, EmptyMap,
                      Store!EmptyMap, NoRecord, Store!NoRecord
<1>2. IInv /\ IInv' /\ [Next]_vars => [Store!Next]_<<committed, intact, session, unclosed>>
  <2> SUFFICES ASSUME IInv, IInv', [Next]_vars
               PROVE  [Store!Next]_<<committed, intact, session, unclosed>>
    OBVIOUS
  <2> USE DEF Store!Next
  <2>1. /\ archive \in ArchiveFiles /\ pers \in Instances /\ frames \in Seq(Instances)
        /\ session \in {"none", "sound", "suspect"}
        /\ intact \in BOOLEAN /\ unclosed \in BOOLEAN /\ unclosed' \in BOOLEAN
        /\ ui = "idle" \/ wk = "load" => session = "none"
        /\ ui = "saving" => session # "none" /\ ~intact
        /\ ui = "destroying" => session # "none"
    BY DEF IInv, TypeOK, StoreInv, session, intact, unclosed, BeforeLoad, SessionOutlivesTask
  <2>2. ASSUME NEW inst \in Loads(archive),
               pers' = inst, UNCHANGED <<frames, files>>, session = "none"
        PROVE  Store!Open
    <3>1. inst.load = "ok" => intact
      BY <2>1 DEF Loads, intact, ArchiveFiles
    <3>2. session' = IF inst.load = "ok" THEN "sound" ELSE "suspect"
      BY <2>2, LoadsType, <2>1 DEF session
    <3> QED BY <2>2, <3>1, <3>2 DEF Store!Open, files, intact, unclosed
  <2>3. CASE SaveOpens
    BY <2>1, <2>3 DEF SaveOpens, Store!Begin, session, intact, unclosed, Torn
  <2>4. CASE SaveCloses
    <3>1. session' = "none" /\ intact' = TRUE /\ unclosed' = unclosed
      BY <2>4 DEF SaveCloses, HandlerReturns, NoInst, session, intact, unclosed, Good
    <3>2. committed' = pers.map /\ committed' \in Store!ResultMaps
      BY <2>1, <2>4 DEF SaveCloses, Instances, ResultMaps, Store!ResultMaps,
                        NoRecord, Store!NoRecord, Records, Store!Records
    <3>3. session = "sound" => Store!Extends(committed', committed)
      BY <3>2 DEF session, IInv, StoreInv, Extends, Recorded, NoRecord,
                  Store!Extends, Store!Recorded, Store!NoRecord
    <3> QED BY <2>1, <2>4, <3>1, <3>2, <3>3 DEF SaveCloses, Store!Commit, Store!Overwrite
  <2>5. CASE SaveSkipped \/ SaveUnflushed
    BY <2>1, <2>5 DEF SaveSkipped, SaveUnflushed, HandlerReturns, NoInst, files, session,
                      intact, unclosed, Store!Abandon
  <2>6. CASE SaveFails
    <3> DEFINE inst == [map |-> pers.map, load |-> "failed"]
    <3>1. inst \in Instances /\ inst.load = "failed"
      BY <2>1 DEF Instances
    <3>2. frames' = Append(frames, inst) /\ session' = "none" /\ UNCHANGED files
      BY <2>6 DEF SaveFails, HandlerReturns, NoInst, session
    <3> HIDE DEF inst
    <3>3. unclosed'
      BY <2>1, <3>1, <3>2, SuspendFacts DEF unclosed
    <3> QED BY <2>1, <2>6, <3>2, <3>3 DEF SaveFails, files, intact, Store!Fail
  <2>7. ASSUME NEW inst \in Loads(archive), Analyze(inst)
        PROVE  Store!Open
    BY <2>1, <2>2, <2>7 DEF Analyze
  <2>8. ASSUME NEW inst \in Loads(archive), AnalyzeCorrupt(inst)
        PROVE  UNCHANGED <<committed, intact, session, unclosed>>
    <3>1. inst \in Instances /\ inst.load # "failed" /\ frames' = Append(frames, inst)
      BY <2>1, <2>8, LoadsType DEF AnalyzeCorrupt
    <3>2. unclosed' = unclosed
      BY <2>1, <3>1, SuspendFacts DEF unclosed
    <3> QED BY <2>8, <3>2 DEF AnalyzeCorrupt, files, intact, session
  <2>9. CASE DismissLoadBox
    <3>1. session = "none" /\ session' = "suspect"
      BY <2>1, <2>9 DEF DismissLoadBox, session
    <3>2. unclosed' => unclosed
      BY <2>1, <2>9, ReturnFacts DEF DismissLoadBox, unclosed
    <3>3. unclosed => unclosed'
      <4> SUFFICES ASSUME NEW i \in 1..Len(frames), frames[i].load = "failed" PROVE unclosed'
        BY DEF unclosed
      <4>1. i # Len(frames)
        BY <2>9 DEF DismissLoadBox, Innermost
      <4>2. i \in 1..Len(frames')
        BY <2>1, <2>9, <4>1, ReturnFacts DEF DismissLoadBox
      <4> QED BY <2>1, <2>9, <4>2, ReturnFacts DEF DismissLoadBox, unclosed
    <3> QED BY <2>1, <2>9, <3>1, <3>2, <3>3 DEF DismissLoadBox, files, intact, Store!Open
  <2>10. CASE DismissSaveBox
    <3>1. unclosed
      BY <2>1, <2>10, ReturnFacts DEF DismissSaveBox, Innermost, unclosed
    <3>2. Innermost.map \in ResultMaps /\ archive' \in Closings(archive, Innermost.map)
      BY <2>1, <2>10, ReturnFacts DEF DismissSaveBox, Instances
    <3>3. archive' = archive \/ archive'.health = "torn"
      BY <2>1, <3>2, ClosingsType
    <3>4. intact' \in {FALSE, intact}
      BY <3>3 DEF intact
    <3> QED BY <2>1, <2>10, <3>1, <3>4 DEF DismissSaveBox, session, Store!Close
  <2>11. ASSUME NEW inst \in Loads(archive), CreateInstance(inst)
         PROVE  Store!Open
    BY <2>1, <2>2, <2>11 DEF CreateInstance
  <2>12. CASE FilterReturns \/ Killed
    <3>1. session' = "none" /\ frames' = << >> /\ UNCHANGED files
      BY <2>12 DEF FilterReturns, Killed, ProcessDies, NoInst, session
    <3>2. unclosed' = FALSE
      BY <3>1 DEF unclosed
    <3> QED BY <3>1, <3>2 DEF files, intact, Store!Die
  <2>13. CASE Insert
    <3>1. session' = session
      BY <2>1, <2>13 DEF Insert, Instances, session
    <3> QED BY <2>13, <3>1 DEF Insert, files, intact, unclosed
  <2>14. CASE UNCHANGED <<pers, frames, files>>
    BY <2>14 DEF files, session, intact, unclosed
  <2> QED
    BY <2>3, <2>4, <2>5, <2>6, <2>7, <2>8, <2>9, <2>10, <2>11, <2>12, <2>13, <2>14
       DEF Next, UserActs, Commands, OnCommand, UIStep, WorkerStep, InitializingStep,
           TraverseStep, IdentifyStep, EndStep, vars, files, Start, OnCancel, CreateWindow,
           OnInitDialog, OnInitializing, OnDone, CalculateNumFiles, PathThrows, InitTotals,
           InitNotify, DismissWorkerBox, IdentInit, NextFile, DirectoryError, TraversalEnds,
           ProgressUninitialized, Progress, ProgressFaults, IdentifyUnreadable,
           IdentifyUnmeasured, IdentifyExtracts, IdentifyThrows, IdentifyFaults,
           ReceiveCancelled, ExtractEnds, IdentifyReturns, Done, EmergencySerialize
<1> QED BY <1>1, <1>2, Invariance, PTL DEF Spec, StoreSpec, Store!Spec, Store!vars
------------------------------------------------------------------------------
(* What is assumed of the identification of a file *)

\* The session's view of Identify, from Progress to Insert or the next file.
filePhase ==
    CASE wk \in {"identify", "extract", "check"} -> wk
      [] wk = "insert" -> "recorded"
      [] OTHER -> "dropped"

fileRecord == IF wk \in {"check", "insert"} THEN scan.record ELSE NoRecord

File == INSTANCE Identification
            WITH phase <- filePhase, cancelled <- dlg.cancelled, record <- fileRecord

Identifying == wk \in {"identify", "extract", "check"}

\* The steps of either thread during Identify are those of Identification, from
\* its beginning to its answer, unless the process ends.
AssumedStep ==
    /\ wk = "progress" /\ wk' = "identify" => File!Init'
    /\ Identifying /\ wk' \notin {"fault", "idle"} => [File!Next]_(File!vars)

\* What an outcome of Identify does to the rest of the session: a file that is
\* dropped is finished, and if it could not be read it is missed.
FileFrame ==
    /\ UNCHANGED <<ui, dlg, pers, frames, files>>
    /\ \/ wk' = "extract" /\ UNCHANGED scan
       \/ /\ wk' \in {"check", "insert"}
          /\ \E r \in Records : scan' = [scan EXCEPT !.record = r]
       \/ /\ wk = "identify" /\ wk' = "loop"
          /\ scan' = [scan EXCEPT !.current = NoFile, !.missed = @ \cup {scan.current}]
       \/ wk = "check" /\ FileFinished

\* While the worker identifies a file, the UI thread can only set the flag.
LEMMA UserDuringIdentify ==
    ASSUME IInv, Identifying, UserActs \/ UIStep
    PROVE  [File!Next]_(File!vars)
<1>1. dlg \in Dialogs /\ ui \in {"posted", "created", "pumping"}
  BY DEF IInv, TypeOK, SessionOutlivesTask, Identifying
<1>2. CASE OnCancel
  <2>1. ~dlg.cancelled /\ dlg'.cancelled /\ UNCHANGED <<wk, scan>>
    BY <1>1, <1>2 DEF OnCancel, Dialogs
  <2> QED BY <2>1 DEF File!Next, File!Cancel, filePhase, fileRecord
<1>3. CASE CreateWindow \/ OnInitDialog \/ OnInitializing \/ OnDone
  <2>1. dlg'.cancelled = dlg.cancelled /\ UNCHANGED <<wk, scan>>
    BY <1>1, <1>3 DEF CreateWindow, OnInitDialog, OnInitializing, OnDone, Dialogs
  <2> QED BY <2>1 DEF File!vars, filePhase, fileRecord
<1> QED BY <1>1, <1>2, <1>3 DEF UserActs, Commands, OnCommand, UIStep, Start, Analyze,
           AnalyzeCorrupt, DismissLoadBox, DismissSaveBox, SaveOpens, SaveSkipped, SaveCloses, SaveUnflushed, SaveFails

\* The worker's own steps are those of Identification.
LEMMA WorkerDuringIdentify ==
    ASSUME IInv, Identifying, WorkerStep, wk' # "fault"
    PROVE  File!Next
<1>1. scan \in Scans /\ dlg \in Dialogs /\ wk' # "idle"
  BY DEF IInv, TypeOK, Identifying, WorkerStep, InitializingStep, TraverseStep, IdentifyStep,
         EndStep, CalculateNumFiles, PathThrows, InitTotals, InitNotify, CreateInstance,
         DismissWorkerBox, IdentInit, NextFile, DirectoryError, TraversalEnds,
         ProgressUninitialized, Progress, ProgressFaults, IdentifyUnreadable,
         IdentifyUnmeasured, IdentifyExtracts, IdentifyThrows, IdentifyFaults,
         ReceiveCancelled, ExtractEnds, IdentifyReturns, FileFinished, Insert, Done,
         EmergencySerialize, FilterReturns
<1>2. IdentifyStep /\ ~Insert
  BY DEF Identifying, WorkerStep, InitializingStep, TraverseStep, EndStep, CalculateNumFiles,
         PathThrows, InitTotals, InitNotify, CreateInstance, DismissWorkerBox, IdentInit,
         NextFile, DirectoryError, TraversalEnds, ProgressUninitialized, Progress,
         ProgressFaults, Insert, Done, EmergencySerialize, FilterReturns
<1> USE DEF filePhase, fileRecord, NoRecord, Scans, File!Next
<1>3. CASE IdentifyUnreadable
  BY <1>1, <1>3 DEF IdentifyUnreadable, File!Unreadable
<1>4. CASE IdentifyUnmeasured
  BY <1>1, <1>4 DEF IdentifyUnmeasured, File!Unmeasured
<1>5. CASE IdentifyExtracts
  BY <1>1, <1>5 DEF IdentifyExtracts, File!Extracts
<1>6. CASE IdentifyThrows
  BY <1>1, <1>6 DEF IdentifyThrows, File!Throws
<1>7. CASE ReceiveCancelled
  BY <1>1, <1>7 DEF ReceiveCancelled, File!ReceiveCancelled
<1>8. CASE ExtractEnds
  BY <1>1, <1>8 DEF ExtractEnds, File!ExtractEnds
<1>9. CASE IdentifyReturns
  BY <1>1, <1>9 DEF IdentifyReturns, FileFinished, File!Returns
<1> QED BY <1>2, <1>3, <1>4, <1>5, <1>6, <1>7, <1>8, <1>9 DEF IdentifyStep, IdentifyFaults

\* Each file of a session goes through one Identification, interleaved with the
\* user's Cancel as it says.
THEOREM OneIdentification == Spec => [][AssumedStep]_vars
<1>1. IInv /\ [Next]_vars => [AssumedStep]_vars
  <2> SUFFICES ASSUME IInv, Next PROVE AssumedStep
    BY DEF vars
  <2>1. ASSUME wk = "progress", wk' = "identify" PROVE File!Init'
    <3>1. dlg.cancelled \in BOOLEAN /\ dlg' = dlg
      BY <2>1 DEF IInv, TypeOK, Dialogs, SessionOutlivesTask, Next, UserActs, UIStep,
            WorkerStep, InitializingStep, TraverseStep, IdentifyStep, EndStep, Start,
            Commands, OnCommand, OnCancel, Analyze, AnalyzeCorrupt, DismissLoadBox,
            DismissSaveBox, CreateWindow, OnInitDialog,
            OnInitializing, OnDone, SaveOpens, SaveSkipped, SaveCloses, SaveUnflushed,
            SaveFails, CalculateNumFiles, PathThrows, InitTotals, InitNotify,
            CreateInstance, DismissWorkerBox, IdentInit, NextFile, DirectoryError,
            TraversalEnds, ProgressUninitialized, Progress, ProgressFaults,
            IdentifyUnreadable, IdentifyUnmeasured, IdentifyExtracts, IdentifyThrows,
            IdentifyFaults, ReceiveCancelled, ExtractEnds, IdentifyReturns, Insert, Done,
            EmergencySerialize, FilterReturns, Killed, ProcessDies
    <3> QED BY <2>1, <3>1 DEF File!Init, filePhase, fileRecord, NoRecord
  <2>2. ASSUME Identifying, wk' \notin {"fault", "idle"} PROVE [File!Next]_(File!vars)
    BY <2>2, UserDuringIdentify, WorkerDuringIdentify DEF Next, Killed, ProcessDies
  <2> QED BY <2>1, <2>2 DEF AssumedStep
<1> QED BY <1>1, Invariance, PTL DEF Spec

\* An outcome that Identification allows, with its effect on the file, is a step
\* of the session.
LEMMA OutcomeIsStep ==
    ASSUME IInv, Identifying, FileFrame, File!Next
    PROVE  IdentifyStep /\ wk' # "fault"
<1>1. scan \in Scans /\ dlg \in Dialogs /\ dlg' = dlg /\ wk' \in {"extract", "check", "insert", "loop"}
  BY DEF IInv, TypeOK, FileFrame, FileFinished
<1> USE DEF filePhase, fileRecord, Identifying, FileFrame, Scans
<1>2. CASE File!Unreadable
  BY <1>1, <1>2 DEF File!Unreadable, IdentifyUnreadable, IdentifyStep
<1>3. CASE File!Unmeasured
  BY <1>1, <1>3 DEF File!Unmeasured, IdentifyUnmeasured, IdentifyStep, FileFinished
<1>4. CASE File!Extracts
  BY <1>1, <1>4 DEF File!Extracts, IdentifyExtracts, IdentifyStep, FileFinished
<1>5. CASE File!Throws
  BY <1>1, <1>5 DEF File!Throws, IdentifyThrows, IdentifyStep, FileFinished
<1>6. CASE File!ReceiveCancelled
  BY <1>1, <1>6 DEF File!ReceiveCancelled, ReceiveCancelled, IdentifyStep, FileFinished
<1>7. CASE File!ExtractEnds
  BY <1>1, <1>7 DEF File!ExtractEnds, ExtractEnds, IdentifyStep, FileFinished
<1>8. CASE File!Returns
  BY <1>1, <1>8 DEF File!Returns, IdentifyReturns, IdentifyStep, FileFinished
<1> QED BY <1>1, <1>2, <1>3, <1>4, <1>5, <1>6, <1>7, <1>8 DEF File!Next, File!Cancel

\* The steps of the session leave of the rest what FileFrame says.
LEMMA StepIsOutcome ==
    ASSUME IInv, Identifying, IdentifyStep, wk' # "fault"
    PROVE  FileFrame /\ File!Next
<1>1. scan \in Scans /\ (wk = "check" => scan.record \in Records)
  BY DEF IInv, TypeOK, ScanInv, Records
<1>2. File!Next
  BY WorkerDuringIdentify DEF WorkerStep
<1>3. wk = "check" => scan = [scan EXCEPT !.record = scan.record]
  BY <1>1 DEF Scans
<1>4. FileFrame
  BY <1>1, <1>3 DEF FileFrame, Identifying, IdentifyStep, Records, IdentifyUnreadable,
        IdentifyUnmeasured, IdentifyExtracts, IdentifyThrows, IdentifyFaults,
        ReceiveCancelled, ExtractEnds, IdentifyReturns, Insert
<1> QED BY <1>2, <1>4

\* The session assumes no more than Identification promises: what the worker may
\* do to a file, short of a fault, is exactly what Identification allows with
\* its effect on the file in progress.
THEOREM EveryOutcome ==
    ASSUME IInv, Identifying
    PROVE  (IdentifyStep /\ wk' # "fault") <=> (FileFrame /\ File!Next)
BY OutcomeIsStep, StepIsOutcome
==============================================================================
