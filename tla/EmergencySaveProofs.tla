------------------------- MODULE EmergencySaveProofs --------------------------
(***************************************************************************)
(* The safety properties of EmergencySave, for every set of files and      *)
(* names.  Every step is a step of ScanSession, leaves its state alone, or *)
(* is the release of the last owner, which tears the archive; all of them  *)
(* keep the invariant of the session (SessionKept).  In particular the     *)
(* Start handler is in its modal dialog as long as the worker has a task,  *)
(* so that the map of a task that has faulted is never left to the filter. *)
(***************************************************************************)
EXTENDS EmergencySave, ScanSessionProofs

\* The modal dialog and what comes before it.
Modal == {"posted", "created", "pumping"}

\* While the worker has a task the UI thread neither leaves the dialog nor
\* touches the map, the archive or the worker.
LEMMA UIFrame ==
    ASSUME IInv, UserActs \/ UIStep, wk # "idle"
    PROVE  /\ ui \in Modal /\ ui' \in Modal
           /\ wk' = wk /\ pers' = pers /\ archive' = archive
<1>1. ui \in Modal /\ dlg.queue \in {<< >>, <<"Initializing">>}
  BY DEF IInv, SessionOutlivesTask, QueueInv, Modal
<1>2. ~OnDone
  BY <1>1 DEF OnDone
<1> QED BY <1>1, <1>2 DEF UserActs, UIStep, Start, Commands, OnCommand, OnCancel, Analyze,
        AnalyzeCorrupt, DismissLoadBox, DismissSaveBox, CreateWindow, OnInitDialog, OnInitializing, SaveOpens, SaveSkipped, SaveCloses,
        SaveUnflushed, SaveFails, Modal, files

\* The UI thread may start a task when the worker has none; it loads a map when
\* it has none, and lets it go in its destructor.
LEMMA UIFrameIdle ==
    ASSUME IInv, UserActs \/ UIStep
    PROVE  /\ wk' \in {wk, "posted"}
           /\ wk = "idle" /\ wk' = "posted" => ui = "idle"
           /\ pers' = pers \/ pers.load = "none" \/ pers'.load = "none"
           /\ ui = "saving" => pers'.load = "none"
           /\ ui \notin {"idle", "saving"} /\ ui' \notin {"idle", "saving"} => pers' = pers
           /\ ui \notin {"idle", "saving"} /\ ui' = "saving" => pers' = pers
           /\ ui # "idle" /\ ui' = "idle" => pers'.load = "none"
<1>1. ui = "idle" => pers.load = "none"
  BY DEF IInv, StoreInv
<1>2. CASE UserActs
  BY <1>1, <1>2 DEF UserActs, Start, Commands, OnCommand, OnCancel, Analyze, AnalyzeCorrupt,
       DismissLoadBox, DismissSaveBox
<1>3. CASE SaveOpens
  BY <1>3 DEF SaveOpens
<1>4. CASE SaveSkipped \/ SaveCloses \/ SaveUnflushed \/ SaveFails
  BY <1>4 DEF SaveSkipped, SaveCloses, SaveUnflushed, SaveFails, HandlerReturns, NoInst
<1>5. CASE CreateWindow \/ OnInitDialog \/ OnInitializing \/ OnDone
  BY <1>5 DEF CreateWindow, OnInitDialog, OnInitializing, OnDone
<1> QED BY <1>2, <1>3, <1>4, <1>5 DEF UIStep

\* The worker leaves the UI thread's place and the archive alone, gives the
\* handler its map when it has none, and gets past Set only from its place.
LEMMA WorkerFrame ==
    ASSUME IInv, WorkerStep, wk \notin {"fault", "dump"}
    PROVE  /\ wk # "idle" /\ ui' = ui /\ archive' = archive
           /\ pers.load # "none" => pers'.load # "none"
           /\ wk' \in AfterSet => wk \in AfterSet \cup {"dll"}
           /\ wk \notin AfterSet => pers' = pers \/ pers.load = "none"
<1> USE DEF IInv, StoreInv, TypeOK, BeforeScan, BeforeLoad, AfterSet, OnFile, Measuring, files
<1>1. ASSUME NEW inst \in Loads(archive), CreateInstance(inst)
      PROVE  /\ wk # "idle" /\ ui' = ui /\ archive' = archive
             /\ pers.load # "none" => pers'.load # "none"
             /\ wk' \in AfterSet => wk \in AfterSet \cup {"dll"}
             /\ wk \notin AfterSet => pers' = pers \/ pers.load = "none"
  BY <1>1, LoadsType DEF CreateInstance
<1>2. CASE EndStep
  BY <1>2 DEF EndStep, Done, EmergencySerialize, FilterReturns
<1>3. CASE TraverseStep
  BY <1>3 DEF TraverseStep, NextFile, DirectoryError, TraversalEnds, ProgressUninitialized, Progress,
              FileFinished, ProgressFaults
<1>4. CASE IdentifyStep /\ ~Insert
  BY <1>4 DEF IdentifyStep, IdentifyUnreadable, IdentifyUnmeasured, IdentifyExtracts, IdentifyThrows,
              IdentifyFaults, ReceiveCancelled, ExtractEnds, IdentifyReturns, FileFinished
<1>5. CASE Insert
  BY <1>5 DEF Insert, Instances
<1>6. CASE InitializingStep /\ ~\E inst \in Loads(archive) : CreateInstance(inst)
  BY <1>6 DEF InitializingStep, CalculateNumFiles, PathThrows, InitTotals, InitNotify, PostMessage,
              DismissWorkerBox, IdentInit
<1> QED BY <1>1, <1>2, <1>3, <1>4, <1>5, <1>6 DEF WorkerStep, InitializingStep

\* Writing into the archive late, whatever is saved there meanwhile, keeps the
\* invariant of the session.
LEMMA LateWrite ==
    ASSUME IInv, NEW m \in ResultMaps, \A n \in Names : m[n] # "interrupted",
           archive' \in Closings(archive, m) \cup {archive},
           UNCHANGED <<ui, wk, dlg, scan, pers, frames, committed>>
    PROVE  IInv'
<1>1. /\ archive' \in ArchiveFiles
      /\ archive' = archive \/ archive'.health = "torn"
      /\ \A n \in Names : archive'.map[n] \in {m[n], archive.map[n]}
  BY ClosingsType DEF IInv, TypeOK
<1>2. TypeOK'
  BY <1>1 DEF IInv, TypeOK
<1>3. CancelledNeverRecorded'
  BY <1>1 DEF IInv, CancelledNeverRecorded
<1>4. StoreInv'
  BY <1>1 DEF IInv, StoreInv
<1>5. (SessionOutlivesTask /\ QueueInv /\ RangeSettled /\ ScanInv /\ LateInv /\ CoverageInv)'
  BY DEF IInv, SessionOutlivesTask, QueueInv, RangeSettled, ScanInv, LateInv, AtMostOneLate,
         CoverageInv
<1> QED BY <1>2, <1>3, <1>4, <1>5 DEF IInv

\* The releases and the other steps of a filter that do not end the process.
FilterWorks(t) ==
    \/ GetRef(t) \/ OpenEmergency(t) \/ EmergencyFails(t) \/ WriteEmergency(t)
    \/ Release(t) \/ ReleaseLast(t)

\* Every step keeps the invariant of the session.
LEMMA SessionStepKept == IInv /\ EInv /\ [ENext]_evars => IInv'
<1> SUFFICES ASSUME IInv, EInv, [ENext]_evars PROVE IInv'
  OBVIOUS
<1>1. ASSUME Next \/ UNCHANGED vars PROVE IInv'
  BY <1>1, StepInvariant
<1>2. ASSUME NEW t \in Threads, SessionStep(t) PROVE Next
  BY <1>2 DEF SessionStep, Next
<1>3. ASSUME NEW t \in Threads, HandlerLeaves(t) PROVE Next
  BY <1>3 DEF HandlerLeaves, Next, UIStep
<1>4. ASSUME Gone PROVE Next
  BY <1>4 DEF Gone, Next, Killed
<1>5. ASSUME NEW t \in Threads, ReleaseLast(t) PROVE IInv'
  BY <1>5, LateWrite DEF ReleaseLast, EInv, ETypeOK, OwnerInv
<1>6. ASSUME NEW t \in Threads,
             SetBegin(t) \/ SetEnd(t) \/ Fault(t) \/ (FilterWorks(t) /\ ~ReleaseLast(t))
      PROVE UNCHANGED vars
  BY <1>6 DEF SetBegin, SetEnd, Fault, FilterWorks, GetRef, OpenEmergency, EmergencyFails,
              WriteEmergency, Release
<1>7. ASSUME UNCHANGED evars PROVE UNCHANGED vars
  BY <1>7 DEF evars
<1> QED BY <1>1, <1>2, <1>3, <1>4, <1>5, <1>6, <1>7
        DEF ENext, EKilled, ThreadStep, FilterStep, FilterWorks, FilterEnds

\* Every step keeps the types.
LEMMA TypesInvariance == IInv /\ EInv /\ [ENext]_evars => ETypeOK'
<1> SUFFICES ASSUME IInv, EInv, [ENext]_evars PROVE ETypeOK'
  OBVIOUS
<1> USE DEF EInv, ETypeOK, FilterStates, Threads
<1>1. /\ EmptyMap \in ResultMaps /\ pers.map \in ResultMaps /\ Absent \in ArchiveFiles
      /\ \A h : MapOf(h) \in ResultMaps
      /\ \A m \in ResultMaps : Torn(m) \in ArchiveFiles /\ Good(m) \in ArchiveFiles
  BY EmptyMapType DEF Absent, Torn, Good, ArchiveFiles, IInv, TypeOK, Instances, MapOf
<1>2. ASSUME NEW t \in Threads, SessionStep(t) PROVE ETypeOK'
  BY <1>2 DEF SessionStep, Recorded
<1>3. ASSUME NEW t \in Threads, HandlerLeaves(t) PROVE ETypeOK'
  BY <1>1, <1>3 DEF HandlerLeaves
<1>4. ASSUME NEW t \in Threads, SetBegin(t) \/ SetEnd(t) \/ Fault(t) PROVE ETypeOK'
  BY <1>4 DEF SetBegin, SetEnd, Fault
<1>5. ASSUME NEW t \in Threads, GetRef(t) PROVE ETypeOK'
  BY <1>5 DEF GetRef
<1>6. ASSUME NEW t \in Threads, OpenEmergency(t) \/ EmergencyFails(t) \/ WriteEmergency(t)
      PROVE ETypeOK'
  BY <1>1, <1>6 DEF OpenEmergency, EmergencyFails, WriteEmergency
<1>7. ASSUME NEW t \in Threads, Release(t) \/ ReleaseLast(t) PROVE ETypeOK'
  BY <1>1, <1>7 DEF Release, ReleaseLast
<1>8. ASSUME Gone PROVE ETypeOK'
  BY <1>1, <1>8 DEF Gone
<1>9. ASSUME UNCHANGED evars PROVE ETypeOK'
  BY <1>9 DEF evars, saving
<1> QED BY <1>2, <1>3, <1>4, <1>5, <1>6, <1>7, <1>8, <1>9
        DEF ENext, EKilled, ThreadStep, FilterStep, FilterEnds

\* The reference follows the life of the handler's map.
LEMMA RefInvariance == IInv /\ IInv' /\ EInv /\ [ENext]_evars => RefInv'
<1> SUFFICES ASSUME IInv, IInv', EInv, [ENext]_evars PROVE RefInv'
  OBVIOUS
<1> USE DEF EInv, ETypeOK, RefInv, Threads
<1>1. wk # "idle" => ui \in Modal
  BY DEF IInv, SessionOutlivesTask, Modal
<1>2. ASSUME SessionStep("ui") PROVE RefInv'
  <2>1. (UserActs \/ UIStep) /\ setter # "ui" /\ setter' = setter
    BY <1>2 DEF SessionStep
  <2>2. CASE wk # "idle"
    <3>1. ui' \in Modal /\ wk' = wk /\ pers' = pers
      BY <2>1, <2>2, UIFrame
    <3>2. ref' = ref /\ (fresh' = fresh \/ fresh' = {})
      BY <1>2, <3>1 DEF SessionStep, Modal
    <3>3. setter = "nobody" \/ (setter = "worker" /\ wk = "dll" /\ ref # "current")
      BY <1>1, <2>2 DEF Registering, Modal
    <3>4. ref' # "current" => fresh' = {}
      BY <1>1, <2>2, <3>2 DEF Modal
    <3>5. setter' # "nobody" => Registering(setter)'
      BY <2>1, <3>1, <3>2, <3>3 DEF Registering
    <3>6. ref' = "current" => pers'.load # "none" /\ ui' \notin {"idle", "saving"}
      BY <3>1, <3>2 DEF Modal
    <3> QED BY <3>1, <3>2, <3>4, <3>5, <3>6
  <2>3. CASE wk = "idle"
    <3>1. wk' \in {"idle", "posted"}
      BY <2>1, <2>3, UIFrameIdle
    <3>2. setter = "nobody"
      BY <2>1, <2>3 DEF Registering
    <3>3. ref' = "current" => ref = "current" /\ ui' \notin {"idle", "saving"}
      BY <1>2 DEF SessionStep
    <3>4. ref' = "current" => pers' = pers
      BY <2>1, <3>3, UIFrameIdle
    <3>5. CASE ref' # "current" /\ ref = "current"
      <4>1. ui' \in {"idle", "saving"}
        BY <1>2, <3>5 DEF SessionStep
      <4>2. ui' = "idle" => fresh' = {}
        BY <1>2, <2>1, <3>5, UIFrameIdle DEF SessionStep
      <4> QED BY <3>1, <3>2, <3>5, <4>1, <4>2, <2>1 DEF AfterSet, OnFile, Measuring
    <3>6. CASE ref # "current"
      <4>1. fresh' = {} \/ fresh' = fresh
        BY <1>2, <2>1, UIFrameIdle DEF SessionStep
      <4>2. ui = "saving" => fresh' = {}
        BY <1>2, <2>1, UIFrameIdle DEF SessionStep
      <4> QED BY <3>1, <3>2, <3>3, <3>6, <4>1, <4>2, <2>1 DEF AfterSet, OnFile, Measuring
    <3> QED BY <3>1, <3>2, <3>3, <3>4, <3>5, <3>6, <2>1 DEF AfterSet, OnFile, Measuring
  <2> QED BY <2>2, <2>3
<1>3. ASSUME SessionStep("worker") PROVE RefInv'
  <2>1. WorkerStep /\ wk' \notin {"fault", "dump"} /\ filter["worker"] = "none" /\ setter' = setter
    BY <1>3 DEF SessionStep
  <2>2. /\ wk # "idle" /\ ui' = ui
        /\ pers.load # "none" => pers'.load # "none"
        /\ wk' \in AfterSet => wk \in AfterSet \cup {"dll"}
        /\ wk \notin AfterSet => pers' = pers \/ pers.load = "none"
    BY <2>1, WorkerFrame
  <2>3. ui' \notin {"idle", "saving"} /\ ref' = ref
    BY <1>1, <1>3, <2>2 DEF SessionStep, Modal
  <2>4. wk = "dll" => ref = "current"
    BY <1>3 DEF SessionStep, Registering
  <2>5. setter = "nobody"
    BY <1>1, <1>3, <2>2 DEF SessionStep, Registering, Modal
  <2>6. ref' # "current" => fresh' = {}
    <3> SUFFICES ASSUME ref # "current" PROVE fresh' = {}
      BY <2>3
    <3>1. fresh = {} /\ wk \notin AfterSet
      BY <1>1, <2>2 DEF Modal
    <3> QED BY <1>3, <2>2, <3>1 DEF SessionStep
  <2> QED BY <2>1, <2>2, <2>3, <2>4, <2>5, <2>6
<1>4. ASSUME NEW t \in Threads, HandlerLeaves(t) PROVE RefInv'
  <2>1. ui = "destroying" /\ wk = "idle" /\ wk' = "idle" /\ setter' = setter
    BY <1>1, <1>4 DEF HandlerLeaves, SaveSkipped, Modal
  <2>2. setter = "nobody"
    BY <1>4, <2>1 DEF HandlerLeaves, Registering
  <2> QED BY <1>4, <2>1, <2>2 DEF HandlerLeaves, AfterSet, OnFile, Measuring
<1>5. ASSUME NEW t \in Threads, SetBegin(t) PROVE RefInv'
  BY <1>5 DEF SetBegin, vars, Registering
<1>6. ASSUME NEW t \in Threads, SetEnd(t) PROVE RefInv'
  <2>1. Registering(t)
    BY <1>6 DEF SetEnd
  <2>2. pers.load # "none" /\ ui \notin {"idle", "saving"}
    BY <1>1, <2>1 DEF Registering, Modal, IInv, StoreInv, BeforeLoad
  <2> QED BY <1>6, <2>2 DEF SetEnd, vars
<1>7. ASSUME NEW t \in Threads, Fault(t) \/ FilterWorks(t) PROVE RefInv'
  <2>1. UNCHANGED <<ui, wk, pers, setter, fresh>>
    BY <1>7 DEF Fault, FilterWorks, GetRef, OpenEmergency, EmergencyFails, WriteEmergency,
                Release, ReleaseLast, vars
  <2>2. ref' = ref \/ (ref # "current" /\ ref' # "current")
    BY <1>7 DEF Fault, FilterWorks, GetRef, OpenEmergency, EmergencyFails, WriteEmergency,
                Release, ReleaseLast
  <2> QED BY <2>1, <2>2 DEF Registering
<1>8. ASSUME Gone PROVE RefInv'
  BY <1>8 DEF Gone, ProcessDies, AfterSet, OnFile, Measuring
<1>9. ASSUME UNCHANGED evars PROVE RefInv'
  BY <1>9 DEF evars, vars, saving, Registering
<1> QED BY <1>2, <1>3, <1>4, <1>5, <1>6, <1>7, <1>8, <1>9
        DEF ENext, EKilled, ThreadStep, FilterStep, FilterWorks, FilterEnds

\* A filter keeps its share from lock() to its release, and the handler leaves its
\* map to the worker's filter only when the task is over.
LEMMA OwnerInvariance == IInv /\ EInv /\ [ENext]_evars => OwnerInv'
<1> SUFFICES ASSUME IInv, EInv, [ENext]_evars PROVE OwnerInv'
  OBVIOUS
<1> USE DEF EInv, ETypeOK, RefInv, OwnerInv, Threads, Serializing, Serialized, FilterStates
<1>1. wk # "idle" => ui \in Modal
  BY DEF IInv, SessionOutlivesTask, Modal
<1>2. ASSUME SessionStep("ui") PROVE OwnerInv'
  <2>1. UserActs \/ UIStep
    BY <1>2 DEF SessionStep
  <2>2. ref = "current" /\ Shared => ref' = "current"
    <3> SUFFICES ASSUME ref = "current", Shared, ui' \in {"idle", "saving"} PROVE FALSE
      BY <1>2 DEF SessionStep
    <3>1. ui \notin {"idle", "saving", "destroying"}
      BY <1>2 DEF SessionStep
    <3> QED BY <2>1, <3>1 DEF UserActs, UIStep, Start, Commands, OnCommand, OnCancel,
            Analyze, AnalyzeCorrupt, DismissLoadBox, DismissSaveBox, CreateWindow, OnInitDialog,
            OnInitializing, OnDone, SaveOpens, SaveSkipped, SaveCloses, SaveUnflushed, SaveFails
  <2>3. \A t \in Threads : holds[t] = "current" => ref' = "current"
    BY <2>2 DEF Shared
  <2>4. wk' \in {wk, "posted"} /\ (wk \in {"idle", "posted"} => wk' \in {"idle", "posted"})
    BY <2>1, UIFrameIdle
  <2>5. wk = "insert" => wk' = "insert"
    BY <2>1, UIFrame
  <2>6. /\ \A u \in Threads : ~Disturbed("ui", u)
        /\ holds' = holds /\ orphan' = orphan /\ damaged' = damaged
        /\ \A u \in Threads : filter'[u] = filter[u]
                               \/ (filter[u] = "spoilt" /\ filter'[u] = "over")
    BY <1>2 DEF SessionStep, Disturbed
  <2>7. \A u \in Threads :
           (filter'[u] \in Serializing \cup Serialized) <=> (filter[u] \in Serializing \cup Serialized)
    BY <2>6
  <2>8. ref' = "orphan" => ref = "orphan"
    BY <1>2 DEF SessionStep
  <2>9. \A u \in Threads : filter[u] # "none" => filter'[u] # "none"
    BY <2>6
  <2> HIDE DEF Serializing, Serialized
  <2> QED BY <2>3, <2>4, <2>5, <2>6, <2>7, <2>8, <2>9
<1>3. ASSUME SessionStep("worker") PROVE OwnerInv'
  <2>1. wk # "idle" /\ ui' = ui /\ filter["worker"] = "none" /\ filter'["worker"] = "none"
    BY <1>3, WorkerFrame DEF SessionStep, Disturbed
  <2>2. ui' \notin {"idle", "saving"} /\ ref' = ref
    BY <1>1, <1>3, <2>1 DEF SessionStep, Modal
  <2>3. /\ holds' = holds /\ orphan' = orphan /\ damaged' = damaged
        /\ filter'["ui"] = filter["ui"]
           \/ (filter["ui"] = "write" /\ filter'["ui"] = "raced")
           \/ (filter["ui"] = "spoilt" /\ filter'["ui"] = "over")
    BY <1>3 DEF SessionStep, Disturbed
  <2>4. \A u \in Threads :
           (filter'[u] \in Serializing \cup Serialized) <=> (filter[u] \in Serializing \cup Serialized)
    BY <2>1, <2>3
  <2> QED BY <2>1, <2>2, <2>3, <2>4
<1>4. ASSUME NEW t \in Threads, HandlerLeaves(t) PROVE OwnerInv'
  <2>1. ui = "destroying" /\ wk = "idle" /\ wk' = "idle" /\ filter["ui"] = "none"
    BY <1>1, <1>4 DEF HandlerLeaves, SaveSkipped, Modal
  <2>2. filter["worker"] # "none"
    BY <1>4, <2>1 DEF HandlerLeaves, Shared
  <2>3. \A n \in Names : pers.map[n] # "interrupted"
    BY DEF IInv, CancelledNeverRecorded
  <2>4. PICK u \in Threads : holds[u] = "current"
    BY <1>4 DEF HandlerLeaves, Shared
  <2>5. \A v \in Threads :
           /\ holds'[v] # "nothing" <=> holds[v] # "nothing"
           /\ holds'[v] # "current"
    BY <1>4 DEF HandlerLeaves
  <2>6. holds'[u] = "orphan" /\ filter' = filter /\ orphan' = pers.map /\ damaged' = damaged
    BY <1>4, <2>4 DEF HandlerLeaves
  <2> HIDE DEF Serializing, Serialized
  <2> QED BY <2>1, <2>2, <2>3, <2>5, <2>6
<1>5. ASSUME NEW t \in Threads, SetBegin(t) \/ SetEnd(t) PROVE OwnerInv'
  BY <1>5 DEF SetBegin, SetEnd, vars
<1>6. ASSUME NEW t \in Threads, Fault(t) PROVE OwnerInv'
  BY <1>6 DEF Fault, vars
<1>7. ASSUME NEW t \in Threads, GetRef(t) PROVE OwnerInv'
  <2>1. ref = "orphan" => filter["worker"] # "none" /\ wk \in {"idle", "posted"}
    OBVIOUS
  <2> QED BY <1>7, <2>1 DEF GetRef, vars
<1>8. ASSUME NEW t \in Threads, OpenEmergency(t) \/ EmergencyFails(t) \/ WriteEmergency(t)
      PROVE OwnerInv'
  BY <1>8 DEF OpenEmergency, EmergencyFails, WriteEmergency, vars
<1>9. ASSUME NEW t \in Threads, Release(t) \/ ReleaseLast(t) PROVE OwnerInv'
  BY <1>9 DEF Release, ReleaseLast, LastOwner, vars, EmptyMap, NoRecord
<1>10. ASSUME Gone PROVE OwnerInv'
  BY <1>10 DEF Gone, EmptyMap, NoRecord
<1>11. ASSUME UNCHANGED evars PROVE OwnerInv'
  BY <1>11 DEF evars, vars, saving
<1> QED BY <1>2, <1>3, <1>4, <1>5, <1>6, <1>7, <1>8, <1>9, <1>10, <1>11
        DEF ENext, EKilled, ThreadStep, FilterStep, FilterEnds

\* What a filter on the worker alone has found, or saved, is still so.
LEMMA FilterInvariance ==
    IInv /\ EInv /\ [ENext]_evars => (WorkerFaultSaves /\ RaceInv)'
<1> SUFFICES ASSUME IInv, EInv, [ENext]_evars PROVE (WorkerFaultSaves /\ RaceInv)'
  OBVIOUS
<1> USE DEF EInv, ETypeOK, RefInv, OwnerInv, WorkerFaultSaves, RaceInv, Threads, FilterStates,
            Serializing, Serialized
<1>1. ASSUME SessionStep("ui") PROVE (WorkerFaultSaves /\ RaceInv)'
  <2>1. UserActs \/ UIStep
    BY <1>1 DEF SessionStep
  <2>2. /\ fresh' = {} \/ fresh' = fresh
        /\ ui = "saving" => fresh' = {}
    BY <1>1, <2>1, UIFrameIdle DEF SessionStep
  <2>3. /\ filter'["ui"] = filter["ui"] /\ filter["ui"] = "none"
        /\ filter'["worker"] = filter["worker"]
           \/ (filter["worker"] = "spoilt" /\ filter'["worker"] = "over")
        /\ holds' = holds /\ orphan' = orphan /\ damaged' = damaged /\ emergency' = emergency
    BY <1>1 DEF SessionStep, Disturbed
  <2>4. CASE filter["worker"] = "saved" /\ ~damaged
    <3>1. CASE holds["worker"] = "current"
      <4>1. ui \notin {"idle", "saving", "destroying"}
        BY <1>1, <3>1 DEF SessionStep, Shared
      <4>2. pers' = pers
        BY <2>1, <4>1 DEF UserActs, UIStep, Start, Commands, OnCommand, OnCancel,
            Analyze, AnalyzeCorrupt, DismissLoadBox, DismissSaveBox, CreateWindow, OnInitDialog,
            OnInitializing, OnDone, SaveOpens, SaveSkipped, SaveCloses, SaveUnflushed, SaveFails
      <4> QED BY <2>3, <2>4, <4>2 DEF MapOf
    <3>2. CASE holds["worker"] # "current"
      BY <2>3, <2>4, <3>2 DEF MapOf
    <3> QED BY <3>1, <3>2
  <2> QED BY <2>2, <2>3, <2>4
<1>2. ASSUME SessionStep("worker") PROVE (WorkerFaultSaves /\ RaceInv)'
  <2>1. filter["worker"] = "none" /\ filter'["worker"] = "none"
    BY <1>2 DEF SessionStep, Disturbed
  <2> QED BY <2>1
<1>3. ASSUME NEW t \in Threads, HandlerLeaves(t) PROVE (WorkerFaultSaves /\ RaceInv)'
  <2>1. filter["ui"] = "none" /\ holds["ui"] = "nothing"
    BY <1>3 DEF HandlerLeaves
  <2>2. holds["worker"] = "current"
    BY <1>3, <2>1 DEF HandlerLeaves, Shared
  <2>3. holds'["worker"] = "orphan" /\ orphan' = pers.map /\ fresh' = {}
    BY <1>3, <2>2 DEF HandlerLeaves
  <2>4. MapOf(holds["worker"])' = MapOf(holds["worker"])
    BY <2>2, <2>3 DEF MapOf
  <2>5. UNCHANGED <<filter, damaged, emergency>>
    BY <1>3 DEF HandlerLeaves
  <2> QED BY <2>3, <2>4, <2>5
<1>4. ASSUME NEW t \in Threads, SetBegin(t) \/ SetEnd(t) PROVE (WorkerFaultSaves /\ RaceInv)'
  BY <1>4 DEF SetBegin, SetEnd, vars, MapOf
<1>5. ASSUME NEW t \in Threads, Fault(t) PROVE (WorkerFaultSaves /\ RaceInv)'
  BY <1>5 DEF Fault, vars, MapOf
<1>6. ASSUME NEW t \in Threads, GetRef(t) PROVE (WorkerFaultSaves /\ RaceInv)'
  BY <1>6 DEF GetRef, vars, MapOf
<1>7. ASSUME NEW t \in Threads, OpenEmergency(t) \/ EmergencyFails(t) \/ WriteEmergency(t)
      PROVE (WorkerFaultSaves /\ RaceInv)'
  BY <1>7 DEF OpenEmergency, EmergencyFails, WriteEmergency, vars, MapOf
<1>8. ASSUME NEW t \in Threads, Release(t) \/ ReleaseLast(t)
      PROVE (WorkerFaultSaves /\ RaceInv)'
  BY <1>8 DEF Release, ReleaseLast, vars, MapOf
<1>9. ASSUME Gone PROVE (WorkerFaultSaves /\ RaceInv)'
  BY <1>9 DEF Gone
<1>10. ASSUME UNCHANGED evars PROVE (WorkerFaultSaves /\ RaceInv)'
  BY <1>10 DEF evars, vars, saving, MapOf
<1> QED BY <1>1, <1>2, <1>3, <1>4, <1>5, <1>6, <1>7, <1>8, <1>9, <1>10
        DEF ENext, EKilled, ThreadStep, FilterStep, FilterEnds

\* The two invariants hold at the start and are kept together by every step.
LEMMA EmergencyInvariance == ESpec => [](IInv /\ EInv)
<1>1. EInit => IInv /\ EInv
  <2>1. EInit => IInv
    BY InitInvariant DEF EInit
  <2>2. EInit => EInv
    <3> SUFFICES ASSUME EInit PROVE EInv
      OBVIOUS
    <3> USE DEF EInit
    <3>1. ETypeOK
      BY EmptyMapType DEF ETypeOK, Threads, FilterStates, Absent, ArchiveFiles
    <3>2. RefInv
      BY DEF Init, RefInv, AfterSet, OnFile, Measuring
    <3>3. OwnerInv
      BY DEF OwnerInv, Serializing, Serialized, EmptyMap, NoRecord
    <3>4. RaceInv /\ WorkerFaultSaves
      BY DEF RaceInv, WorkerFaultSaves, Threads
    <3> QED BY <3>1, <3>2, <3>3, <3>4 DEF EInv
  <2> QED BY <2>1, <2>2
<1>2. IInv /\ EInv /\ [ENext]_evars => (IInv /\ EInv)'
  BY SessionStepKept, TypesInvariance, RefInvariance, OwnerInvariance, FilterInvariance DEF EInv
<1> QED BY <1>1, <1>2, PTL DEF ESpec

\* Faults on either thread, filters that share the map, and the late write of a
\* filter that is its last owner leave the invariant of the session as it is:
\* its safety properties hold with them as well as without.
THEOREM SessionKept == ESpec => []IInv
BY EmergencyInvariance, PTL

\* A fault on the worker, wherever it happens, loses no result that is not being
\* saved by the handler itself.
THEOREM FaultSaves == ESpec => []WorkerFaultSaves
<1>1. EInv => WorkerFaultSaves
  BY DEF EInv
<1> QED BY <1>1, EmergencyInvariance, PTL

\* A map the worker left in pieces is never written over the archive: the task
\* that damaged it does not end, so that the handler stays in its dialog and the
\* filters never become the owners.
THEOREM DamagedKept == ESpec => DamagedNeverSaved
<1>1. IInv /\ EInv /\ [ENext]_evars => [damaged => archive' = archive]_evars
  <2> SUFFICES ASSUME IInv, EInv, ENext, damaged PROVE archive' = archive
    BY DEF evars
  <2>1. filter["worker"] # "none" /\ wk = "insert" /\ \A t \in Threads : holds[t] # "orphan"
    BY DEF EInv, OwnerInv
  <2>2. ASSUME NEW t \in Threads, SessionStep(t) PROVE archive' = archive
    <3>1. t = "ui" /\ (UserActs \/ UIStep)
      BY <2>1, <2>2 DEF SessionStep, Threads
    <3> QED BY <2>1, <3>1, UIFrame
  <2>3. ASSUME NEW t \in Threads,
               HandlerLeaves(t) \/ SetBegin(t) \/ SetEnd(t) \/ Fault(t) PROVE archive' = archive
    BY <2>3 DEF HandlerLeaves, SaveSkipped, SetBegin, SetEnd, Fault, vars, files
  <2>4. ASSUME NEW t \in Threads, FilterWorks(t) PROVE archive' = archive
    <3>1. ~ReleaseLast(t)
      BY <2>1 DEF ReleaseLast, LastOwner
    <3> QED BY <2>4, <3>1 DEF FilterWorks, GetRef, OpenEmergency, EmergencyFails, WriteEmergency,
                              Release, vars
  <2>5. CASE Gone
    BY <2>5 DEF Gone, ProcessDies, files
  <2> QED BY <2>2, <2>3, <2>4, <2>5
          DEF ENext, EKilled, ThreadStep, FilterStep, FilterWorks, FilterEnds
<1> QED BY <1>1, EmergencyInvariance, PTL DEF ESpec, DamagedNeverSaved
==============================================================================
