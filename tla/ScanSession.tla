----------------------------- MODULE ScanSession -----------------------------
(***************************************************************************)
(* The core of the application: the two buttons of the main dialog, the    *)
(* progress dialog, the directory traversing thread, and the result map    *)
(* they share (main_dialog.cpp, progress_dialog.cpp, dir_traversing.cpp,   *)
(* audio_quality_ident.cpp, persistent_map.cpp, my_app.cpp).               *)
(*                                                                         *)
(* Two threads interleave.  The UI thread runs a button handler; Start     *)
(* posts the traversal to the worker thread and then opens the modal       *)
(* progress dialog, on whose end it destroys the Intermedia that owns the  *)
(* PersistentMap, whose destructor saves.  The worker runs                 *)
(* DirTraversing::Traverse with callbacks into Intermedia and through it   *)
(* into the dialog.  The user works on one result directory.               *)
(***************************************************************************)
EXTENDS Naturals, Sequences, PersistentMap

CONSTANTS Files,      \* audio files the traversal may meet
          NameOf,     \* the base name of each file: the key of its result
          NoFile,
          Counts,     \* what CalculateNumFiles may return
          MaxNested   \* bound: handlers suspended in an error box at a time

ASSUME FilesAssumption == NoFile \notin Files
ASSUME NameOfAssumption == NameOf \in [Files -> Names]
ASSUME CountsAssumption == Counts \subseteq Nat
ASSUME MaxNestedAssumption == MaxNested \in Nat

VARIABLES
    ui,         \* where the UI thread is
    wk,         \* where the worker thread is
    dlg,        \* the ProgressDialog and its window's message queue
    scan,       \* the traversal and the Intermedia of the running session
    pers,       \* the PersistentMap of the running handler, NoInst if none
    frames,     \* handlers suspended in a message box, innermost last
    archive,    \* persistence.xml
    committed   \* history: the map of the last completed save

vars == <<ui, wk, dlg, scan, pers, frames, archive, committed>>
files == <<archive, committed>>

------------------------------------------------------------------------------
(* Types *)

\* posted: the task is posted, DoModal not yet called; created: the window
\* exists, OnInitDialog has not run; pumping: DoModal pumps messages;
\* destroying: the handler's objects are being destroyed; saving: the
\* archive is open for writing.
UIStates == {"idle", "posted", "created", "pumping", "destroying", "saving"}

\* count .. dll: Intermedia::Initializing; loop, progress: the traversal;
\* identify .. insert: AudioQualityIdent::Identify and what follows it;
\* fault, dump: the unhandled exception filter.
WorkerStates ==
    {"idle", "posted", "init", "notify", "load", "box", "dll", "loop",
     "progress", "identify", "extract", "check", "insert", "done",
     "fault", "dump"}

MessageQueues ==
    {<< >>, <<"Initializing">>, <<"Done">>, <<"Initializing", "Done">>}

Dialogs ==
    [queue : MessageQueues,  \* messages posted to the window
     cancelled : BOOLEAN,    \* cancelFlag_
     total : Nat,            \* total_
     range : Nat]            \* upper end of the progress bar

NewDialog ==
    [queue |-> << >>, cancelled |-> FALSE, total |-> 0, range |-> 0]

Scans ==
    [count : Nat,                           \* CalculateNumFiles
     todo : SUBSET Files,                   \* not yet traversed
     current : Files \cup {NoFile},         \* being progressed
     record : Records \cup {NoRecord},      \* result of Identify for current
     initialized : BOOLEAN,                 \* initialized_
     missed : SUBSET Files,                 \* history: never measured
     late : Nat]                            \* history: inserted after a cancel

NoScan ==
    [count |-> 0, todo |-> {}, current |-> NoFile, record |-> NoRecord,
     initialized |-> FALSE, missed |-> {}, late |-> 0]

Init ==
    /\ ui = "idle" /\ wk = "idle"
    /\ dlg = NewDialog /\ scan = NoScan
    /\ pers = NoInst /\ frames = << >>
    /\ archive = Absent /\ committed = EmptyMap

------------------------------------------------------------------------------
(* The UI thread: a scan *)

\* OnBnClickedButtonStart up to DoModal: a fresh dialog and Intermedia, the
\* task posted to the worker.  The directory holds some of the files.
Start(found) ==
    /\ ui = "idle"
    /\ ui' = "posted" /\ wk' = "posted"
    /\ dlg' = NewDialog
    /\ scan' = [NoScan EXCEPT !.todo = found, !.missed = Files \ found]
    /\ UNCHANGED <<pers, frames, files>>

\* DoModal creates the window: from now on messages can be posted to it.
CreateWindow ==
    /\ ui = "posted"
    /\ ui' = "created"
    /\ UNCHANGED <<wk, dlg, scan, pers, frames, files>>

\* Mutant: the range is left to the Initializing message.
OnInitDialogNoRange ==
    /\ ui = "created"
    /\ ui' = "pumping"
    /\ UNCHANGED <<wk, dlg, scan, pers, frames, files>>

OnInitDialog ==
    /\ ui = "created"
    /\ ui' = "pumping"
    /\ dlg' = [dlg EXCEPT !.range = dlg.total]
    /\ UNCHANGED <<wk, scan, pers, frames, files>>

\* Mutant: the dialog template has an OK button as well.
CommandsWithOk == {"IDCANCEL", "IDOK"}

\* The commands the user can send the progress dialog.  The only control of its
\* template that sends one is the default button "Cancel": Enter presses the
\* default button and Escape sends IDCANCEL, and neither sends anything once
\* that button is disabled.  There is no OK button, and no system menu.
Commands == {"IDCANCEL"}

\* The button is disabled by the first press; the dialog stays.
OnCancel ==
    /\ ui = "pumping"
    /\ ~dlg.cancelled
    /\ dlg' = [dlg EXCEPT !.cancelled = TRUE]
    /\ UNCHANGED <<ui, wk, scan, pers, frames, files>>

\* External: CDialog::OnOK, which ProgressDialog does not override, ends the
\* dialog whatever the task is doing.
OnOK ==
    /\ ui = "pumping"
    /\ ui' = "destroying"
    /\ UNCHANGED <<wk, dlg, scan, pers, frames, files>>

OnCommand(id) == IF id = "IDCANCEL" THEN OnCancel ELSE OnOK

OnInitializing ==
    /\ ui = "pumping"
    /\ dlg.queue # << >> /\ Head(dlg.queue) = "Initializing"
    /\ dlg' = [dlg EXCEPT !.queue = Tail(@), !.range = dlg.total]
    /\ UNCHANGED <<ui, wk, scan, pers, frames, files>>

\* EndDialog: DoModal returns and the handler destroys Intermedia.
OnDone ==
    /\ ui = "pumping"
    /\ dlg.queue # << >> /\ Head(dlg.queue) = "Done"
    /\ dlg' = [dlg EXCEPT !.queue = Tail(@), !.total = 0]
    /\ ui' = "destroying"
    /\ UNCHANGED <<wk, scan, pers, frames, files>>

------------------------------------------------------------------------------
(* The UI thread: ~PersistentMap *)

HandlerReturns ==
    /\ ui' = "idle"
    /\ dlg' = NewDialog /\ scan' = NoScan /\ pers' = NoInst

\* The ofstream is opened on the archive itself, which truncates it.
SaveOpens ==
    /\ ui = "destroying"
    /\ ui' = "saving"
    /\ archive' = Torn(pers.map)
    /\ UNCHANGED <<wk, dlg, scan, pers, frames, committed>>

\* The stream is not good: nothing is saved and nobody is told.
SaveSkipped ==
    /\ ui = "destroying"
    /\ HandlerReturns
    /\ UNCHANGED <<wk, frames, files>>

SaveCloses ==
    /\ ui = "saving"
    /\ archive' = Good(pers.map) /\ committed' = pers.map
    /\ HandlerReturns
    /\ UNCHANGED <<wk, frames>>

\* What is still buffered does not reach the disk when the stream is closed:
\* the ofstream's destructor tells nobody.
SaveUnflushed ==
    /\ ui = "saving"
    /\ HandlerReturns
    /\ UNCHANGED <<wk, frames, files>>

\* The writer throws.  The error box pumps messages and disables no window,
\* so the main dialog takes clicks while the handler is suspended in it.  The
\* stream belongs to the suspended SerializeNow, which has not closed it.
SaveFails ==
    /\ ui = "saving"
    /\ Len(frames) < MaxNested
    /\ frames' = Append(frames, [map |-> pers.map, load |-> "failed"])
    /\ HandlerReturns
    /\ UNCHANGED <<wk, files>>

------------------------------------------------------------------------------
(* The UI thread: OnBnClickedButtonAnalyze.  The reports only read the map. *)

\* Mutant: the short pieces are left out of the map itself, not of a copy.
AnalyzeExcludesShort(inst) ==
    /\ ui = "idle"
    /\ inst \in Loads(archive)
    /\ inst.load # "corrupt"
    /\ pers' \in {[map |-> m, load |-> inst.load] : m \in Remains(inst.map)}
    /\ ui' = "destroying"
    /\ UNCHANGED <<wk, dlg, scan, frames, files>>

Analyze(inst) ==
    /\ ui = "idle"
    /\ inst \in Loads(archive)
    /\ inst.load # "corrupt"
    /\ pers' = inst
    /\ ui' = "destroying"
    /\ UNCHANGED <<wk, dlg, scan, frames, files>>

\* The constructor's error box: the handler is suspended with what it read.
AnalyzeCorrupt(inst) ==
    /\ ui = "idle"
    /\ inst \in Loads(archive)
    /\ inst.load = "corrupt"
    /\ Len(frames) < MaxNested
    /\ frames' = Append(frames, inst)
    /\ UNCHANGED <<ui, wk, dlg, scan, pers, files>>

\* The handler of the innermost box, and what the stack is without it.
Innermost == frames[Len(frames)]
ReturnToInnermost == frames' = SubSeq(frames, 1, Len(frames) - 1)

\* The box of a constructor is dismissed: the suspended Analyze goes on to
\* report and to save what it had read.
DismissLoadBox ==
    /\ ui = "idle"
    /\ frames # << >> /\ Innermost.load = "corrupt"
    /\ ReturnToInnermost
    /\ pers' = Innermost
    /\ ui' = "destroying"
    /\ UNCHANGED <<wk, dlg, scan, files>>

\* The box of a failed save is dismissed: only now is its stream flushed and
\* closed, over whatever a nested handler has saved in the meantime.
DismissSaveBox ==
    /\ ui = "idle"
    /\ frames # << >> /\ Innermost.load = "failed"
    /\ ReturnToInnermost
    /\ archive' \in Closings(archive, Innermost.map)
    /\ UNCHANGED <<ui, wk, dlg, scan, pers, committed>>

------------------------------------------------------------------------------
(* The worker: Intermedia::Initializing *)

\* The number of files is read from the directory before the traversal reads
\* it again, and an error ends the count of a directory early.
CalculateNumFiles(n) ==
    /\ wk = "posted"
    /\ scan' = [scan EXCEPT !.count = n]
    /\ wk' = "init"
    /\ UNCHANGED <<ui, dlg, pers, frames, files>>

\* exists and is_regular_file of the initial path throw outside any try, before
\* the count and again before the visit: nothing on the worker catches it.
PathThrows ==
    /\ wk \in {"posted", "dll"}
    /\ wk' = "fault"
    /\ UNCHANGED <<ui, dlg, scan, pers, frames, files>>

InitTotals ==
    /\ wk = "init"
    /\ dlg' = [dlg EXCEPT !.total = IF scan.count > 0 THEN scan.count ELSE 1]
    /\ wk' = "notify"
    /\ UNCHANGED <<ui, scan, pers, frames, files>>

HasWindow == ui \in {"created", "pumping"}

PostMessage(m) ==
    dlg' = IF HasWindow THEN [dlg EXCEPT !.queue = Append(@, m)] ELSE dlg

\* Mutant: the notification is sent by both callbacks in the chain.
InitNotifyTwice ==
    /\ wk = "notify"
    /\ dlg' = IF HasWindow
              THEN [dlg EXCEPT !.queue = @ \o <<"Initializing", "Initializing">>]
              ELSE dlg
    /\ wk' = "load"
    /\ UNCHANGED <<ui, scan, pers, frames, files>>

InitNotify ==
    /\ wk = "notify"
    /\ PostMessage("Initializing")
    /\ wk' = "load"
    /\ UNCHANGED <<ui, scan, pers, frames, files>>

\* Mutant: the constructor does not read the archive.
CreateInstanceEmpty(inst) ==
    /\ wk = "load"
    /\ inst \in Loads(archive)
    /\ pers' = [inst EXCEPT !.map = EmptyMap]
    /\ wk' = IF inst.load = "corrupt" THEN "box" ELSE "dll"
    /\ UNCHANGED <<ui, dlg, scan, frames, files>>

CreateInstance(inst) ==
    /\ wk = "load"
    /\ inst \in Loads(archive)
    /\ pers' = inst
    /\ wk' = IF inst.load = "corrupt" THEN "box" ELSE "dll"
    /\ UNCHANGED <<ui, dlg, scan, frames, files>>

DismissWorkerBox ==
    /\ wk = "box"
    /\ wk' = "dll"
    /\ UNCHANGED <<ui, dlg, scan, pers, frames, files>>

\* LoadMultiMediaCoreFunctions finds kgplayer.dll and its factories, or not.
IdentInit(ok) ==
    /\ wk = "dll"
    /\ scan' = [scan EXCEPT !.initialized = ok]
    /\ wk' = "loop"
    /\ UNCHANGED <<ui, dlg, pers, frames, files>>

------------------------------------------------------------------------------
(* The worker: the traversal *)

NextFile(f) ==
    /\ wk = "loop"
    /\ f \in scan.todo
    /\ scan' = [scan EXCEPT !.todo = @ \ {f}, !.current = f]
    /\ wk' = "progress"
    /\ UNCHANGED <<ui, dlg, pers, frames, files>>

\* A filesystem_error ends the iteration of one directory; its remaining
\* entries are skipped and the next pending directory is taken.
DirectoryError(lost) ==
    /\ wk = "loop"
    /\ lost # {} /\ lost \subseteq scan.todo
    /\ scan' = [scan EXCEPT !.todo = @ \ lost, !.missed = @ \cup lost]
    /\ UNCHANGED <<ui, wk, dlg, pers, frames, files>>

TraversalEnds ==
    /\ wk = "loop"
    /\ scan.todo = {}
    /\ wk' = "done"
    /\ UNCHANGED <<ui, dlg, scan, pers, frames, files>>

\* Mutant: a halted traversal returns without the automatic Done.
ProgressUninitializedNoDone ==
    /\ wk = "progress"
    /\ ~scan.initialized
    /\ wk' = "idle"
    /\ UNCHANGED <<ui, dlg, scan, pers, frames, files>>

\* Intermedia::Progress halts the traversal when the DLL did not load.
ProgressUninitialized ==
    /\ wk = "progress"
    /\ ~scan.initialized
    /\ wk' = "done"
    /\ UNCHANGED <<ui, dlg, scan, pers, frames, files>>

FileFinished ==
    /\ scan' = [scan EXCEPT !.current = NoFile, !.record = NoRecord]
    /\ wk' = "loop"

\* Mutant: the flag is not looked at between two files.
ProgressNoCancel ==
    /\ wk = "progress"
    /\ scan.initialized
    /\ IF pers.map[NameOf[scan.current]] # NoRecord THEN FileFinished
       ELSE wk' = "identify" /\ UNCHANGED scan
    /\ UNCHANGED <<ui, dlg, pers, frames, files>>

\* ProgressDialog::Progress updates the controls (a SendMessage the pumping UI
\* thread answers; before OnInitDialog has attached them the text is lost) and
\* then reads the flag; a name that has a result is not measured again.
Progress ==
    /\ wk = "progress"
    /\ scan.initialized
    /\ IF dlg.cancelled THEN wk' = "done" /\ UNCHANGED scan
       ELSE IF pers.map[NameOf[scan.current]] # NoRecord THEN FileFinished
       ELSE wk' = "identify" /\ UNCHANGED scan
    /\ UNCHANGED <<ui, dlg, pers, frames, files>>

\* External: CWnd::SetWindowText on a control that has no window may throw an
\* MFC exception, which nothing on the worker catches.
ProgressFaults ==
    /\ wk = "progress"
    /\ scan.initialized
    /\ ui \in {"posted", "created"}
    /\ wk' = "fault"
    /\ UNCHANGED <<ui, dlg, scan, pers, frames, files>>

------------------------------------------------------------------------------
(* The worker: Identify *)

\* Mutant: a file that gives no result halts the traversal.
IdentifyUnreadableHalts ==
    /\ wk = "identify"
    /\ scan' = [scan EXCEPT !.current = NoFile]
    /\ wk' = "done"
    /\ UNCHANGED <<ui, dlg, pers, frames, files>>

\* The file is empty or does not open: false, nothing is recorded.
IdentifyUnreadable ==
    /\ wk = "identify"
    /\ scan' = [scan EXCEPT !.current = NoFile, !.missed = @ \cup {scan.current}]
    /\ wk' = "loop"
    /\ UNCHANGED <<ui, dlg, pers, frames, files>>

\* Unknown format, Open or Seek failed: true, without looking at the flag.
IdentifyUnmeasured ==
    /\ wk = "identify"
    /\ scan' = [scan EXCEPT !.record = "unmeasured"]
    /\ wk' = "insert"
    /\ UNCHANGED <<ui, dlg, pers, frames, files>>

IdentifyExtracts ==
    /\ wk = "identify"
    /\ wk' = "extract"
    /\ UNCHANGED <<ui, dlg, scan, pers, frames, files>>

\* A std::exception anywhere in Identify is recorded as "[Crash]",
\* an entry without a measurement.
IdentifyThrows ==
    /\ wk \in {"identify", "extract"}
    /\ scan' = [scan EXCEPT !.record = "unmeasured"]
    /\ wk' = "insert"
    /\ UNCHANGED <<ui, dlg, pers, frames, files>>

\* Any other fault in the decoder reaches MyUnhandledExceptionFilter.
IdentifyFaults ==
    /\ wk \in {"identify", "extract"}
    /\ wk' = "fault"
    /\ UNCHANGED <<ui, dlg, scan, pers, frames, files>>

\* Receive saw the flag and told the decoder to stop.
ReceiveCancelled ==
    /\ wk = "extract"
    /\ dlg.cancelled
    /\ scan' = [scan EXCEPT !.record = "interrupted"]
    /\ wk' = "check"
    /\ UNCHANGED <<ui, dlg, pers, frames, files>>

\* The decoder reached the end of the file, or stopped with an error that
\* ExtractSpectrum's ignored result does not tell apart from it.
ExtractEnds ==
    /\ wk = "extract"
    /\ scan' = [scan EXCEPT !.record = "measured"]
    /\ wk' = "check"
    /\ UNCHANGED <<ui, dlg, pers, frames, files>>

\* Mutant: Identify does not look at the flag after the extraction.
IdentifyReturnsAlways ==
    /\ wk = "check"
    /\ wk' = "insert" /\ UNCHANGED scan
    /\ UNCHANGED <<ui, dlg, pers, frames, files>>

\* A cancelled measurement returns false and is dropped; Intermedia::Progress
\* still asks the traversal to go on.
IdentifyReturns ==
    /\ wk = "check"
    /\ IF dlg.cancelled THEN FileFinished
       ELSE wk' = "insert" /\ UNCHANGED scan
    /\ UNCHANGED <<ui, dlg, pers, frames, files>>

Insert ==
    /\ wk = "insert"
    /\ pers' = [pers EXCEPT !.map =
                    InsertResult(@, NameOf[scan.current], scan.record)]
    /\ scan' = [scan EXCEPT !.current = NoFile, !.record = NoRecord,
                            !.late = IF dlg.cancelled THEN @ + 1 ELSE @]
    /\ wk' = "loop"
    /\ UNCHANGED <<ui, dlg, frames, files>>

------------------------------------------------------------------------------
(* The worker: the end of the task, and of the process *)

\* autoReportDone, on every way out of DirTraversing::Traverse.  Without a
\* window the message goes to the worker's own queue and is lost.
Done ==
    /\ wk = "done"
    /\ PostMessage("Done")
    /\ wk' = "idle"
    /\ UNCHANGED <<ui, scan, pers, frames, files>>

\* The filter saves the current instance to emergency_archive.xml, a file that
\* nothing reads back and that is therefore not part of the state.
EmergencySerialize ==
    /\ wk = "fault"
    /\ wk' = "dump"
    /\ UNCHANGED <<ui, dlg, scan, pers, frames, files>>

\* No destructor runs; the files stay and the application is started again.
ProcessDies ==
    /\ ui' = "idle" /\ wk' = "idle"
    /\ dlg' = NewDialog /\ scan' = NoScan
    /\ pers' = NoInst /\ frames' = << >>
    /\ UNCHANGED files

FilterReturns == wk = "dump" /\ ProcessDies

\* The process is terminated from outside, at any point.
Killed == ProcessDies

------------------------------------------------------------------------------
UserActs ==
    \/ \E found \in SUBSET Files : Start(found)
    \/ \E id \in Commands : OnCommand(id)
    \/ \E inst \in Loads(archive) : Analyze(inst) \/ AnalyzeCorrupt(inst)
    \/ DismissLoadBox \/ DismissSaveBox

UIStep ==
    \/ CreateWindow \/ OnInitDialog \/ OnInitializing \/ OnDone
    \/ SaveOpens \/ SaveSkipped \/ SaveCloses \/ SaveUnflushed \/ SaveFails

InitializingStep ==
    \/ \E n \in Counts : CalculateNumFiles(n)
    \/ PathThrows \/ InitTotals \/ InitNotify
    \/ \E inst \in Loads(archive) : CreateInstance(inst)
    \/ DismissWorkerBox
    \/ \E ok \in BOOLEAN : IdentInit(ok)

TraverseStep ==
    \/ \E f \in Files : NextFile(f)
    \/ \E lost \in SUBSET Files : DirectoryError(lost)
    \/ TraversalEnds \/ ProgressUninitialized \/ Progress \/ ProgressFaults

IdentifyStep ==
    \/ IdentifyUnreadable \/ IdentifyUnmeasured \/ IdentifyExtracts
    \/ IdentifyThrows \/ IdentifyFaults \/ ReceiveCancelled \/ ExtractEnds
    \/ IdentifyReturns \/ Insert

EndStep == Done \/ EmergencySerialize \/ FilterReturns

WorkerStep == InitializingStep \/ TraverseStep \/ IdentifyStep \/ EndStep

Next == UserActs \/ UIStep \/ WorkerStep \/ Killed

Spec == Init /\ [][Next]_vars

\* Both threads keep running, the decoder returns and the user answers the
\* worker's error box; nobody has to click anything else.
Fairness == WF_vars(UIStep) /\ WF_vars(WorkerStep)

FairSpec == Spec /\ Fairness

------------------------------------------------------------------------------
(* Properties *)

\* The state is well formed; in particular the dialog's queue never holds two
\* messages of a kind, nor Done before Initializing.
TypeOK ==
    /\ ui \in UIStates /\ wk \in WorkerStates
    /\ dlg \in Dialogs /\ scan \in Scans
    /\ pers \in Instances /\ frames \in Seq(Instances)
    /\ archive \in ArchiveFiles /\ committed \in ResultMaps

\* The dialog and the Intermedia live on the stack of the Start handler: as
\* long as the worker runs a task that refers to them, the handler is in
\* DoModal or on its way there.  No command the user can send and no message
\* of the task itself ends the dialog before the task is over.
SessionOutlivesTask == wk # "idle" => ui \in {"posted", "created", "pumping"}

\* A measurement the user interrupted half way is never taken for a result, in
\* memory or in a file.
CancelledNeverRecorded ==
    \A n \in Names :
        /\ \A m \in {pers.map, archive.map, committed} :
               m[n] # "interrupted"
        /\ \A i \in 1..Len(frames) : frames[i].map[n] # "interrupted"

\* After Cancel at most one more file is recorded: the one in progress.
AtMostOneLate == scan.late <= 1

\* Whichever thread is first, the worker storing the total and looking for the
\* window or the UI thread creating it and reading the total, the progress bar
\* ends up with the range of this scan.
RangeSettled ==
    ui = "pumping" /\ wk \notin {"posted", "init", "notify"}
    /\ (\A i \in 1..Len(dlg.queue) : dlg.queue[i] # "Initializing")
        => dlg.range = dlg.total

\* A traversal that was not cancelled has a result for every file it could
\* read, when it reports that it is done.
Coverage ==
    wk = "done" /\ ~dlg.cancelled /\ scan.initialized
        => \A f \in Files \ scan.missed : pers.map[NameOf[f]] # NoRecord

\* The abstract session: sound when the constructor got what was saved last.
session == CASE pers.load = "none" -> "none"
             [] pers.load = "ok" -> "sound"
             [] OTHER -> "suspect"

\* The file holds what was saved last; some suspended save still has it open.
intact == archive.health # "torn"
unclosed == \E i \in 1..Len(frames) : frames[i].load = "failed"

Store == INSTANCE ResultStore WITH store <- committed

\* Saved results are only lost by a handler that could not read them, and the
\* archive only stops to hold them through a save that was not completed or a
\* late close of its stream, across scans, nested handlers, faults and restarts.
StoreSpec == Store!Spec

\* Once the dialog pumps while its task runs, it ends: by the task's Done, or
\* with the process.
OpenDialogEnds == (ui = "pumping" /\ wk # "idle") ~> (ui # "pumping")

\* dir_traversing.h promises a Done for every traversal, as the signal that the
\* callback object can go: every Start comes back.
StartReturns == (ui = "posted") ~> (ui = "idle")

\* progress_dialog.cpp asserts that there are files to go through.
TotalFilesPositive == wk = "init" => scan.count > 0

------------------------------------------------------------------------------
(* The inductive invariant *)

BeforeLoad == {"posted", "init", "notify", "load"}
BeforeScan == BeforeLoad \cup {"box", "dll"}
Measuring == {"identify", "extract", "check", "insert"}
OnFile == Measuring \cup {"progress"}

\* Which messages can be in flight, and what the dialog shows, at each stage.
QueueInv ==
    /\ wk # "idle" => dlg.queue \in {<< >>, <<"Initializing">>}
    /\ wk \in {"posted", "init", "notify"} => dlg.queue = << >>
    /\ wk \in {"posted", "init"} => dlg.total = 0 /\ dlg.range = 0

\* What the stage of the task says of the file in progress.
ScanInv ==
    /\ wk \in BeforeScan =>
        /\ scan.todo \cup scan.missed = Files
        /\ scan.current = NoFile /\ ~scan.initialized /\ scan.late = 0
    /\ wk \in OnFile => scan.current \in Files
    /\ wk = "loop" => scan.current = NoFile
    /\ wk = "check" => scan.record \in {"measured", "interrupted"}
    /\ wk = "check" /\ scan.record = "interrupted" => dlg.cancelled
    /\ wk = "insert" => scan.record \in {"measured", "unmeasured"}

\* Only the file in progress at the time of the cancel can be late.
LateInv ==
    /\ AtMostOneLate
    /\ ~dlg.cancelled \/ wk \in Measuring => scan.late = 0

\* Until a cancel, every file is recorded, missed or still to come.
CoverageInv ==
    /\ wk \in OnFile \cup {"loop", "done"} /\ ~dlg.cancelled /\ scan.initialized
        => \A f \in Files \ (scan.missed \cup scan.todo \cup {scan.current}) :
              pers.map[NameOf[f]] # NoRecord
    /\ wk = "done" /\ ~dlg.cancelled /\ scan.initialized
        => scan.todo = {} /\ scan.current = NoFile

\* The archive is what was saved last unless it is torn; the map of a handler
\* that read it grows from there; a handler has a map when it needs one.
StoreInv ==
    /\ archive.health = "good" => archive.map = committed
    /\ archive.health = "absent" => committed = EmptyMap
    /\ pers.load = "ok" => Extends(pers.map, committed)
    /\ ui = "idle" \/ wk \in BeforeLoad => pers.load = "none"
    /\ pers.load = "none" =>
        ui = "idle" \/ wk \in BeforeLoad \cup {"fault", "dump"}
    /\ ui = "saving" => archive.health = "torn"
    /\ \A i \in 1..Len(frames) : frames[i].load \in {"failed", "corrupt"}

IInv ==
    /\ TypeOK /\ SessionOutlivesTask /\ QueueInv /\ RangeSettled
    /\ ScanInv /\ CancelledNeverRecorded /\ LateInv /\ CoverageInv /\ StoreInv
==============================================================================
