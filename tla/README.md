# A TLA+ model of audio_quality_identification

The program scans a directory tree for audio files, lets an external decoder
(`kgplayer.dll`) analyse each of them, estimates from the spectrum where the
sound is cut off, and keeps one result per file name in an XML archive. From
the archive it writes text reports, among them lists of files whose bitrate
promises more than their spectrum holds ("fake high quality"). It is a small
MFC dialog application with one worker thread; everything that makes it hard is
in the way these two threads, a modal dialog, error boxes and the archive meet.

All source paths below are relative to `src/source/`.

## 1. Inventory

### Components, their state and their operations

| component | source | state | operations |
|---|---|---|---|
| Main dialog | `main_dialog.cpp` | two directory fields, a `DirTraversingProxy` | `OnBnClickedButtonStart` (a scan), `OnBnClickedButtonAnalyze` (the reports), browsing and editing directories |
| Scan session (`Intermedia`) | `main_dialog.cpp:510-588` | the dialog's callback, an `AudioQualityIdent`, `initialized_`, the `PersistentMap` of the session | `Initializing`, `Progress`, `Done`, called by the worker |
| Progress dialog | `progress_dialog.cpp` | `total_`, the range and position of the bar, the cancel flag, the window and its message queue | callback side on the worker: `Initializing`, `Progress`, `Done`; UI side: `OnInitDialog`, `OnInitializing`, `OnDone`, `OnCancel` |
| Directory traversal | `dir_traversing.cpp` | recursion of the count, list of pending directories | `CalculateNumFiles`, `Traverse`, `ReportDone`; the proxy starts the thread and posts the task |
| Identification | `audio_quality_ident.cpp` | the DLL's interfaces; per file the peak buffer, the call counter and the cutoff of each window | `Init`, `Identify`, `MySpectrumReceiver::Receive`, `GetAverageFreq` |
| Result map | `persistent_map.cpp` | map from base name to `MediaInfo`; `persistence.xml`; `emergency_archive.xml`; a global weak reference to the current map | constructor (load), destructor (save), `EmergencySerialize`, which shares the map while it saves |
| Pointer transfer | `third_party/multimedia_core/common/multi_thread_pointer_transfer.h` | a lock word, a two-word smart pointer | `AcquireWrite/ReleaseWrite/AcquireRead/ReleaseRead`, `Set`, `Get` |
| Reports | `main_dialog.cpp:47-508` | none; they read the map | nine report files |
| Application | `my_app.cpp` | MFC and COM initialisation, message loop, singletons | `InitInstance`, `ExitInstance`, `MyUnhandledExceptionFilter` |
| Preferences | `preference.cpp` | two directories and an INI file | read on construction, written on destruction |
| Reference counts | `third_party/multimedia_core/common/unknown_impl.h` | a counter | `AddRef`, `Release` |
| Vendored Chromium base, gtest | `third_party/chromium/` | threads, message loops, reference counting | used: `Thread::Start`, `PostTask`, `CancellationFlag`, `Singleton` |
| Decoder | `kgplayer.dll`, not in the repository | - | `GetInstantMediaInfo`, `Open`, `Seek`, `ExtractSpectrum` |

### How they interact

`OnBnClickedButtonStart` (UI thread) builds a `ProgressDialog` and an
`Intermedia` on its own stack, posts `DirTraversing::Traverse` to the worker
with a raw pointer to the `Intermedia`, and then calls `DoModal`. The worker
calls `Intermedia`, which calls the dialog; the dialog answers by posting
window messages to the UI thread (`Initializing`, `Done`) and by reading the
cancel flag that the UI thread sets. `OnDone` ends the dialog; only then does
the handler return and destroy the `Intermedia`, whose `PersistentMap` saves
itself in its destructor. While the worker holds a session's map, the global
weak reference lets the exception filter of a crashing thread save it to
another file. Analyze loads a second `PersistentMap` from the same archive, and
its destructor writes the archive again.

### What is hard

* The worker may finish before the dialog has a window, or call it before its
  controls are attached.
* The total and the window are handed over without a lock: whoever is later
  must see what the other did.
* Stack objects of one thread are used by the other.
* A cancel may come at any instruction of a measurement that takes seconds.
* The archive is truncated in place; a crash, a full disk or a failed load
  leaves a map that the next handler may write back.
* Error boxes run a message loop inside constructors and destructors, so
  handlers nest; a save suspended in its box still has the archive open.
* A directory that fails is silently cut short, in the count and in the visit
  independently.
* A spin lock guards a pointer of two words, and dropping the old pointer may
  run a destructor that saves a file.
* A fault runs the exception filter on the faulting thread while the other
  thread goes on, also after the task is over: both may use the map, either may
  be its last owner, and the filter may wait for a lock that its own thread holds.
* The two directories are read from and written to a file by a singleton's
  constructor and destructor, after the worker has been joined by a member's
  destructor.
* Nobody looks at the state of a report's stream, nor at the results of
  `WritePrivateProfileString` and `Thread::Start`.

### What correctness means, component by component

* Session and dialog: the objects outlive the task; the dialog ends when the
  task does; the progress bar has the range of this scan; a cancelled
  measurement is never recorded; after a cancel at most one more file is; an
  uncancelled scan has a result for every file it could read.
* Result map: what was saved stays saved, except by a handler that could not
  read it, a save that was not completed, or the late close of a failed one.
* Traversal: breadth first, no file twice, an error costs only what lies below
  the directory that met it, a halt is final, `Done` comes exactly once.
* Pointer transfer: `Set` and `Get` are atomic, writers are alone, no
  destructor runs inside the lock, somebody gets through.
* Identification: the cutoff of a window depends on that window alone, the end
  of the file is left out, and 0 means "not measured".
* Reports: their totals agree, and the fake reports cover the lines of the
  bitrate report; a report that has its footer is whole; a name is cut to what
  fits into its column and to no less.
* Exception filter: the results recorded since the load are in the emergency
  file when the worker has faulted, or in the handler's own save; a map that the
  fault left in pieces never gets to `persistence.xml`.
* Application and preferences: what the fields show is what is remembered; the
  INI file holds for each field a value of some run, and both of the last run
  that ended in order; singletons die when no thread can use them; closing the
  dialog ends the process.

## 2. Modules

| module | models | instantiated by |
|---|---|---|
| `PersistentMap` | the map, its archive files, what a load may return (operators) | extended by `ScanSession` |
| `ResultStore` | abstract specification: what the archive promises | refined by `ScanSession` |
| `ScanSession` | the two buttons, the dialog, the traversal task, identification and the archive, as two interleaving threads with crashes | `MCScanSession` |
| `ScanSessionProofs` | theorems about `ScanSession` | |
| `EmergencySave` | composition of the session with faults on either thread, the exception filter, the global reference, the owners of the map and the emergency file | `MCEmergencySave` |
| `EmergencySaveProofs` | theorems about `EmergencySave`, among them that it keeps the invariant of `ScanSession` | |
| `SettingsStore` | abstract specification: two settings kept over runs that may end at any moment | refined by `AppLifetime` |
| `AppLifetime` | process start and end, the main dialog's fields, `Preference`, the traversal thread, the singletons | `MCAppLifetime` |
| `AppLifetimeProofs` | theorems about `AppLifetime` | |
| `AtomicPointer` | abstract specification: a register with atomic `Set` and `Get` | refined by `PointerTransfer` |
| `PointerTransfer` | the spin lock and the pointer, one action per atomic access | `MCPointerTransfer` |
| `PointerTransferProofs` | theorems about `PointerTransfer` | |
| `Traversal` | abstract specification: the traversal as the session assumes it | refined by `DirTraversal` |
| `DirTraversal` | counting and visiting a directory tree with errors and halts | `MCDirTraversal` |
| `DirTraversalProofs` | theorems about `DirTraversal` | |
| `Identification` | abstract specification: one identification as the session assumes it | refined by `AudioQualityIdent` |
| `AudioQualityIdent` | the stages of `Identify` and the arithmetic of the receiver | `MCAudioQualityIdent` |
| `AudioQualityIdentProofs` | theorems about `AudioQualityIdent` | |
| `Reports` | the counts behind the reports | extended by `FakeReport` |
| `FakeReport` | writing the four fake high quality reports from the map of `Reports` through a stream that may fail | `MCFakeReport` |
| `Sums` | lemmas about sums over finite sets: splitting, bounds, renaming, counting line by line | |
| `ReportsProofs` | theorems about `Reports` and `FakeReport` | |

How they fit together: `EmergencySave` extends `ScanSession`, whose
`NextFile`, `DirectoryError` and `TraversalEnds` assume of the traversal what
`Traversal` says and `DirTraversal` implements; its `globalRef_` is the register
`AtomicPointer` describes and `PointerTransfer` implements. `AppLifetime`
abstracts a scan to a task of the thread and surrounds it with the life of the
process. The `Identify...` actions of `ScanSession` assume of one file what
`Identification` says and `AudioQualityIdent` implements; a fault, which ends
the process, is the session's alone. Both sides of this are proved (section 4). `FakeReport` extends `Reports`: its results
are recorded by `Reports!Next`, and the reports it writes are those whose
figures `Reports` gives as `ScopeOf` and `FakeOf`.

### ScanSession

`ui` and `wk` are the places of the two threads. One action is one handler of
the dialog or one stretch of worker code between two points at which the other
thread could notice a difference:

* `Start` is the handler up to `DoModal`; `CreateWindow` and `OnInitDialog`
  are the two instants of `DoModal` the worker can distinguish (window handle
  valid; controls attached and range set).
* `CalculateNumFiles`, `InitTotals` and `InitNotify` are the three instants of
  `Initializing`: the count is known, `total_` is stored, the window is tested
  and the message posted.
* `CreateInstance`, `DismissWorkerBox`, `IdentInit` are the rest of
  `Intermedia::Initializing`.
* `NextFile`, `Progress`, the `Identify...` actions and `Insert` are one file.
  `Progress` contains the whole of `ProgressDialog::Progress`; the text it sets
  is a `SendMessage` answered by the pumping UI thread.
* `Done` is the destructor of `autoReportDone`, on every way out.
* `SaveOpens`, `SaveCloses`, `SaveSkipped`, `SaveUnflushed`, `SaveFails` are
  `~PersistentMap`: the stream is opened (and the file truncated), written and
  closed; or not good from the start; or closed without all of it reaching the
  disk; or the writer throws and an error box opens.
* `OnCommand` is what the user can do to the dialog. `ProgressDialog` overrides
  `OnCancel` and not `OnOK`, whose inherited form would end the dialog under a
  running task. What keeps it away is the template `IDD_DIALOG_PROGRESS`
  (`../resource/audio_quality_identification.rc:95-103`): its only button is the
  default button and sends `IDCANCEL`, there is no control with `IDOK` and no
  system menu. Enter stands for the default button, and the dialog manager sends
  nothing for a button that is disabled, as Cancel is after the first press.
  `Commands` is therefore `{"IDCANCEL"}`; `OnOK` is there for the day the
  template gets a second button (`CommandsWithOk` breaks `SessionOutlivesTask`).
* `DismissLoadBox` and `DismissSaveBox` take up the handler that is suspended
  innermost: an Analyze in the box of its constructor, which goes on with what it
  had read, or a handler in the box of a failed save, whose stream is outside the
  `try` and is only now flushed and closed. In between other handlers may have
  saved completely; `Closings` says what the late close leaves of the file. Both
  need the UI thread idle: a handler that runs inside a box's message loop ends
  before the box can return.
* `PathThrows`, `ProgressFaults`, `IdentifyFaults` are the three kinds of fault
  of the worker that no handler in the program catches.
* `FilterReturns` and `Killed` end the process; only the files stay.

History variables: `committed` (map of the last completed save), `scan.missed`
(files that were not there, could not be read, or lay in a directory that
failed), `scan.late` (results recorded after a cancel).

Abstractions. A `MediaInfo` is how it came about: measured, without a
measurement, or interrupted. `Remains` lets any subset of the entries survive a
truncation; the real archive is in key order, so fewer outcomes are possible.
A torn file throws in the reader (`"corrupt"`) or is read through
(`"whole"`), as when only its closing tag is missing.
`emergency_archive.xml` is left to `EmergencySave`. The main dialog works on
one result directory.

`ResultStore` is what this promises. `intact` says that the file holds the last
completed save. `Begin` ends that and a `Commit` (from a map that was read
soundly) or an `Overwrite` (from another) restores it; a `Fail` leaves the file
open, and from then on a `Close` may end it at any time no handler has a map.

`DoModal` is taken to create its window. The plain reads and writes of
`total_` and the window handle by two threads are taken in program order: on
both sides a kernel call lies between them. The position of the bar is left out.

### PointerTransfer

One action per atomic access: the load and the compare-and-swap of each
`Acquire`, the two words of a pointer copy, the exchange that releases. The
lock word is -1 for a writer and else the number of readers. The smart pointer is the
`weak_ptr` of `PersistentMapGlobal` (`persistent_map.h:87`), an object pointer
and a control block; a control block is destroyed when the last reference goes,
and `Set` swaps first so that this happens in `Drop`, after the release.

### EmergencySave

`SessionStep(t)` is a step of `ScanSession` by thread `t`, with what it means
for the global reference, which is registered (`SetBegin`, `SetEnd`, with the
lock of the reference held between them) and expires with the last owner of the
map. An insertion while the other thread's filter iterates over the map is a
data race, whose outcome is a good or a torn file.

`Fault(t)` may strike a thread wherever it runs the program: the UI thread
always, the worker once it has been started, so also after `Done` on its way out
of `Traverse` and in its message loop, while the handler goes on to destroy and
save. A fault inside the worker's insertion may leave the map in pieces
(`damaged`). The thread is then in the filter: `GetRef` spins while the lock is
held, also by the thread itself, and takes a share in the map; `OpenEmergency`
and `WriteEmergency`, or `EmergencyFails`; `Release`; `FilterEnds` writes the
minidump and ends the process. Both threads may be in a filter at once.

`holds` says which filter shares which map. While one shares the handler's map
the handler is not its only owner: what it drops is not the last reference, so
it saves nothing (`HandlerLeaves`), and the map goes on as `orphan`. The filter
that drops the last reference runs `~PersistentMap` (`ReleaseLast`), which writes
`persistence.xml` on the faulting thread, perhaps while the other thread saves
there too. That write is no step of `ScanSession`; the file counts as torn
afterwards, from which the next load may get all, a part or nothing.

The session's own `...Faults` actions, which lead to its abstract `fault` state,
are replaced by `Fault`. `fresh` is a history variable: the names recorded since
the map was loaded. Left out: the error box that `SerializeNow` would open inside
the filter when the writer throws; it counts as a failed save, and a filter on
the UI thread runs no other handler from it.

### AppLifetime

`app` is the place of the UI thread in `InitInstance`, the main dialog and
`ExitInstance`. `Launch` is everything up to the message loop, with the growing
buffer of `GetProfileString` (`Reads`); `MoveFocus`, `Edit`, `Browse` are what
the user can do to the two fields, with the `KILLFOCUS` handlers that copy a
field to the `Preference`; whether closing the dialog still notifies it is left
open. `StartScan` contains the start of the thread and the posting of the task,
`StopThread` and `JoinThread` the proxy's destructor. The singletons are deleted
in the reverse order of their creation; `DeletePreference` and
`DeletePreferenceEnds` are the two writes of `~Preference`. `Killed` may come at
any time. The session of a scan is one task here; error boxes of its destructor
are not repeated.

### FakeReport

`Collect` is a result recorded by the session before the button is pressed.
`Analyze` writes the four reports one after the other: `OpenReport`, whose
stream may fail to open, `WriteHeader`, one action for each result the loop
visits (not recognized, out of the report's scope, in scope and genuine, fake),
`WriteFooter` with the three numbers counted on the way, `CloseReport`. The
order of the visits is left open, as no property depends on it. A name is a
sequence of narrow characters, wide ones, and wide ones without a
code in the locale. `Put` is the insertion of a line into the stream: whole, in
part (the last thing that reaches the file), or, once the stream is bad, not at
all; the loop goes on in every case. `Cell` is the first column, whose padding
is computed from the width the name was to have. Text, numbers and the other
columns are left out.

### DirTraversal, AudioQualityIdent, Reports

`DirTraversal` takes the traversal that `ScanSession` abstracts (`todo`) apart:
the stack of the recursive count, the list of pending directories, the entries
still to come. `Under` and `Depth` are constants
that `TreeAssumption` determines (what lies below a path, and how deep it lies). `AudioQualityIdent` takes the identification of one file apart;
its history variable `extraction` says how the extraction ended, and `phase` and
`record` map its state to what the session sees of it; a format that the decoder passes on before it fails stays as it is (`SetContent`); its `Interval`, `ToRemove` and the number of frequencies are constants of the
module that the code fixes at 20, 10 and what the decoder gives. `Reports` has
the real baselines; text and percentages are left out.

## 3. Runs

| run | configuration | result |
|---|---|---|
| `scan_session` | 3 files, two sharing a base name; counts 0 and 2; no nesting | all safety properties and the refinement of `ResultStore` hold, 3.1 million states |
| `scan_nested` | 1 file, up to 2 handlers suspended in error boxes, fair threads | the refinement holds, and an open dialog ends, 1.1 million states |
| `scan_lost_done` | 1 file, no nesting, fair threads | **violated**: `Start` may never return |
| `scan_empty` | as above | **violated**: `Initializing` is called with no files |
| `emergency_save` | 1 file, faults on both threads at any point, 1.1 million states | the filter finds the results of the worker; a damaged map is never saved |
| `emergency_last_owner` | the same | **violated**: a filter may write `persistence.xml` |
| `app_lifetime` | 4 texts around the buffer sizes, any number of runs in sequence, fair threads | fields, singletons, the end, refinement of `SettingsStore` |
| `pointer_transfer` | 3 threads, 1 pointer and the empty one, fair threads | lock, refinement of `AtomicPointer`, somebody gets through |
| `dir_traversal` | 4 directories on 3 levels, 4 files | order, containment of errors, halts, `Done`, refinement of `Traversal` |
| `identify` | 4 frequencies, 5 spectra, windows of 2, 6 spectra; 6 sizes around an int of 3 bits, 781 thousand states | windows, cutoff 0, the excluded end, refusals, refinement of `Identification` |
| `identify_unopened` | the same, 2 spectra, one size | **violated**: a file that does not open keeps its format |
| `fake_report` | 12 names of one and three narrow and wide characters or with one that cannot be written, in a column of 3; 9 infos around the baselines, maps of up to 2 results; four reports in sequence, 459 thousand states | totals and scopes, footer and column |

What the properties say:

| property | in words | broken by, for instance |
|---|---|---|
| `SessionOutlivesTask` | while the worker has a task, the Start handler that owns its objects is in `DoModal` or before it | an OK button in the template |
| `CancelledNeverRecorded` | no map, in memory, in a file or in a suspended handler, holds a measurement that was interrupted | not reading the flag after the extraction |
| `AtMostOneLate` | one more result at most after a cancel | not reading the flag between files |
| `RangeSettled` | with the notification behind it, the bar has the total of this scan | setting the range on the message only |
| `Coverage` | a finished, uncancelled traversal has a result for every file it could read | halting on an unreadable file |
| `StoreSpec` | only a handler that could not read what was saved replaces it by something smaller, and the archive holds it but for a save that was not completed or a late close | a constructor that does not load |
| `OpenDialogEnds` | a pumping dialog with a running task ends | a halt without `Done` |
| `Exclusion`, `CountExact` | a writer is alone; the word is exactly the holders | a write without comparing; a lost release |
| `DestroyedUnlocked` | no step inside the lock destroys an object | not keeping the old pointer |
| `Atomic` | `Set` and `Get` take effect at one instant | a read that does not compare |
| `SomeoneGetsThrough` | while a thread spins, some thread finishes | a lost release |
| `WorkerFaultSaves` | after a fault of the worker alone every result recorded since the load is in the emergency file (if that could be written and the map is whole) or in a save the handler itself has begun | registering the map of Analyze only |
| `DamagedNeverSaved` | a map that a fault left in pieces is never written to `persistence.xml` | a filter that owns the map by its own count |
| `FilterLeavesArchive` (violated) | no step of a filter writes `persistence.xml` | - |
| `DeletedAlone` | singletons are deleted with no thread and no task left | stopping the thread without waiting |
| `ShownIsRemembered` | each field but the one being edited shows what is remembered; a scan runs with the focus on no field | a handler that sets the other directory |
| `SettingsSpec` | the file takes only values of the run, a run starts with the file, a run that ends in order has saved both | one key for both |
| `CloseEnds` | a closed dialog ends the process | a quit task that is not posted |
| `TraversalSpec` | what is ahead is given once or lost, never after a halt, and the end is reported when nothing is ahead | an error that ends the traversal; a halt of one directory only |
| `RefusedOnlyUnreadable` | `Identify` answers false only for files that do not open, are empty or too large for an int, and after a cancel | refusing what the decoder does not know |
| `IdentificationSpec` | an identification drops, measures, interrupts and records as the session assumes; what the flag interrupted is dropped whenever it is set | not reading the flag after the extraction |
| `FooterMeansWhole` | a report with a footer has a full line for every result `Reports` takes for fake and no other, and the footer gives the figures of `Reports` | clearing the stream's state |
| `NamesFit` | the cut leaves the longest beginning that fits, and the next column is off by one place at most | cutting one character too much |
| `BreadthFirst` | no file twice, nearest files first | pushing a directory to the front |
| `CountContained`, `ErrorsContained` | an error hides only what lies below the directory that met it | an error that aborts the pass |
| `DoneOnce` | one `Done` in the end | `Done` on one way out |
| `FrequenciesOwn` | a window's frequency follows from its own spectra | a missing reset |
| `ZeroMeansUnmeasured` | a cutoff of 0 and too few windows are the same thing | an index that can be 0 |
| `EndExcluded` | the result lies among the windows before the excluded end | removing from the front |
| `TotalsAgree` | six totals over the same map agree | `>` for `>=` |
| `ScopesMeetLines` | a fake report's scope is a bitrate line plus its upper end | taking 0 for an upper end |

`TypeOK` of each module also carries a bound that is not a type: the messages a
dialog's queue can hold, at most one `Done`, no frequency above half the sample
rate, a lock word between -1 and the number of threads, a directory that is
never truncated. `EmergencySave` has its type invariant (`ETypeOK`) as a part of
the proved `EInv`.

What the violations show:

* `scan_lost_done`. `dir_traversing.h:20-22` promises `Done` for every traversal
  as the signal that the callback can go. `ProgressDialog::Done` posts a message
  to a window (`progress_dialog.cpp:54`). A traversal that ends before
  `DoModal` has created that window (an empty directory, a missing DLL) posts to
  the worker's own queue; the dialog that opens then stays for ever, and its
  Cancel button only sets the flag. The run states it as a liveness property
  under fairness of both threads, so nothing but the lost message is to blame.
* `scan_empty`. `progress_dialog.cpp:37` asserts `totalFiles > 0`;
  `CalculateNumFiles` returns 0 for a missing or empty directory.
* `emergency_last_owner`. The comment at `persistent_map.cpp:166` says the map
  may be corrupted and is saved to another file. The worker posts `Done`, faults
  on its way out, and its filter locks the map (`:164`) while the handler drops
  its own reference; the end of `EmergencySerialize` then runs `~PersistentMap`,
  which truncates and writes `persistence.xml` on the faulting thread. The map
  is a whole one in that case, as `DamagedNeverSaved` shows.
* `identify_unopened`. The comment at `audio_quality_ident.cpp:257` says a file
  that does not open is marked as an unrecognized format; the format read
  just before stays in place, so the reports count the file as recognized with a
  cutoff of 0, which is below every limit of the fake reports.

### Bounds and why they are enough

Three files with two names are the least for a name clash, a file before and a
file after the one in progress. `Counts = {0, 2}` has the asserted case and one
in which the announced number differs from what is found. Two nested boxes let
a suspended handler be overtaken by a handler that is itself overtaken; with
one file they show every order of load and save. In `pointer_transfer` three
threads allow two readers and a writer, or two writers and a reader; the
pointer and the empty value are enough to see a torn pair. In `dir_traversal`
the tree has siblings, nesting, and files on three depths. In `identify` three
windows of two spectra leave two after the excluded one: one boundary between
counted windows and one to the excluded end; the sizes are no file, an empty
one, the greatest that is read, and three that become negative, zero and
positive as an int. In `emergency_save` one file is enough for a result that is
recorded and one that is not yet; handlers do not nest, as the worker, whose
map the filter saves, runs only under a dialog, and the proofs hold for any
nesting. In `app_lifetime` the texts are the
empty one, one that leaves room in the first buffer, one that fills it, and one
that does not fit. In `fake_report` a column of three cuts names of all widths
from one to six, with the cut on either half of a wide character; two results
are enough for a line that is torn before one that is not reached, and for two
on one line, on neighbouring lines, and on a baseline and next to it. The
proofs of section 4 remove the bounds for every invariant and every refinement
above; they stay for the liveness properties.

### Fairness

`scan_nested` and `scan_lost_done` assume weak fairness of each thread: the worker
is scheduled, the decoder returns, a user answers the error box of the worker,
the UI thread takes its messages. Nobody is assumed to press a button.
`pointer_transfer` assumes weak fairness of each thread's step, which is all that a
spin lock gets; it claims that somebody gets through, not everybody, since a
stream of readers can hold a writer off. `dir_traversal` assumes that the thread
runs and callbacks return. `emergency_save` assumes nothing: a filter may spin
for ever on the lock its own thread holds, and no property here says that it ends.
`app_lifetime` assumes it of the thread and of the UI thread once the dialog is
closed, of no click. Runs in which the system may really stop (a traversal
or an identification that is over, a full map) do not check for deadlock.

## 4. Proofs

`ScanSessionProofs` proves, for every set of files and names, every assignment
of names, every count and every nesting, that `Spec` implies

* `TypeOK`, `SessionOutlivesTask`, `CancelledNeverRecorded` and
  `AtMostOneLate`, `RangeSettled`, `Coverage`, always;
* `StoreSpec`, the refinement of `ResultStore`;
* `AssumedStep`: from `Progress` to the answer of `Identify`, the steps of both
  threads are steps of `Identification` or none of its business, unless the
  process ends (`OneIdentification`).

`EveryOutcome` is the converse for a single step: what the worker may do to a
file short of a fault is exactly what `Identification` allows, with its effect
on the file in progress (`FileFrame`). Together with `IdentificationKept` below it
closes the gap between the two models: every step of `Identify` is one the session
allows for.

None of them is inductive alone. `IInv` (end of `ScanSession`) adds what each
needs: `QueueInv`, since only `OnDone` ends the dialog and one must know that a
queued `Done` means a finished task, and that a message is posted only once
(`OnOK` would end it too, and drops out because `Commands` has no `IDOK`);
`ScanInv`, since `Insert` acts on a record made several steps earlier and an
interrupted one must imply the flag; `LateInv`, since a result is late only if
its measurement had begun before the cancel; `CoverageInv`, which accounts for
every file while the traversal is under way; `StoreInv`, which ties the archive
and the loaded map to the last completed save. There is one lemma for each group with a
step per action. The refinement maps `committed` to the store and the way the
map was loaded to the abstract session; only `SaveCloses` is a `Commit` or an
`Overwrite`, `SaveFails` is a `Fail` and `DismissSaveBox` a `Close`; everything
else opens, begins, abandons, dies or stutters.

`PointerTransferProofs` proves, for every finite set of threads and every set
of pointers, `TypeOK`, `Exclusion`, `CountExact`, `DestroyedUnlocked` and the
refinement of `AtomicPointer`. The invariant says that the word counts the
threads between their compare-and-swap and their release, and that the two words
of the pointer differ only while a writer is between them. A `Set` takes
effect where its control word is stored, a `Get` where its control word is read.

`EmergencySaveProofs` builds on `ScanSessionProofs`. The composition is no
refinement of the session, since the last release of a filter writes the archive
on its own; but that write keeps the session's invariant, as do the steps of
the session and those that leave its state alone, so that all its safety
properties hold here as well (`SessionKept`). `EInv` adds `RefInv`, which ties
the reference to the handler's map from its `Set` to its destructor; `OwnerInv`,
which says what each filter shares and that a handler's map is only left to a
filter once the task is over; and `RaceInv`, that only a filter on the UI
thread, or the fault itself, can spoil the worker's save. `FaultSaves` (the
property `WorkerFaultSaves`) follows from these. The argument of `DamagedKept`
(`DamagedNeverSaved`) is the session's: the fault that damages a map is inside a
task, that task never ends, so the handler stays in its modal dialog, drops
nothing, and no filter becomes the last owner. A fault after `Done` is another
matter, which is the violated `FilterLeavesArchive`.

`AppLifetimeProofs` proves `TypeOK`, `DeletedAlone`, `ShownIsRemembered` and the
refinement of `SettingsStore`, for every set of texts, every length and every
set of buffer sizes. `ThreadInv` says what the thread may be doing at each
stage of the UI thread, `WrittenInv` what is on disk at each stage of the end; that a
text is read in full is the lemma `ReadsExactly`.

`DirTraversalProofs` proves, for every finite tree, every order of listing and every
pattern of errors, `TypeOK`, `BreadthFirst`, `ErrorsContained`,
`CountContained`, the refinement of `Traversal`, and `HaltIsFinal` (no `Progress`
after one that returned false), which TLC checks as a part of the refinement.
The invariant of the visit says that what is still to visit are separate subtrees
(`SeparateInv`), that every file is given, below one of them or below an error
(`CoverInv`), and that the waiting directories are in the order of their depth
and at most one level deeper than the first (`DepthInv`). That of the count
says the same of the suspended recursions, and that the number is that of some
set of files outside them (`NumberInv`).

`AudioQualityIdentProofs` proves all the invariants of the run `identify` and the
refinement of `Identification`, for every set of spectra and levels, every
threshold, interval and exclusion, and every width of an int. `ReceiverInv`
places the counter between two multiples of the interval and says that the
buffer has the peaks of the window begun; `WindowInv` keeps for each frequency
some peaks of its window, which `PeaksUnique` shows to be those the property
computes. `TypeOK`, `ZeroMeansUnmeasured` and `EndExcluded` rest on the mean of
the frequencies: it lies between the least and the greatest of them
(`SumBounds` of `Sums`), every frequency is positive and at most half the rate,
and so 0 is the answer only where nothing is left to average. For the refinement the
mapped state changes in `Extracted`, `IdentifyReturns` and the ways out; all
else stutters.

`ReportsProofs` proves, for every finite set of names and every set of infos,
`TotalsAgree` and `ScopesMeetLines`, that they hold whenever a report is written
(`ResultsKept`), and for every width of the column and every
failure of the stream `FooterMeansWhole` and `NamesFit`. Each total is a sum
over the lines of a report of the number of results on the line, which is the
number of results on any line (`SumOfAllLines`); that a result has exactly one
line is what the descending baselines and the last one, below every value, are
for. `StreamInv` says that the three counters are the numbers of the results
visited so far, and that a good stream has lost nothing. `NamesFit` rests on
`PrefixWidths`, that a longer beginning of a name is wider, and on
`TrimRightFits`, that the least cut that is wide enough leaves the longest
beginning that fits.

`Sums` has the facts about sums these two need: the sum of a function over a
finite set is taken apart at any element, along any partition, and does not
depend on the names of the elements. The folds of the library are defined by a
recursive choice, and the library's induction theorems cannot be instantiated;
the proofs take a least counterexample instead, in the well-founded
order of the subsets of a finite set.

Assumptions are the named `ASSUME`s of the modules: `NoFile` is no file, names
are assigned, counts are natural numbers, threads and paths are finite sets,
the empty pointer is a pointer, the paths are a tree, buffer sizes are positive,
magnitudes have levels, half the rate is at least the number of frequencies less
one (which leaves out a decoder that reports a sample rate of 0: every frequency
would then be 0), numbers in an info are natural and its format is one the program stores, names
are made of characters, a column has a width. TLC evaluates them in the runs.

Only model-checked: liveness (`OpenDialogEnds`, `SomeoneGetsThrough`,
`DoneOnce`, `CloseEnds`), which is out of the prover's reach,
and the four properties that the program violates.

## 5. Not modelled

* Painting and the icon of the main dialog; the history lists of the two combo
  boxes (`FindString` looks for a prefix, so a directory whose name begins
  another's may be missing from the list; nothing depends on the list).
* The position of the progress bar (`finished_`), which nothing reads.
* Number formats, percentages and file names of the reports, and the writing of
  the five other kinds of report, which write ASCII only.
* A second instance of the program on the same files.
* The content of the minidump, and the error box inside the exception filter.
* Reference counts of `unknown_impl.h`: objects are held for a call or a scan.
* Chromium's base library and gtest: vendored; what the program uses of them
  is modelled by its effect (a task runs on the worker, a flag is set and read,
  a thread is stopped by a task that quits its loop, singletons are deleted in
  reverse order).
* The decoder: its outcomes are nondeterministic choices marked external.

## 6. Plan

1. `ScanSession` with `PersistentMap` and `ResultStore`, checked and proved. Done.
2. `PointerTransfer` with `AtomicPointer`, checked and proved. Done.
3. `DirTraversal`, `AudioQualityIdent`, `Reports`, checked. Done.
4. `AppLifetime` with `SettingsStore`, checked and proved. Done.
5. `EmergencySave`, checked and proved. Done.
6. `DirTraversal` as an implementation of what `ScanSession` assumes
   (`Traversal`), checked and proved; proofs for `AudioQualityIdent`. Done.
7. `FakeReport` as a composition with `Reports`, checked and proved; the totals
   of `Reports` and the means of `AudioQualityIdent`, proved. Done.
8. `AudioQualityIdent` as an implementation of what the `Identify...` actions of
   `ScanSession` assume (`Identification`), checked and proved. Done.
9. Open: the position of the progress bar in `ScanSession`; two instances of the
   program on one archive.
10. Open: the message loop the program relies on, as far as it is under
    `third_party/chromium/base`: a task posted between the loop's decision to wait
    and its waiting is not lost.
