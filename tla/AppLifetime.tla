----------------------------- MODULE AppLifetime ------------------------------
(***************************************************************************)
(* The life of the process around the sessions (my_app.cpp, main_dialog.cpp*)
(* preference.cpp, dir_traversing.cpp): InitInstance creates the           *)
(* AtExitManager and runs the main dialog; the first scan starts the       *)
(* thread of the DirTraversingProxy; when the dialog is closed the proxy's *)
(* destructor stops and joins the thread, and only then does ExitInstance  *)
(* delete the singletons, last created first.  Deleting the Preference is  *)
(* what saves the two directories.  The process may die at any point.      *)
(***************************************************************************)
EXTENDS Naturals, Sequences

CONSTANTS Values,           \* what a directory field may show
          Empty, Default,   \* no text; "c:/"
          Length,           \* of each value, in characters
          Truncated,        \* a value that was not read in full
          Buffers,          \* sizes of the buffer: 256, 512, ...
          Nobody

ASSUME ValuesAssumption ==
    /\ Empty \in Values /\ Default \in Values /\ Truncated \notin Values
    /\ Nobody \notin [{"audio", "result"} -> Values \cup {Truncated}]
ASSUME LengthAssumption == Length \in [Values -> Nat] /\ Buffers \subseteq Nat \ {0}

Fields == {"audio", "result"}

VARIABLES
    app,        \* where the UI thread is
    thread,     \* the thread of the DirTraversingProxy
    queue,      \* its message loop
    shown,      \* the text of the two combo boxes
    focus,      \* which of them has the focus
    pref,       \* audioDir_ and resultDir_ of the Preference
    atExit,     \* the singletons to delete, in order of creation
    ini,        \* preference.ini
    failed,     \* history: this run could not write preference.ini
    exit        \* history: how the last run ended

dialog == <<shown, focus>>
worker == <<thread, queue>>
file == <<ini, failed, exit>>
vars == <<app, worker, dialog, pref, atExit, file>>

AppStates ==
    {"off", "ready", "scanning", "closing", "joining", "exiting", "writing"}

Init ==
    /\ app = "off" /\ thread = "none" /\ queue = << >>
    /\ shown = [f \in Fields |-> Empty] /\ focus = "button"
    /\ pref = [f \in Fields |-> Empty]
    /\ atExit = << >> /\ ini \in [Fields -> Values]
    /\ failed = FALSE /\ exit = "unsaved"

------------------------------------------------------------------------------
(* Preference and OnInitDialog *)

\* External: GetPrivateProfileString returns one character less than the size
\* when the value does not fit.
Copied(size, v) == IF Length[v] < size THEN Length[v] ELSE size - 1

\* Mutant: the terminator is not allowed for.
RetryUnlessFull(size, v) == Copied(size, v) >= size

Retry(size, v) == Copied(size, v) >= size - 1

\* What GetProfileString makes of v, with the first buffer it is content with.
Reads(v) ==
    {IF Copied(size, v) = Length[v] THEN v ELSE Truncated :
        size \in {s \in Buffers : ~Retry(s, v) /\ \A r \in Buffers : r < s => Retry(r, v)}}

\* InitInstance up to the message loop of the main dialog; the "Done" button
\* has the focus.
Launch(read) ==
    /\ app = "off"
    /\ \A f \in Fields : read[f] \in Reads(ini[f])
    /\ pref' = [f \in Fields |-> IF read[f] = Empty THEN Default ELSE read[f]]
    /\ shown' = pref'
    /\ app' = "ready" /\ focus' = "button"
    /\ atExit' = <<"Preference">>
    /\ UNCHANGED <<worker, file>>

------------------------------------------------------------------------------
(* The main dialog *)

\* Mutant: both handlers set the audio directory.
KillfocusAudio == IF focus \in Fields THEN [pref EXCEPT !.audio = shown[focus]] ELSE pref

\* The directories after the focus has left the combo box that had it.
Killfocus == IF focus \in Fields THEN [pref EXCEPT ![focus] = shown[focus]] ELSE pref

MoveFocus(to) ==
    /\ app = "ready" /\ to # focus
    /\ focus' = to /\ pref' = Killfocus
    /\ UNCHANGED <<app, worker, shown, atExit, file>>

Edit(v) ==
    /\ app = "ready" /\ focus \in Fields
    /\ shown' = [shown EXCEPT ![focus] = v]
    /\ UNCHANGED <<app, worker, focus, pref, atExit, file>>

\* A click takes the focus to the button.  The user picks a path; dismissing
\* the browser, or picking what has no path, changes nothing.
Browse(f, v) ==
    /\ app = "ready" /\ focus = "button" /\ v # Empty
    /\ shown' = [shown EXCEPT ![f] = v] /\ pref' = [pref EXCEPT ![f] = v]
    /\ focus' = f
    /\ UNCHANGED <<app, worker, atExit, file>>

\* The singletons after the first use of PersistentMapGlobal.
WithGlobal == IF Len(atExit) = 1 THEN Append(atExit, "PersistentMap") ELSE atExit

Analyze ==
    /\ app = "ready" /\ focus = "button"
    /\ atExit' = WithGlobal
    /\ UNCHANGED <<app, worker, dialog, pref, file>>

\* The thread is started by the first scan, and the task is posted.
StartScan ==
    /\ app = "ready" /\ focus = "button"
    /\ app' = "scanning"
    /\ thread' = IF thread = "none" THEN "idle" ELSE thread
    /\ queue' = Append(queue, "task")
    /\ UNCHANGED <<dialog, pref, atExit, file>>

\* OnDone of the progress dialog, whose message precedes the end of the task.
ScanEnds ==
    /\ app = "scanning" /\ queue = << >> /\ thread # "busy"
    /\ app' = "ready"
    /\ UNCHANGED <<worker, dialog, pref, atExit, file>>

\* The dialog is closed by "Done", Enter or Escape.  Enter leaves the focus in
\* a combo box; whether destroying it notifies the dialog is up to Windows.
CloseDialog ==
    /\ app = "ready"
    /\ app' = "closing"
    /\ pref' \in {pref, Killfocus}
    /\ UNCHANGED <<worker, dialog, atExit, file>>

------------------------------------------------------------------------------
(* The thread *)

TakeTask ==
    /\ thread = "idle" /\ queue # << >> /\ Head(queue) = "task"
    /\ thread' = "busy" /\ queue' = Tail(queue)
    /\ UNCHANGED <<app, dialog, pref, atExit, file>>

\* The traversal, whose Initializing uses PersistentMapGlobal, has called Done;
\* it still has its list and its reference to itself to drop.
ReportDone ==
    /\ thread = "busy"
    /\ thread' = "finishing"
    /\ atExit' = WithGlobal
    /\ UNCHANGED <<app, queue, dialog, pref, file>>

FinishTask ==
    /\ thread = "finishing"
    /\ thread' = "idle"
    /\ UNCHANGED <<app, queue, dialog, pref, atExit, file>>

TakeQuit ==
    /\ thread = "idle" /\ queue # << >> /\ Head(queue) = "quit"
    /\ thread' = "none" /\ queue' = Tail(queue)
    /\ UNCHANGED <<app, dialog, pref, atExit, file>>

------------------------------------------------------------------------------
(* The end: ~MainDialog, ExitInstance *)

\* Mutant: the thread is told to stop and not waited for.
StopSoonOnly ==
    /\ app = "closing"
    /\ app' = "exiting"
    /\ queue' = IF thread = "none" THEN queue ELSE Append(queue, "quit")
    /\ UNCHANGED <<thread, dialog, pref, atExit, file>>

\* Mutant: no task that quits the message loop is posted.
StopWithoutQuit ==
    /\ app = "closing"
    /\ app' = IF thread = "none" THEN "exiting" ELSE "joining"
    /\ UNCHANGED <<worker, dialog, pref, atExit, file>>

\* ~Thread: Stop does nothing if the thread was never started.
StopThread ==
    /\ app = "closing"
    /\ app' = IF thread = "none" THEN "exiting" ELSE "joining"
    /\ queue' = IF thread = "none" THEN queue ELSE Append(queue, "quit")
    /\ UNCHANGED <<thread, dialog, pref, atExit, file>>

JoinThread ==
    /\ app = "joining" /\ thread = "none"
    /\ app' = "exiting"
    /\ UNCHANGED <<worker, dialog, pref, atExit, file>>

Last == atExit[Len(atExit)]

DeleteGlobal ==
    /\ app = "exiting" /\ atExit # << >> /\ Last = "PersistentMap"
    /\ atExit' = SubSeq(atExit, 1, Len(atExit) - 1)
    /\ UNCHANGED <<app, worker, dialog, pref, file>>

\* Mutant: both strings are written under one key.
WriteAudioTwice(f, ok) ==
    /\ ini' = IF ok THEN [ini EXCEPT !["audio"] = pref[f]] ELSE ini
    /\ failed' = (failed \/ ~ok)

\* WritePrivateProfileString, whose result nobody looks at.
WriteProfile(f, ok) ==
    /\ ini' = IF ok THEN [ini EXCEPT ![f] = pref[f]] ELSE ini
    /\ failed' = (failed \/ ~ok)

\* ~Preference, in two writes.
DeletePreference(ok) ==
    /\ app = "exiting" /\ atExit # << >> /\ Last = "Preference"
    /\ WriteProfile("audio", ok)
    /\ app' = "writing"
    /\ UNCHANGED <<worker, dialog, pref, atExit, exit>>

DeletePreferenceEnds(ok) ==
    /\ app = "writing"
    /\ WriteProfile("result", ok)
    /\ app' = "exiting"
    /\ atExit' = << >>
    /\ UNCHANGED <<worker, dialog, pref, exit>>

Off ==
    /\ app' = "off" /\ thread' = "none" /\ queue' = << >>
    /\ atExit' = << >> /\ failed' = FALSE
    /\ UNCHANGED <<dialog, pref, ini>>

ProcessEnds ==
    /\ app = "exiting" /\ atExit = << >>
    /\ exit' = IF failed THEN "unsaved" ELSE "saved"
    /\ Off

\* Thread::Start fails: Traverse posts the task to a null message loop, and the
\* process dies in the exception filter, with no session to save.
ThreadStartFails ==
    /\ app = "ready" /\ focus = "button" /\ thread = "none"
    /\ exit' = "unsaved"
    /\ Off

\* Any other fault, and any termination from outside.
Killed ==
    /\ app # "off"
    /\ exit' = "unsaved"
    /\ Off

------------------------------------------------------------------------------
UserStep ==
    \/ \E read \in [Fields -> Values \cup {Truncated}] : Launch(read)
    \/ \E to \in Fields \cup {"button"} : MoveFocus(to)
    \/ \E v \in Values : Edit(v) \/ \E f \in Fields : Browse(f, v)
    \/ Analyze \/ StartScan \/ CloseDialog

ThreadStep == TakeTask \/ ReportDone \/ FinishTask \/ TakeQuit

EndStep ==
    \/ StopThread \/ JoinThread \/ DeleteGlobal \/ ProcessEnds
    \/ \E ok \in BOOLEAN : DeletePreference(ok) \/ DeletePreferenceEnds(ok)

Next == UserStep \/ ScanEnds \/ ThreadStep \/ EndStep \/ ThreadStartFails \/ Killed

Spec == Init /\ [][Next]_vars

\* Both threads keep running; nobody has to click anything.
FairSpec == Spec /\ WF_vars(ThreadStep) /\ WF_vars(EndStep)

------------------------------------------------------------------------------
(* Properties *)

\* The state is well formed; the queue never holds more than one task.
TypeOK ==
    /\ app \in AppStates
    /\ thread \in {"none", "idle", "busy", "finishing"}
    /\ queue \in {<< >>, <<"task">>, <<"quit">>}
    /\ shown \in [Fields -> Values] /\ pref \in [Fields -> Values]
    /\ focus \in Fields \cup {"button"}
    /\ atExit \in {<< >>, <<"Preference">>, <<"Preference", "PersistentMap">>}
    /\ ini \in [Fields -> Values]
    /\ failed \in BOOLEAN /\ exit \in {"saved", "unsaved"}

\* The singletons are deleted when no other thread can use them any more: the
\* thread of the traversal has ended, with nothing left to run.
DeletedAlone ==
    app \in {"exiting", "writing"} => thread = "none" /\ queue = << >>

\* What a combo box shows is what will be remembered, but for the one that is
\* being edited: a scan always runs on remembered directories.
ShownIsRemembered ==
    /\ app \in {"ready", "scanning"} =>
           \A f \in Fields \ {focus} : pref[f] = shown[f]
    /\ app = "scanning" => focus = "button"

settings == IF app = "off" THEN Nobody ELSE pref

Settings == INSTANCE SettingsStore WITH saved <- ini, current <- settings, ended <- exit

\* Whatever the user does and wherever the process dies, preference.ini holds
\* for each field a value of some run, a run starts with it, and a run that
\* ends in order has saved both.
SettingsSpec == Settings!Spec

\* A dialog that is closed ends the process, whatever the thread is doing.
CloseEnds == app = "closing" ~> app = "off"

------------------------------------------------------------------------------
(* The inductive invariant *)

\* What the thread may be doing at each stage of the UI thread.
ThreadInv ==
    /\ thread = "none" => queue = << >>
    /\ queue = <<"task">> => app = "scanning"
    /\ queue = <<"quit">> => app = "joining"
    /\ thread = "busy" => app = "scanning"
    /\ app \in {"off", "exiting", "writing"} => thread = "none"

\* The Preference is there until ~Preference has written both fields.
WrittenInv ==
    /\ app \notin {"off", "exiting"} => atExit # << >>
    /\ app = "writing" => failed \/ ini["audio"] = pref["audio"]
    /\ app = "exiting" /\ atExit = << >> => failed \/ ini = pref

AInv == TypeOK /\ ThreadInv /\ WrittenInv /\ ShownIsRemembered
==============================================================================
