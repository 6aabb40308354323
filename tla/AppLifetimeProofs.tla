-------------------------- MODULE AppLifetimeProofs ---------------------------
(***************************************************************************)
(* Proofs about AppLifetime: the invariants of the process around the      *)
(* sessions, and that the directories it remembers behave as SettingsStore *)
(* says, for every set of values and every sequence of buffer sizes.       *)
(***************************************************************************)
EXTENDS AppLifetime, SequenceTheorems, TLAPS

\* A string that is read in full is returned in full, however long it is: the
\* buffer that is accepted always has room for one character more.
LEMMA ReadsExactly ==
    ASSUME NEW v \in Values, NEW r \in Reads(v)
    PROVE  r = v
<1>1. PICK size \in Buffers :
          /\ ~Retry(size, v)
          /\ r = IF Copied(size, v) = Length[v] THEN v ELSE Truncated
  BY DEF Reads
<1>2. size \in Nat /\ Length[v] \in Nat
  BY LengthAssumption
<1>3. Copied(size, v) = Length[v]
  BY <1>1, <1>2 DEF Retry, Copied
<1> QED BY <1>1, <1>3

\* A launch shows and remembers what preference.ini holds.
LEMMA LaunchOpens ==
    ASSUME TypeOK, NEW read \in [Fields -> Values \cup {Truncated}], Launch(read)
    PROVE  /\ pref' = [f \in Fields |-> IF ini[f] = Empty THEN Default ELSE ini[f]]
           /\ pref' \in [Fields -> Values]
<1>1. ini \in [Fields -> Values]
  BY DEF TypeOK
<1>2. \A f \in Fields : ini[f] \in Values /\ read[f] \in Reads(ini[f])
  BY <1>1 DEF Launch
<1>3. \A f \in Fields : read[f] = ini[f]
  BY <1>2, ReadsExactly
<1>4. pref' = [f \in Fields |-> IF ini[f] = Empty THEN Default ELSE ini[f]]
  BY <1>3 DEF Launch
<1> QED BY <1>2, <1>4, ValuesAssumption

\* The short sequences the queue and the list of singletons are.
LEMMA ShortSequences ==
    ASSUME NEW a, NEW b
    PROVE  /\ Append(<< >>, a) = <<a>> /\ Append(<<a>>, b) = <<a, b>>
           /\ Head(<<a>>) = a /\ Tail(<<a>>) = << >>
           /\ Len(<< >>) = 0 /\ Len(<<a>>) = 1 /\ Len(<<a, b>>) = 2
           /\ <<a>>[1] = a /\ <<a, b>>[2] = b
           /\ <<a>> # << >> /\ <<a, b>> # << >> /\ <<a, b>> # <<a>>
           /\ SubSeq(<<a, b>>, 1, 1) = <<a>>
<1> DEFINE T == {a, b}
<1>0. << >> \in Seq(T) /\ <<a>> \in Seq(T) /\ <<a, b>> \in Seq(T)
  OBVIOUS
<1>1. Append(<< >>, a) = <<a>>
  OBVIOUS
<1>2. Len(<< >>) = 0 /\ Len(<<a>>) = 1 /\ Len(<<a, b>>) = 2
  OBVIOUS
<1>3. <<a>>[1] = a /\ <<a, b>>[1] = a /\ <<a, b>>[2] = b
  OBVIOUS
<1>4. <<a>> # << >> /\ <<a, b>> # << >> /\ <<a, b>> # <<a>>
  BY <1>2
<1>5. Head(<<a>>) = a
  BY <1>3
<1>6. Tail(<<a>>) = << >>
  <2>1. Tail(<<a>>) \in Seq(T) /\ Len(Tail(<<a>>)) = 0
    BY <1>0, <1>2, <1>4, HeadTailProperties
  <2> QED BY <2>1, EmptySeq
<1>7. SubSeq(<<a, b>>, 1, 1) = <<a>>
  <2>1. /\ SubSeq(<<a, b>>, 1, 1) \in Seq(T)
        /\ Len(SubSeq(<<a, b>>, 1, 1)) = 1
        /\ \A i \in 1..1 : SubSeq(<<a, b>>, 1, 1)[i] = <<a, b>>[1 + i - 1]
    BY <1>3, SubSeqProperties
  <2>2. SubSeq(<<a, b>>, 1, 1)[1] = <<a>>[1]
    BY <1>3, <2>1
  <2>3. \A i \in 1..Len(<<a>>) : SubSeq(<<a, b>>, 1, 1)[i] = <<a>>[i]
    BY <1>2, <2>2
  <2> HIDE DEF T
  <2> QED BY <1>0, <1>2, <2>1, <2>3, SeqEqual
<1>8. Append(<<a>>, b) = <<a, b>>
  <2>1. /\ Append(<<a>>, b) \in Seq(T)
        /\ Len(Append(<<a>>, b)) = 2
        /\ Append(<<a>>, b)[1] = <<a>>[1] /\ Append(<<a>>, b)[2] = b
    BY <1>0, <1>2, AppendProperties
  <2>2. \A i \in 1..Len(Append(<<a>>, b)) : Append(<<a>>, b)[i] = <<a, b>>[i]
    BY <1>2, <1>3, <2>1
  <2> HIDE DEF T
  <2> QED BY <1>0, <1>2, <2>1, <2>2, SeqEqual
<1> QED BY <1>1, <1>2, <1>3, <1>4, <1>5, <1>6, <1>7, <1>8

\* The queue holds nothing, the task or the quit task.
LEMMA Queues ==
    /\ Append(<< >>, "task") = <<"task">> /\ Append(<< >>, "quit") = <<"quit">>
    /\ Head(<<"task">>) = "task" /\ Head(<<"quit">>) = "quit"
    /\ Tail(<<"task">>) = << >> /\ Tail(<<"quit">>) = << >>
    /\ <<"task">> # << >> /\ <<"quit">> # << >> /\ <<"task">> # <<"quit">>
<1>1. <<"task">> # <<"quit">>
  OBVIOUS
<1> QED BY <1>1, ShortSequences

\* The first use of PersistentMapGlobal leaves both singletons to delete.
LEMMA GlobalCreated ==
    ASSUME atExit \in {<<"Preference">>, <<"Preference", "PersistentMap">>}
    PROVE  WithGlobal = <<"Preference", "PersistentMap">>
<1>1. /\ Len(<<"Preference">>) = 1 /\ Len(<<"Preference", "PersistentMap">>) = 2
      /\ Append(<<"Preference">>, "PersistentMap") = <<"Preference", "PersistentMap">>
  BY ShortSequences
<1>2. CASE atExit = <<"Preference">>
  <2>1. WithGlobal = Append(atExit, "PersistentMap")
    BY <1>1, <1>2 DEF WithGlobal
  <2> QED BY <1>1, <1>2, <2>1
<1>3. CASE atExit = <<"Preference", "PersistentMap">>
  <2>1. Len(atExit) = 2
    BY <1>1, <1>3
  <2> QED BY <1>3, <2>1 DEF WithGlobal
<1> QED BY <1>2, <1>3

------------------------------------------------------------------------------
(* The inductive invariant *)

\* Nothing runs, and what the file holds is not known to be saved.
LEMMA InitInv == Init => AInv
BY ValuesAssumption, ShortSequences DEF Init, AInv, TypeOK, ThreadInv, WrittenInv, ShownIsRemembered, AppStates

\* However the process ends, it leaves the state in order for the next run.
LEMMA OffInv ==
    ASSUME AInv, Off, exit' \in {"saved", "unsaved"}
    PROVE  AInv'
BY DEF AInv, TypeOK, ThreadInv, WrittenInv, ShownIsRemembered, AppStates, Off,
       dialog

\* The user's steps keep the invariant.
LEMMA UserInv == AInv /\ UserStep => AInv'
<1> SUFFICES ASSUME AInv, UserStep PROVE AInv'
  OBVIOUS
<1> USE DEF AInv, TypeOK, ThreadInv, WrittenInv, ShownIsRemembered, AppStates,
            worker, dialog, file
<1>1. CASE \E read \in [Fields -> Values \cup {Truncated}] : Launch(read)
  <2>1. PICK read \in [Fields -> Values \cup {Truncated}] : Launch(read)
    BY <1>1
  <2>2. pref' \in [Fields -> Values]
    BY <2>1, LaunchOpens
  <2> QED BY <2>1, <2>2 DEF Launch
<1>2. CASE \E to \in Fields \cup {"button"} : MoveFocus(to)
  BY <1>2 DEF MoveFocus, Killfocus, Fields
<1>3. CASE \E v \in Values : Edit(v)
  BY <1>3 DEF Edit
<1>4. CASE \E v \in Values, f \in Fields : Browse(f, v)
  BY <1>4 DEF Browse, Fields
<1>5. CASE Analyze
  BY <1>5, GlobalCreated, ShortSequences DEF Analyze
<1>6. CASE StartScan
  BY <1>6, Queues DEF StartScan
<1>7. CASE CloseDialog
  BY <1>7 DEF CloseDialog, Killfocus
<1> QED BY <1>1, <1>2, <1>3, <1>4, <1>5, <1>6, <1>7 DEF UserStep

\* The steps of the traversal's thread, and the end of a scan, keep it.
LEMMA WorkerInv == AInv /\ (ThreadStep \/ ScanEnds) => AInv'
<1> SUFFICES ASSUME AInv, ThreadStep \/ ScanEnds PROVE AInv'
  OBVIOUS
<1> USE DEF AInv, TypeOK, ThreadInv, WrittenInv, ShownIsRemembered, AppStates,
            worker, dialog, file
<1>1. CASE ScanEnds
  BY <1>1 DEF ScanEnds
<1>2. CASE TakeTask
  BY <1>2, Queues DEF TakeTask
<1>3. CASE ReportDone
  BY <1>3, GlobalCreated, ShortSequences DEF ReportDone
<1>4. CASE FinishTask
  BY <1>4 DEF FinishTask
<1>5. CASE TakeQuit
  BY <1>5, Queues DEF TakeQuit
<1> QED BY <1>1, <1>2, <1>3, <1>4, <1>5 DEF ThreadStep

\* So do the destructor of the main dialog and ExitInstance.
LEMMA EndInv == AInv /\ EndStep => AInv'
<1> SUFFICES ASSUME AInv, EndStep PROVE AInv'
  OBVIOUS
<1>1. CASE ProcessEnds
  BY <1>1, OffInv DEF ProcessEnds
<1> USE DEF AInv, TypeOK, ThreadInv, WrittenInv, ShownIsRemembered, AppStates,
            worker, dialog, file
<1>2. CASE StopThread
  BY <1>2, Queues DEF StopThread
<1>3. CASE JoinThread
  BY <1>3 DEF JoinThread
<1>4. CASE DeleteGlobal
  <2>1. atExit = <<"Preference", "PersistentMap">>
    BY <1>4, ShortSequences DEF DeleteGlobal, Last
  <2>2. atExit' = <<"Preference">>
    BY <1>4, <2>1, ShortSequences DEF DeleteGlobal
  <2> QED BY <1>4, <2>2, ShortSequences DEF DeleteGlobal
<1>5. CASE \E ok \in BOOLEAN : DeletePreference(ok)
  BY <1>5 DEF DeletePreference, WriteProfile, Fields
<1>6. CASE \E ok \in BOOLEAN : DeletePreferenceEnds(ok)
  BY <1>6 DEF DeletePreferenceEnds, WriteProfile, Fields
<1> QED BY <1>1, <1>2, <1>3, <1>4, <1>5, <1>6 DEF EndStep

\* Every step keeps the invariant.
LEMMA StepInv == AInv /\ [Next]_vars => AInv'
<1>1. ASSUME AInv, UNCHANGED vars PROVE AInv'
  BY <1>1 DEF vars, worker, dialog, file, AInv, TypeOK, ThreadInv, WrittenInv,
              ShownIsRemembered
<1>2. ASSUME AInv, ThreadStartFails \/ Killed PROVE AInv'
  BY <1>2, OffInv DEF ThreadStartFails, Killed
<1> QED BY <1>1, <1>2, UserInv, WorkerInv, EndInv DEF Next

\* The invariant of the process: what the thread is doing, what has been
\* written, and what the dialog shows, at every stage of the UI thread.
THEOREM Invariance == Spec => []AInv
BY InitInv, StepInv, PTL DEF Spec

------------------------------------------------------------------------------
(* The properties *)

\* The state is well formed; in particular no value is ever remembered that
\* was not read in full.
THEOREM TypeCorrect == Spec => []TypeOK
<1>1. AInv => TypeOK
  BY DEF AInv
<1> QED BY <1>1, Invariance, PTL

\* The singletons are deleted when the thread of the traversal has ended.
THEOREM SingletonsDeletedAlone == Spec => []DeletedAlone
<1>1. AInv => DeletedAlone
  BY DEF AInv, ThreadInv, DeletedAlone
<1> QED BY <1>1, Invariance, PTL

\* What a combo box that is not being edited shows is remembered.
THEOREM DirectoriesRemembered == Spec => []ShownIsRemembered
<1>1. AInv => ShownIsRemembered
  BY DEF AInv
<1> QED BY <1>1, Invariance, PTL

------------------------------------------------------------------------------
(* The refinement of SettingsStore *)

\* The settings of a running process are a function, so never Nobody.
LEMMA SettingsPresent == TypeOK => pref # Nobody
BY ValuesAssumption DEF TypeOK, Fields

\* A user's step opens the settings, chooses one, or does not concern them.
LEMMA UserRefines ==
    ASSUME AInv, UserStep
    PROVE  [Settings!Next]_Settings!vars
<1> USE SettingsPresent DEF AInv, TypeOK, settings, Settings!Next, Settings!vars,
        Settings!Choose, file, dialog, worker
<1>1. ASSUME NEW f \in Fields, NEW v \in Values, app \notin {"off"}, app' # "off",
             pref' = [pref EXCEPT ![f] = v], UNCHANGED file
      PROVE  Settings!Choose(f, v)
  BY <1>1
<1>2. ASSUME app # "off", app' # "off", UNCHANGED pref, UNCHANGED file
      PROVE  UNCHANGED Settings!vars
  BY <1>2
<1>3. CASE \E read \in [Fields -> Values \cup {Truncated}] : Launch(read)
  BY <1>3, LaunchOpens DEF Launch, Settings!Open
<1>4. CASE \E to \in Fields \cup {"button"} : MoveFocus(to)
  <2>1. CASE focus \in Fields
    BY <1>1, <1>4, <2>1 DEF MoveFocus, Killfocus
  <2>2. CASE focus \notin Fields
    BY <1>2, <1>4, <2>2 DEF MoveFocus, Killfocus
  <2> QED BY <2>1, <2>2
<1>5. CASE \E v \in Values : Edit(v)
  BY <1>2, <1>5 DEF Edit
<1>6. CASE \E v \in Values, f \in Fields : Browse(f, v)
  BY <1>1, <1>6 DEF Browse
<1>7. CASE Analyze \/ StartScan
  BY <1>2, <1>7 DEF Analyze, StartScan
<1>8. CASE CloseDialog
  <2>1. CASE pref' = pref
    BY <1>2, <1>8, <2>1 DEF CloseDialog
  <2>2. CASE pref' # pref
    BY <1>1, <1>8, <2>2 DEF CloseDialog, Killfocus
  <2> QED BY <2>1, <2>2
<1> QED BY <1>3, <1>4, <1>5, <1>6, <1>7, <1>8 DEF UserStep

\* The process ends with both settings saved, or it counts as aborted.
LEMMA OffRefines ==
    ASSUME AInv, app # "off", Off,
           \/ exit' = "unsaved"
           \/ exit' = "saved" /\ ini = pref
    PROVE  Settings!Close \/ Settings!Abort
BY SettingsPresent DEF AInv, TypeOK, Off, settings, Settings!Close, Settings!Abort

\* The other steps commit a setting, end the run, or do not concern them.
LEMMA OtherRefines ==
    ASSUME AInv, ThreadStep \/ ScanEnds \/ EndStep \/ ThreadStartFails \/ Killed
    PROVE  [Settings!Next]_Settings!vars
<1>1. CASE ProcessEnds \/ ThreadStartFails \/ Killed
  BY <1>1, OffRefines DEF ProcessEnds, ThreadStartFails, Killed, AInv, WrittenInv,
                          Settings!Next
<1> USE SettingsPresent DEF AInv, TypeOK, settings, Settings!Next, Settings!vars,
        Settings!Commit, file, dialog, worker
<1>2. ASSUME app # "off", app' # "off", UNCHANGED pref, UNCHANGED file
      PROVE  UNCHANGED Settings!vars
  BY <1>2
<1>3. CASE ScanEnds \/ StopThread \/ JoinThread \/ DeleteGlobal
  BY <1>2, <1>3 DEF ScanEnds, StopThread, JoinThread, DeleteGlobal
<1>4. CASE ThreadStep
  <2>1. app # "off"
    BY <1>4 DEF ThreadInv, ThreadStep, TakeTask, ReportDone, FinishTask, TakeQuit
  <2> QED BY <1>2, <1>4, <2>1 DEF ThreadStep, TakeTask, ReportDone, FinishTask, TakeQuit
<1>5. ASSUME NEW f \in Fields, NEW ok \in BOOLEAN, WriteProfile(f, ok),
             app # "off", app' # "off", UNCHANGED <<pref, exit>>
      PROVE  [Settings!Next]_Settings!vars
  BY <1>5 DEF WriteProfile
<1>6. CASE \E ok \in BOOLEAN : DeletePreference(ok)
  BY <1>5, <1>6 DEF DeletePreference, Fields
<1>7. CASE \E ok \in BOOLEAN : DeletePreferenceEnds(ok)
  BY <1>5, <1>7 DEF DeletePreferenceEnds, Fields
<1> QED BY <1>1, <1>3, <1>4, <1>6, <1>7 DEF EndStep

\* The process implements SettingsStore: a run starts with what the file holds,
\* the file only takes values of the run, and a run that ends in order has
\* saved both directories.
THEOREM SettingsKept == Spec => SettingsSpec
<1>1. Init => Settings!Init
  BY DEF Init, Settings!Init, settings
<1>2. AInv /\ [Next]_vars => [Settings!Next]_Settings!vars
  <2>1. ASSUME UNCHANGED vars PROVE UNCHANGED Settings!vars
    BY <2>1 DEF vars, file, settings, Settings!vars
  <2> QED BY <2>1, UserRefines, OtherRefines DEF Next
<1> QED BY <1>1, <1>2, Invariance, PTL DEF Spec, SettingsSpec, Settings!Spec
==============================================================================
