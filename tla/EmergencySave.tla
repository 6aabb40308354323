---------------------------- MODULE EmergencySave -----------------------------
(***************************************************************************)
(* The exception filter of my_app.cpp composed with the session: a fault   *)
(* on either thread runs MyUnhandledExceptionFilter on that thread while   *)
(* the other one goes on.  Through the global weak reference of            *)
(* PersistentMapGlobal the filter reaches the map the session is filling,  *)
(* shares it for the time of the save, writes emergency_archive.xml and    *)
(* ends the process.  The reference is the atomic register PointerTransfer *)
(* implements; inside Set its lock is held.                                *)
(*                                                                         *)
(* While a filter shares the map the handler is not its only owner.  A     *)
(* handler that ends then leaves it to the filter, whose release destroys  *)
(* it and so writes persistence.xml.  Every other step here is a step of   *)
(* ScanSession or leaves its state alone.                                  *)
(***************************************************************************)
EXTENDS ScanSession

VARIABLES
    filter,     \* where each thread is in the exception filter
    holds,      \* the map each filter shares
    setter,     \* the thread inside CSpinLockPointerTransfer::Set
    ref,        \* what globalRef_ refers to
    orphan,     \* the map that only filters still own
    thread,     \* the worker thread has been started
    damaged,    \* the worker faulted half way through an insertion
    emergency,  \* what this run of the program wrote to emergency_archive.xml
    fresh       \* history: names recorded since the handler loaded its map

saving ==
    <<filter, holds, setter, ref, orphan, thread, damaged, emergency, fresh>>
evars == <<vars, saving>>

Threads == {"ui", "worker"}

\* get: in globalRef_.Get(); open, write: in SerializeNow; raced: writing a map
\* or a file that another thread interferes with; failed, saved: SerializeNow is
\* over; unsaved: there was no map; over: the map is released; spoilt: and that
\* wrote into the file of a save in progress.
FilterStates ==
    {"none", "get", "open", "write", "raced", "failed", "saved", "unsaved",
     "over", "spoilt"}

Serializing == {"open", "write", "raced"}
Serialized == {"failed", "saved"}

\* The map of the running handler, or the one it left to the filters.
MapOf(h) == IF h = "current" THEN pers.map ELSE orphan

Shared == \E t \in Threads : holds[t] = "current"

EInit ==
    /\ Init
    /\ filter = [t \in Threads |-> "none"] /\ holds = [t \in Threads |-> "nothing"]
    /\ setter = "nobody" /\ ref = "expired" /\ orphan = EmptyMap
    /\ thread = FALSE /\ damaged = FALSE
    /\ emergency = Absent /\ fresh = {}

------------------------------------------------------------------------------
(* The session *)

\* Mutant: the scan constructs its map without registering it.
RegisteringAnalyzeOnly(t) == ref # "current" /\ t = "ui" /\ ui = "destroying"

\* The places between the constructor of a PersistentMap and its Set.
Registering(t) ==
    /\ ref # "current"
    /\ \/ t = "worker" /\ wk = "dll"
       \/ t = "ui" /\ ui = "destroying"

\* What goes on elsewhere spoils the work of a filter: an insertion into the map
\* it iterates over is a data race.
Disturbed(t, u) ==
    /\ t = "worker" /\ pers'.map # pers.map
    /\ filter[u] = "write" /\ holds[u] = "current"

\* A thread goes on with the session once its map is registered.  The handler
\* destroys a map that nobody shares; it has no owner from the moment its
\* destructor runs, and a save a filter wrote into does not end well.
SessionStep(t) ==
    /\ filter[t] = "none" /\ ~Registering(t)
    /\ IF t = "ui" THEN /\ UserActs \/ UIStep
                        /\ ~(ui = "destroying" /\ Shared)
                        /\ ~(SaveCloses /\ \E u \in Threads : filter[u] = "spoilt")
       ELSE WorkerStep /\ wk' \notin {"fault", "dump"}
    /\ thread' = (thread \/ wk' = "posted")
    /\ ref' = IF ref = "current" /\ ui' \in {"idle", "saving"} THEN "expired" ELSE ref
    /\ fresh' = IF pers.load = "none" \/ pers'.load = "none" THEN {}
                ELSE fresh \cup (Recorded(pers'.map) \ Recorded(pers.map))
    /\ filter' = [u \in Threads |->
                     IF Disturbed(t, u) THEN "raced"
                     ELSE IF filter[u] = "spoilt" /\ ui' # "saving" THEN "over"
                     ELSE filter[u]]
    /\ UNCHANGED <<holds, setter, orphan, damaged, emergency>>

\* The handler ends while a filter shares its map: nothing is saved, and the
\* map goes on as the filter's.
HandlerLeaves(t) ==
    /\ t = "ui" /\ filter[t] = "none" /\ ~Registering(t)
    /\ Shared /\ SaveSkipped
    /\ orphan' = pers.map /\ ref' = "orphan" /\ fresh' = {}
    /\ holds' = [u \in Threads |-> IF holds[u] = "current" THEN "orphan" ELSE holds[u]]
    /\ UNCHANGED <<filter, setter, thread, damaged, emergency>>

\* SetCurrentInstance has acquired the lock of globalRef_.
SetBegin(t) ==
    /\ filter[t] = "none" /\ Registering(t) /\ setter = "nobody"
    /\ setter' = t
    /\ UNCHANGED <<vars, filter, holds, ref, orphan, thread, damaged, emergency, fresh>>

SetEnd(t) ==
    /\ filter[t] = "none" /\ setter = t
    /\ setter' = "nobody" /\ ref' = "current"
    /\ UNCHANGED <<vars, filter, holds, orphan, thread, damaged, emergency, fresh>>

------------------------------------------------------------------------------
(* The exception filter *)

\* A fault nothing catches, anywhere on a thread that runs: the worker goes on
\* after Done, on its way out of Traverse and in its message loop.  One inside
\* an insertion may leave the map in pieces.
Fault(t) ==
    /\ filter[t] = "none"
    /\ t = "worker" => thread
    /\ filter' = [filter EXCEPT ![t] = "get"]
    /\ damaged' \in {damaged} \cup IF t = "worker" /\ wk = "insert" THEN {TRUE} ELSE {}
    /\ UNCHANGED <<vars, holds, setter, ref, orphan, thread, emergency, fresh>>

\* globalRef_.Get().lock(): spins while a writer holds the lock, also when the
\* writer is the faulting thread itself.
GetRef(t) ==
    /\ filter[t] = "get" /\ setter = "nobody"
    /\ IF ref = "expired"
       THEN filter' = [filter EXCEPT ![t] = "unsaved"] /\ UNCHANGED holds
       ELSE /\ filter' = [filter EXCEPT ![t] = "open"]
            /\ holds' = [holds EXCEPT ![t] = ref]
    /\ UNCHANGED <<vars, setter, ref, orphan, thread, damaged, emergency, fresh>>

\* The stream is opened on the file, which truncates it; a second filter that
\* does so spoils what the first one is writing and its own.
OpenEmergency(t) ==
    /\ filter[t] = "open"
    /\ emergency' = Torn(MapOf(holds[t]))
    /\ filter' = [u \in Threads |->
                     IF u # t THEN IF filter[u] = "write" THEN "raced" ELSE filter[u]
                     ELSE IF damaged \/ \E v \in Threads \ {t} : filter[v] \in {"write", "raced"}
                     THEN "raced" ELSE "write"]
    /\ UNCHANGED <<vars, holds, setter, ref, orphan, thread, damaged, fresh>>

\* The stream is not good, or the writer throws, or the last buffer is lost.
EmergencyFails(t) ==
    /\ filter[t] \in Serializing
    /\ filter' = [filter EXCEPT ![t] = "failed"]
    /\ UNCHANGED <<vars, holds, setter, ref, orphan, thread, damaged, emergency, fresh>>

WriteEmergency(t) ==
    /\ filter[t] \in {"write", "raced"}
    /\ filter' = [filter EXCEPT ![t] = "saved"]
    /\ emergency' \in {Good(MapOf(holds[t]))} \cup
                      IF filter[t] = "write" THEN {} ELSE {Torn(MapOf(holds[t]))}
    /\ UNCHANGED <<vars, holds, setter, ref, orphan, thread, damaged, fresh>>

\* Mutant: the filter makes an owner of its own from the plain pointer.
LastOwnerUncounted(t) == holds[t] # "nothing"

LastOwner(t) == holds[t] = "orphan" /\ \A u \in Threads \ {t} : holds[u] # "orphan"

\* EmergencySerialize drops its reference, and somebody else has another.
Release(t) ==
    /\ filter[t] \in Serialized /\ ~LastOwner(t)
    /\ holds' = [holds EXCEPT ![t] = "nothing"]
    /\ filter' = [filter EXCEPT ![t] = "over"]
    /\ UNCHANGED <<vars, setter, ref, orphan, thread, damaged, emergency, fresh>>

\* It drops the last one: ~PersistentMap saves to persistence.xml on the faulting
\* thread, while the other thread may be saving there too.  It is no save of a
\* handler: what is in the file afterwards counts as torn, and the next
\* constructor may get all of it, a part, or nothing.
ReleaseLast(t) ==
    /\ filter[t] \in Serialized /\ LastOwner(t)
    /\ holds' = [holds EXCEPT ![t] = "nothing"]
    /\ orphan' = EmptyMap /\ ref' = IF ref = "orphan" THEN "expired" ELSE ref
    /\ \/ UNCHANGED archive /\ filter' = [filter EXCEPT ![t] = "over"]
       \/ /\ archive' \in Closings(archive, orphan)
          /\ filter' = [filter EXCEPT ![t] = IF ui = "saving" THEN "spoilt" ELSE "over"]
    /\ UNCHANGED <<ui, wk, dlg, scan, pers, frames, committed,
                   setter, thread, damaged, emergency, fresh>>

\* Nothing reads the emergency file back: for the next run it does not exist.
Gone ==
    /\ ProcessDies
    /\ filter' = [t \in Threads |-> "none"] /\ holds' = [t \in Threads |-> "nothing"]
    /\ setter' = "nobody" /\ ref' = "expired" /\ orphan' = EmptyMap
    /\ thread' = FALSE /\ damaged' = FALSE
    /\ emergency' = Absent /\ fresh' = {}

\* The minidump is written or not, and the process is over.
FilterEnds(t) == filter[t] \in {"unsaved", "over", "spoilt"} /\ Gone

------------------------------------------------------------------------------
FilterStep(t) ==
    \/ GetRef(t) \/ OpenEmergency(t) \/ EmergencyFails(t) \/ WriteEmergency(t)
    \/ Release(t) \/ ReleaseLast(t) \/ FilterEnds(t)

ThreadStep(t) ==
    \/ SessionStep(t) \/ HandlerLeaves(t) \/ SetBegin(t) \/ SetEnd(t)
    \/ FilterStep(t)

EKilled == Gone

ENext == (\E t \in Threads : ThreadStep(t) \/ Fault(t)) \/ EKilled

ESpec == EInit /\ [][ENext]_evars

------------------------------------------------------------------------------
(* Properties *)

\* The state is well formed.
ETypeOK ==
    /\ filter \in [Threads -> FilterStates]
    /\ holds \in [Threads -> {"nothing", "current", "orphan"}]
    /\ setter \in Threads \cup {"nobody"}
    /\ ref \in {"expired", "current", "orphan"} /\ orphan \in ResultMaps
    /\ thread \in BOOLEAN /\ damaged \in BOOLEAN
    /\ emergency \in ArchiveFiles /\ fresh \subseteq Names

\* "Data in the map maybe corrupted, save to another file": a map the worker left
\* in pieces never gets to persistence.xml, neither through the handler, which
\* goes on in the other thread, nor through the filter's own release.
DamagedNeverSaved == [][damaged => archive' = archive]_evars

\* A fault on the worker alone, in the decoder, after Done or elsewhere, costs
\* none of the results recorded since the archive was read: they are in the
\* emergency file, if that could be written and the map was not damaged, or the
\* handler is in its own save of them, which the end of the process may cut short.
WorkerFaultSaves ==
    filter["ui"] = "none" =>
        /\ filter["worker"] = "unsaved" => fresh = {} \/ ui = "saving"
        /\ filter["worker"] = "saved" /\ ~damaged =>
               emergency = Good(MapOf(holds["worker"]))

\* persistent_map.cpp saves to "another file" on a fault: what a filter does
\* leaves persistence.xml as it is.
FilterLeavesArchive ==
    [][\A t \in Threads : FilterStep(t) => archive' = archive]_evars

------------------------------------------------------------------------------
(* The inductive invariant *)

AfterSet == OnFile \cup {"loop", "done"}

\* The running handler's map is registered from its Set to its destructor, and
\* what it recorded can be reached until it saves; the session itself knows no
\* faults.
RefInv ==
    /\ wk \notin {"fault", "dump"}
    /\ ref = "current" => pers.load # "none" /\ ui \notin {"idle", "saving"}
    /\ ref # "current" => fresh = {} \/ ui = "saving"
    /\ wk \in AfterSet => ref = "current"
    /\ setter # "nobody" => Registering(setter)

\* A filter shares a map from its lock() to its release.  The handler's map is
\* left to the worker's filter only, after the task is over; a damaged one is
\* never left, as the task that damaged it never ends.
OwnerInv ==
    /\ \A t \in Threads :
          /\ holds[t] # "nothing" <=> filter[t] \in Serializing \cup Serialized
          /\ holds[t] = "current" => ref = "current"
          /\ holds[t] = "orphan" => filter["worker"] # "none" /\ wk \in {"idle", "posted"}
    /\ ref = "orphan" => \E t \in Threads : holds[t] = "orphan"
    /\ \A n \in Names : orphan[n] # "interrupted"
    /\ damaged => filter["worker"] # "none" /\ wk = "insert"

\* Only a filter on the UI thread can spoil what the worker's filter writes.
RaceInv == filter["worker"] = "raced" => filter["ui"] # "none" \/ damaged

EInv == ETypeOK /\ RefInv /\ OwnerInv /\ RaceInv /\ WorkerFaultSaves
==============================================================================
