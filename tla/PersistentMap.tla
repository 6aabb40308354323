---------------------------- MODULE PersistentMap ----------------------------
(***************************************************************************)
(* The result map of persistent_map.h / persistent_map.cpp and its archive *)
(* on disk.  A PersistentMap is a std::map from the base name of an audio  *)
(* file to the MediaInfo measured for it; it is read from persistence.xml  *)
(* by the constructor and written back by the destructor.  The fields of a *)
(* MediaInfo are abstracted to how the entry came about.                   *)
(***************************************************************************)

CONSTANT Names                        \* base names of audio files: the keys

NoRecord == "none"

(***************************************************************************)
(* How an entry came about: cutoff measured; no measurement (format not    *)
(* known, decoder refused, or "[Crash]", a C++ exception while measuring); *)
(* or a measurement the user interrupted, which must never be an entry.    *)
(***************************************************************************)
Records == {"measured", "unmeasured", "interrupted"}

ResultMaps == [Names -> Records \cup {NoRecord}]

EmptyMap == [n \in Names |-> NoRecord]

Recorded(m) == {n \in Names : m[n] # NoRecord}

Extends(m, old) == \A n \in Recorded(old) : m[n] = old[n]

\* std::map::insert leaves an existing entry alone.
InsertResult(m, n, r) == IF m[n] = NoRecord THEN [m EXCEPT ![n] = r] ELSE m

(***************************************************************************)
(* What is left of m when the archive that holds it is cut short: the XML  *)
(* reader keeps the entries it finished before it threw.  The archive is   *)
(* in key order and the names carry no order here, so any subset counts.   *)
(***************************************************************************)
Remains(m) ==
    {[n \in Names |-> IF n \in S THEN m[n] ELSE NoRecord] : S \in SUBSET Recorded(m)}

(***************************************************************************)
(* Archive files.  A torn file is one whose ofstream was opened (and so    *)
(* truncated) and not closed after a complete write, or one that another   *)
(* stream wrote into since.                                                *)
(***************************************************************************)
ArchiveFiles == [health : {"absent", "torn", "good"}, map : ResultMaps]

Absent  == [health |-> "absent", map |-> EmptyMap]
Torn(m) == [health |-> "torn", map |-> m]
Good(m) == [health |-> "good", map |-> m]

(***************************************************************************)
(* The file after a stream that was opened on it before, and has something *)
(* of m still buffered, is closed: untouched if the buffer cannot be       *)
(* written, and otherwise some of its entries are overwritten.             *)
(***************************************************************************)
Closings(file, m) ==
    {file} \cup
    {Torn([n \in Names |-> IF n \in S THEN m[n] ELSE file.map[n]]) : S \in SUBSET Names}

(***************************************************************************)
(* PersistentMap objects.  load tells how the constructor got the map: the *)
(* archive was read or there was none ("ok"), the stream did not open and  *)
(* the map is silently empty ("unopened"), the reader threw ("corrupt"),   *)
(* or it got through a file that is torn, as when only the closing tag is  *)
(* missing ("whole").  "failed" is an object whose destructor is suspended *)
(* in the box of a save that threw, and "none" stands for no object.       *)
(***************************************************************************)
Instances ==
    [map : ResultMaps,
     load : {"none", "ok", "unopened", "corrupt", "whole", "failed"}]

NoInst == [map |-> EmptyMap, load |-> "none"]

\* The objects the constructor may build from an archive file.
Loads(file) ==
    IF file.health = "absent"
    THEN {[map |-> EmptyMap, load |-> "ok"]}
    ELSE {[map |-> EmptyMap, load |-> "unopened"]} \cup
         IF file.health = "torn"
         THEN {[map |-> m, load |-> "corrupt"] : m \in Remains(file.map)} \cup
              {[map |-> file.map, load |-> "whole"]}
         ELSE {[map |-> file.map, load |-> "ok"]}
==============================================================================
