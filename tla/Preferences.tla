----------------------------- MODULE Preferences -----------------------------
(***************************************************************************)
(* source/reimpl/preferences.c: the store behind Lime's Android preference *)
(* bridge, with the file helpers of source/utils/utils.c it saves through. *)
(*                                                                         *)
(* All entry points take preferences_mutex for their whole body, so one    *)
(* call is in progress at a time; inside it every file-system call is a    *)
(* step of its own, because the process may die between any two of them.   *)
(*                                                                         *)
(* A file is NoFile, EmptyFile (opened "wb", nothing written), TornFile (a *)
(* proper prefix of a version, which the loader rejects: PrefsFormat) or a *)
(* complete version.                                                       *)
(***************************************************************************)
EXTENDS Naturals

CONSTANTS
  Keys,        \* preference names (never empty strings: line 254)
  Vals,        \* preference values
  Suppress,    \* suppress_gold_ad_hint as a function on Vals
  Absent,      \* the key has no entry in the list
  NullValue,   \* the entry is linked but its value pointer is NULL
  NoFile, EmptyFile, TornFile,
  Faults       \* the environment's failures this instance admits

FaultSites ==
  { "crash",     \* the process dies at any moment
    "read",      \* file_load fails although the file is there
    "get",       \* strdup fails in preferences_get
    "entry",     \* calloc or strdup fails in preferences_set
    "encode",    \* the size guard or malloc fails in save_locked
    "open_tmp",  \* fopen of preferences.tmp fails
    "backup",    \* file_copy of .bin to .bak fails before opening .bak
    "unlink",    \* sceIoRemove of preferences.bin fails
    "rename",    \* sceIoRename fails
    "fallback",  \* file_copy of .tmp to .bin fails before opening .bin
    "write" }    \* fwrite writes less than it was given

ASSUME FaultsAssumption == Faults \subseteq FaultSites

ASSUME SuppressAssumption ==
  /\ Suppress \in [Vals -> Vals]
  /\ \A v \in Vals : Suppress[Suppress[v]] = Suppress[v]

ASSUME SentinelAssumption ==
  /\ Absent \notin Vals
  /\ NullValue \notin Vals \cup {Absent}

Versions == [Keys -> Vals \cup {Absent}]
Damaged == {NoFile, EmptyFile, TornFile}

ASSUME FileAssumption ==
  /\ Damaged \cap Versions = {}
  /\ NoFile # EmptyFile /\ NoFile # TornFile /\ EmptyFile # TornFile

VARIABLES
  list,         \* preferences: what the linked list maps each key to
  initialized,  \* initialized
  dirty,        \* dirty
  main,         \* preferences.bin
  bak,          \* preferences.bak
  tmp,          \* preferences.tmp
  pc,           \* where the call holding preferences_mutex stands
  call,         \* that call's operation and arguments
  answer,       \* what preferences_get returned last; Absent stands for NULL
  hits,         \* history: the failures since preferences.bin was last known
                \*   complete, among those that touch the files
  failed        \* history: which of reading, backing up and writing have
                \*   failed in this process since its last complete save

memory == <<list, initialized, dirty>>
files == <<main, bak, tmp>>
store == <<list, initialized, dirty, main, bak, tmp, pc, call, answer>>
history == <<hits, failed>>
vars == <<list, initialized, dirty, main, bak, tmp, pc, call, answer, hits, failed>>

MaxHits == 2    \* hits is counted no further: two failures already lose a store

Calls ==
  [op : {"get", "set"}, key : Keys, val : Vals]
    \cup [op : {"remove"}, key : Keys]
    \cup [op : {"init", "flush"}]

NoCall == [op |-> "none"]

Blank == [k \in Keys |-> Absent]

Files == Versions \cup Damaged

SaveSteps ==
  { "save", "write_tmp", "backup", "write_bak", "unlink", "rename",
    "fallback", "write_main", "cleanup", "clean" }

TypeOK ==
  /\ list \in [Keys -> Vals \cup {Absent, NullValue}]
  /\ initialized \in BOOLEAN
  /\ dirty \in BOOLEAN
  /\ main \in Files /\ bak \in Files /\ tmp \in Files
  /\ pc \in {"idle", "init", "apply"} \cup SaveSteps
  /\ call \in Calls \cup {NoCall}
  /\ answer \in Vals \cup {Absent}
  /\ hits \in 0 .. MaxHits
  /\ failed \subseteq {"read", "backup", "write"}

(***************************************************************************)
(* A loader's first start finds no file, or the files an earlier run left. *)
(* Until there is a complete preferences.bin there is nothing to protect.  *)
(***************************************************************************)
Init ==
  /\ list = Blank
  /\ initialized = FALSE
  /\ dirty = FALSE
  /\ main \in Versions \cup {NoFile}
  /\ bak \in Versions \cup {NoFile}
  /\ main = NoFile => bak = NoFile
  /\ tmp = NoFile
  /\ pc = "idle"
  /\ call = NoCall
  /\ answer = Absent
  /\ hits = IF main \in Versions THEN 0 ELSE MaxHits
  /\ failed = {}

Goto(from, to) == pc = from /\ pc' = to

Return == pc' = "idle" /\ call' = NoCall

-----------------------------------------------------------------------------
(* The calls *)

\* A caller takes the mutex; initialize_locked runs first in every call.
Enter(c) ==
  /\ pc = "idle"
  /\ pc' = IF initialized THEN "apply" ELSE "init"
  /\ call' = c
  /\ UNCHANGED <<memory, files, answer>>

LoadMainOnly(mainReadable, bakReadable) ==
  /\ Goto("init", "apply")
  /\ initialized' = TRUE
  /\ list' = IF mainReadable /\ main \in Versions THEN main ELSE list
  /\ UNCHANGED <<dirty, files, call, answer>>

\* initialize_locked: the file if it loads, else the backup, else nothing.
\* preferences.tmp is never looked at.
InitializeLocked(mainReadable, bakReadable) ==
  /\ Goto("init", "apply")
  /\ initialized' = TRUE
  /\ \/ /\ mainReadable /\ main \in Versions
        /\ list' = main
        /\ UNCHANGED dirty
     \/ /\ ~(mainReadable /\ main \in Versions)
        /\ bakReadable /\ bak \in Versions
        /\ list' = bak
        /\ dirty' = TRUE
     \/ /\ ~(mainReadable /\ main \in Versions)
        /\ ~(bakReadable /\ bak \in Versions)
        /\ UNCHANGED <<list, dirty>>
  /\ UNCHANGED <<files, call, answer>>

Initialize == InitializeLocked(TRUE, TRUE)

\* A complete file is there, but opening it or the memory to load it fails.
LoadFails ==
  /\ "read" \in Faults
  /\ \/ /\ main \in Versions
        /\ \E bakReadable \in BOOLEAN : InitializeLocked(FALSE, bakReadable)
     \/ /\ main \notin Versions /\ bak \in Versions
        /\ InitializeLocked(TRUE, FALSE)

GetNull ==
  /\ pc = "apply" /\ call.op = "get"
  /\ answer' = LET found == IF list[call.key] = Absent THEN call.val ELSE list[call.key]
               IN  IF found = NullValue THEN found ELSE Suppress[found]
  /\ Return
  /\ UNCHANGED <<memory, files>>

\* preferences_get: strdup of the entry's value or of the default, then the
\* hint is suppressed in the copy.
Get ==
  /\ pc = "apply" /\ call.op = "get"
  /\ list[call.key] # NullValue
  /\ answer' = Suppress[IF list[call.key] = Absent THEN call.val ELSE list[call.key]]
  /\ Return
  /\ UNCHANGED <<memory, files>>

\* The copy cannot be made and NULL is returned.
GetFails ==
  /\ "get" \in Faults
  /\ pc = "apply" /\ call.op = "get"
  /\ list[call.key] # NullValue
  /\ answer' = Absent
  /\ Return
  /\ UNCHANGED <<memory, files>>

\* A set that saves only when it changes something.
SetIfChanged ==
  /\ pc = "apply" /\ call.op = "set"
  /\ list' = [list EXCEPT ![call.key] = Suppress[call.val]]
  /\ \/ list' = list /\ Return /\ UNCHANGED dirty
     \/ list' # list /\ dirty' = TRUE /\ pc' = "save" /\ UNCHANGED call
  /\ UNCHANGED <<initialized, files, answer>>

Set ==
  /\ pc = "apply" /\ call.op = "set"
  /\ list' = [list EXCEPT ![call.key] = Suppress[call.val]]
  /\ dirty' = TRUE
  /\ pc' = "save"
  /\ UNCHANGED <<initialized, files, call, answer>>

\* preferences_set out of memory: a new entry stays linked without a value
\* when only its strdup(value) fails, and nothing is saved.
SetFails ==
  /\ "entry" \in Faults
  /\ pc = "apply" /\ call.op = "set"
  /\ \/ UNCHANGED list
     \/ /\ list[call.key] = Absent
        /\ list' = [list EXCEPT ![call.key] = NullValue]
  /\ Return
  /\ UNCHANGED <<initialized, dirty, files, answer>>

Remove ==
  /\ pc = "apply" /\ call.op = "remove"
  /\ \/ /\ list[call.key] = Absent
        /\ Return
        /\ UNCHANGED <<list, dirty>>
     \/ /\ list[call.key] # Absent
        /\ list' = [list EXCEPT ![call.key] = Absent]
        /\ dirty' = TRUE
        /\ pc' = "save"
        /\ UNCHANGED call
  /\ UNCHANGED <<initialized, files, answer>>

\* preferences_init has nothing left to do; preferences_flush saves.
InitOrFlush ==
  /\ pc = "apply"
  /\ \/ call.op = "init" /\ Return
     \/ call.op = "flush" /\ pc' = "save" /\ UNCHANGED call
  /\ UNCHANGED <<memory, files, answer>>

-----------------------------------------------------------------------------
(* save_locked, one file-system call at a time *)

NoNullValue == \A k \in Keys : list[k] # NullValue

SaveNothing ==
  /\ pc = "save" /\ ~dirty
  /\ Return
  /\ UNCHANGED <<memory, files, answer>>

RemoveThenOpenTmp ==
  /\ Goto("save", "write_tmp")
  /\ dirty /\ NoNullValue
  /\ tmp' = EmptyFile
  /\ main' = NoFile
  /\ UNCHANGED <<memory, bak, call, answer>>

\* The version is encoded and preferences.tmp opened for writing.
OpenTmp ==
  /\ Goto("save", "write_tmp")
  /\ dirty /\ NoNullValue
  /\ tmp' = EmptyFile
  /\ UNCHANGED <<memory, main, bak, call, answer>>

\* return 0 with dirty still set; the callers only log it.
SaveFails ==
  /\ pc = "save" /\ dirty /\ NoNullValue
  /\ {"encode", "open_tmp"} \cap Faults # {}
  /\ Return
  /\ UNCHANGED <<memory, files, answer>>

WriteTmp ==
  /\ Goto("write_tmp", "backup")
  /\ tmp' = list
  /\ UNCHANGED <<memory, main, bak, call, answer>>

BackupSkipped ==
  /\ Goto("backup", "unlink")
  /\ UNCHANGED <<memory, files, call, answer>>

\* file_copy loads preferences.bin whole and opens preferences.bak for
\* writing; there is nothing to copy when it is missing or empty.
Backup ==
  /\ pc = "backup"
  /\ \/ /\ main \notin {NoFile, EmptyFile}
        /\ bak' = EmptyFile
        /\ pc' = "write_bak"
     \/ /\ main \in {NoFile, EmptyFile}
        /\ pc' = "unlink"
        /\ UNCHANGED bak
  /\ UNCHANGED <<memory, main, tmp, call, answer>>

\* file_copy gives up before it opens preferences.bak: no memory for the
\* contents, or one of the two files cannot be opened.  Its result is ignored.
BackupFails ==
  /\ "backup" \in Faults
  /\ Goto("backup", "unlink")
  /\ main \notin {NoFile, EmptyFile}
  /\ UNCHANGED <<memory, files, call, answer>>

WriteBak ==
  /\ Goto("write_bak", "unlink")
  /\ bak' = main
  /\ UNCHANGED <<memory, main, tmp, call, answer>>

Unlink ==
  /\ Goto("unlink", "rename")
  /\ main' = NoFile
  /\ UNCHANGED <<memory, bak, tmp, call, answer>>

UnlinkFails ==
  /\ "unlink" \in Faults
  /\ Goto("unlink", "rename")
  /\ main # NoFile
  /\ UNCHANGED <<memory, files, call, answer>>

Rename ==
  /\ Goto("rename", "clean")
  /\ main' = tmp
  /\ tmp' = NoFile
  /\ UNCHANGED <<memory, bak, call, answer>>

\* A file that could not be removed is in the way.
RenameRefused ==
  /\ Goto("rename", "fallback")
  /\ main # NoFile
  /\ UNCHANGED <<memory, files, call, answer>>

RenameFails ==
  /\ "rename" \in Faults
  /\ Goto("rename", "fallback")
  /\ UNCHANGED <<memory, files, call, answer>>

\* file_copy of preferences.tmp over preferences.bin; an empty one fails to
\* load.
Fallback ==
  /\ pc = "fallback"
  /\ \/ /\ tmp # EmptyFile
        /\ main' = EmptyFile
        /\ pc' = "write_main"
        /\ UNCHANGED call
     \/ /\ tmp = EmptyFile
        /\ Return
        /\ UNCHANGED main
  /\ UNCHANGED <<memory, bak, tmp, answer>>

FallbackFailsClean ==
  /\ "fallback" \in Faults
  /\ Goto("fallback", "clean")
  /\ UNCHANGED <<memory, files, call, answer>>

FallbackFails ==
  /\ "fallback" \in Faults
  /\ pc = "fallback"
  /\ Return
  /\ UNCHANGED <<memory, files, answer>>

WriteMain ==
  /\ Goto("write_main", "cleanup")
  /\ main' = tmp
  /\ UNCHANGED <<memory, bak, tmp, call, answer>>

\* fwrite writes less than it was given to the file just opened; file_save
\* ignores its result and the save goes on.
WriteCutShort ==
  /\ "write" \in Faults
  /\ \/ /\ Goto("write_tmp", "backup")
        /\ tmp' \in {EmptyFile, TornFile}
        /\ UNCHANGED <<main, bak>>
     \/ /\ Goto("write_bak", "unlink")
        /\ bak' \in {EmptyFile, TornFile}
        /\ UNCHANGED <<main, tmp>>
     \/ /\ Goto("write_main", "cleanup")
        /\ main' \in {EmptyFile, TornFile}
        /\ UNCHANGED <<bak, tmp>>
  /\ UNCHANGED <<memory, call, answer>>

Cleanup ==
  /\ Goto("cleanup", "clean")
  /\ tmp' = NoFile
  /\ UNCHANGED <<memory, main, bak, call, answer>>

MarkClean ==
  /\ pc = "clean"
  /\ dirty' = FALSE
  /\ Return
  /\ UNCHANGED <<list, initialized, files, answer>>

-----------------------------------------------------------------------------
(* The process dies *)

ProcessEnds ==
  /\ list' = Blank
  /\ initialized' = FALSE
  /\ dirty' = FALSE
  /\ answer' = Absent
  /\ Return

\* Power off, a kill or a fault elsewhere: a file being written is cut short.
Crash ==
  /\ "crash" \in Faults
  /\ ProcessEnds
  /\ tmp' \in {tmp} \cup IF pc = "write_tmp" THEN {TornFile} ELSE {}
  /\ bak' \in {bak} \cup IF pc = "write_bak" THEN {TornFile} ELSE {}
  /\ main' \in {main} \cup IF pc = "write_main" THEN {TornFile} ELSE {}

\* strdup or strlen of the NULL value that SetFails can leave behind.
NullDereference ==
  /\ \/ pc = "apply" /\ call.op = "get" /\ list[call.key] = NullValue
     \/ pc = "save" /\ dirty /\ ~NoNullValue
  /\ ProcessEnds
  /\ UNCHANGED files

-----------------------------------------------------------------------------
CallStep ==
  \/ Initialize \/ Get \/ Set \/ Remove \/ InitOrFlush

SaveStep ==
  \/ SaveNothing \/ OpenTmp \/ WriteTmp \/ Backup \/ WriteBak
  \/ Unlink \/ Rename \/ RenameRefused \/ Fallback \/ WriteMain \/ Cleanup

\* Failures after which the files are as they were and the call is over.
Refusal == GetFails \/ SetFails \/ SaveFails

Hit == hits' = IF hits < MaxHits THEN hits + 1 ELSE MaxHits

Next ==
  \/ (\E c \in Calls : Enter(c)) /\ UNCHANGED history
  \/ CallStep /\ UNCHANGED history
  \/ SaveStep /\ UNCHANGED history
  \/ Refusal /\ UNCHANGED history
  \/ LoadFails /\ UNCHANGED hits /\ failed' = failed \cup {"read"}
  \/ BackupFails /\ Hit /\ failed' = failed \cup {"backup"}
  \/ WriteCutShort /\ Hit /\ failed' = failed \cup {"write"}
  \/ (UnlinkFails \/ RenameFails \/ FallbackFails) /\ Hit /\ UNCHANGED failed
  \/ MarkClean /\ main \in Versions /\ hits' = 0 /\ failed' = {}
  \/ MarkClean /\ main \notin Versions /\ UNCHANGED history
  \/ Crash /\ Hit /\ failed' = {}
  \/ NullDereference /\ UNCHANGED hits /\ failed' = {}

Spec == Init /\ [][Next]_vars

\* A thread inside a call is scheduled until the call returns; nothing makes
\* the game call.
FairSpec == Spec /\ WF_store(CallStep \/ SaveStep \/ MarkClean)

-----------------------------------------------------------------------------
(* Properties *)

\* The version a process starting now would load (initialize_locked).
Recoverable ==
  IF main \in Versions THEN main
  ELSE IF bak \in Versions THEN bak
  ELSE Blank

\* The version the running process shows to its callers.
Visible == [k \in Keys |-> IF list[k] = NullValue THEN Absent ELSE list[k]]

\* Between calls, a store that believes it has nothing to save is right: a
\* crash now would lose nothing, unless this process could not read what was
\* there or wrote a file short and has not saved since.  Broken by a save that
\* reports success too early, or by a start that skips a version it could read.
CleanMeansDurable ==
  (pc = "idle" /\ initialized /\ ~dirty /\ failed \cap {"read", "write"} = {})
    => Recoverable = Visible

SomeCompleteFile == main \in Versions \/ bak \in Versions

\* No single failure loses the store: from a complete preferences.bin on, until
\* a save completes again, the process may die once at any moment, or one copy,
\* removal, renaming or write may fail, and memory may run out anywhere else as
\* often as it likes, and between calls a complete version still stands where
\* the loader looks.  Two such failures can lose it (line 216 is not checked).
OneFailureSurvived ==
  (pc = "idle" /\ hits <= 1) => SomeCompleteFile

\* The last complete file is given up only for its successor: a step after
\* which the loader would find nothing is a step of a save whose version
\* already stands whole in preferences.tmp, unless that was itself cut short.
\* In particular no crash by itself takes the last complete file away.
GivenUpForNext ==
  [][SomeCompleteFile /\ ~SomeCompleteFile'
       => initialized' /\ (tmp' = list' \/ "write" \in failed')]_vars

\* Once there is a complete version where the loader looks for one, there
\* always is (README.md, "with the preceding version retained").
NeverLosesLastVersion ==
  [][SomeCompleteFile => SomeCompleteFile']_vars

\* A failed save is made good by the next call that saves: if from some time on
\* saves get their memory and write whole files, the process stays alive and
\* the game goes on setting values, new or not, what it is shown becomes what
\* would be recovered, whether or not files can be removed, renamed or backed up.
RetryHeals ==
  ( /\ <>[][~(SaveFails \/ WriteCutShort \/ FallbackFails
              \/ Crash \/ NullDereference)]_vars
    /\ []<><<Set>>_vars )
  => []<>(Recoverable = Visible)

(***************************************************************************)
(* The store implements DurableStore: what a restart would load changes    *)
(* from one complete version to the next, and goes back to the spare one   *)
(* only after a backup copy or a load has failed.                          *)
(***************************************************************************)
Promise == INSTANCE DurableStore
             WITH current <- IF initialized THEN Visible ELSE Recoverable,
                  durable <- Recoverable,
                  spare <- IF bak \in Versions THEN bak ELSE Blank,
                  phase <- IF ~initialized THEN "fresh"
                           ELSE IF pc = "rename" THEN "replacing" ELSE "open"

Durability == Promise!Spec
=============================================================================
