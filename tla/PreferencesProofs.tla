-------------------------- MODULE PreferencesProofs --------------------------
(***************************************************************************)
(* Proofs about Preferences, for every set of keys and values:             *)
(*   - whatever fails: the type invariant, CleanMeansDurable,              *)
(*     OneFailureSurvived and GivenUpForNext;                              *)
(*   - the refinement of DurableStore, when the process may die and memory *)
(*     may run out anywhere, the backup copy and the load included, but    *)
(*     files can be removed, renamed and written.                          *)
(***************************************************************************)
EXTENDS Preferences, TLAPS

\* Where a call may stand: saving means there is something to save and every
\* entry has a value, and an uninitialized store has no call past its init.
CallInv ==
  /\ pc \in SaveSteps \ {"save"} => dirty /\ NoNullValue
  /\ pc \in SaveSteps \cup {"apply"} => initialized
  /\ pc = "init" => ~initialized
  /\ ~initialized => list = Blank /\ ~dirty

LEMMA HistoryType ==
  TypeOK /\ [Next]_vars =>
    hits' \in 0 .. MaxHits /\ failed' \subseteq {"read", "backup", "write"}
<1>. SUFFICES ASSUME TypeOK, [Next]_vars
              PROVE  hits' \in 0 .. MaxHits /\ failed' \subseteq {"read", "backup", "write"}
  OBVIOUS
<1>1. hits \in 0 .. 2 /\ MaxHits = 2 /\ failed \subseteq {"read", "backup", "write"}
  BY DEF TypeOK, MaxHits
<1>2. \/ hits' \in {hits, 0} \/ Hit
  BY DEF Next, history, vars
<1>3. failed' \in {failed, {}, failed \cup {"read"}, failed \cup {"backup"},
                  failed \cup {"write"}}
  BY DEF Next, history, vars
<1>4. hits' \in 0 .. MaxHits
  BY <1>1, <1>2 DEF Hit
<1>. QED
  BY <1>1, <1>3, <1>4

\* Every step keeps the types, given that a save starts from a list of which
\* every entry has a value.
LEMMA TypeStep == TypeOK /\ CallInv /\ [Next]_vars => TypeOK'
<1>. SUFFICES ASSUME TypeOK, CallInv, [Next]_vars PROVE TypeOK'
  OBVIOUS
<1>h. hits' \in 0 .. MaxHits /\ failed' \subseteq {"read", "backup", "write"}
  BY HistoryType
<1>. USE <1>h, SuppressAssumption, SentinelAssumption, FileAssumption
     DEF TypeOK, Versions, Files, Damaged, SaveSteps
<1>1. ASSUME NEW c \in Calls, Enter(c) PROVE TypeOK'
  BY <1>1 DEF Enter, memory, files
<1>2. CASE Initialize \/ LoadFails
  <2>. PICK mainReadable \in BOOLEAN, bakReadable \in BOOLEAN :
         InitializeLocked(mainReadable, bakReadable)
    BY <1>2 DEF Initialize, LoadFails
  <2>1. list' \in {main, bak, list} /\ (list' = list \/ list' \in Versions)
    BY DEF InitializeLocked
  <2>2. list' \in [Keys -> Vals \cup {Absent, NullValue}]
    BY <2>1
  <2>3. initialized' \in BOOLEAN /\ dirty' \in BOOLEAN /\ pc' = "apply"
    BY DEF InitializeLocked, Goto
  <2>. QED
    BY <2>2, <2>3 DEF InitializeLocked, files
<1>3. CASE Get \/ GetFails
  BY <1>3 DEF Get, GetFails, Return, memory, files, Calls, NoCall
<1>4. CASE Set
  BY <1>4 DEF Set, files, Calls, NoCall
<1>5. CASE SetFails
  BY <1>5 DEF SetFails, Return, files, Calls, NoCall
<1>6. CASE Remove
  <2>1. list' \in [Keys -> Vals \cup {Absent, NullValue}] /\ dirty' \in BOOLEAN
    BY <1>6 DEF Remove
  <2>. QED
    BY <1>6, <2>1 DEF Remove, Return, files, Calls, NoCall
<1>7. CASE InitOrFlush
  BY <1>7 DEF InitOrFlush, Return, memory, files
<1>8. CASE SaveNothing \/ SaveFails \/ MarkClean \/ FallbackFails
  BY <1>8 DEF SaveNothing, SaveFails, MarkClean, FallbackFails, Return, memory, files
<1>9. CASE OpenTmp \/ Cleanup \/ WriteBak \/ WriteMain
  BY <1>9 DEF OpenTmp, Cleanup, WriteBak, WriteMain, Goto, memory
<1>10. CASE WriteTmp
  <2>1. list \in Versions
    BY <1>10 DEF WriteTmp, CallInv, Goto, NoNullValue
  <2>. QED
    BY <1>10, <2>1 DEF WriteTmp, Goto, memory
<1>11. CASE Backup \/ BackupFails \/ WriteCutShort
  BY <1>11 DEF Backup, BackupFails, WriteCutShort, Goto, memory, files
<1>12. CASE Unlink \/ UnlinkFails \/ Rename \/ RenameRefused \/ RenameFails \/ Fallback
  BY <1>12 DEF Unlink, UnlinkFails, Rename, RenameRefused, RenameFails, Fallback,
       Goto, Return, memory, files
<1>13. CASE Crash \/ NullDereference
  BY <1>13 DEF Crash, NullDereference, ProcessEnds, Return, Blank, files
<1>14. CASE UNCHANGED vars
  BY <1>14 DEF vars
<1>. QED
  BY <1>1, <1>2, <1>3, <1>4, <1>5, <1>6, <1>7, <1>8, <1>9, <1>10, <1>11, <1>12, <1>13, <1>14
     DEF Next, CallStep, SaveStep, Refusal

LEMMA CallStepInv == TypeOK /\ CallInv /\ [Next]_vars => CallInv'
<1>. USE DEF CallInv, SaveSteps
<1>. SUFFICES ASSUME TypeOK, CallInv, [Next]_vars PROVE CallInv'
  OBVIOUS
<1>1. ASSUME NEW c \in Calls, Enter(c) PROVE CallInv'
  BY <1>1 DEF Enter, memory, NoNullValue
<1>2. CASE Initialize \/ LoadFails
  BY <1>2 DEF Initialize, LoadFails, InitializeLocked, Goto
<1>3. CASE Get \/ GetFails \/ InitOrFlush
  BY <1>3 DEF Get, GetFails, InitOrFlush, Return, memory
<1>4. CASE Set \/ Remove
  BY <1>4 DEF Set, Remove, Return
<1>5. CASE SetFails
  BY <1>5 DEF SetFails, Return
<1>6. CASE SaveStep
  BY <1>6 DEF SaveStep, SaveNothing, OpenTmp, WriteTmp, Backup, WriteBak,
       Unlink, Rename, RenameRefused, Fallback, WriteMain, Cleanup,
       Goto, Return, memory, NoNullValue
<1>7. CASE MarkClean \/ SaveFails \/ FallbackFails \/ BackupFails \/ UnlinkFails
           \/ RenameFails \/ WriteCutShort
  BY <1>7 DEF MarkClean, SaveFails, FallbackFails, BackupFails, UnlinkFails, RenameFails,
       WriteCutShort, Goto, Return, memory, NoNullValue
<1>8. CASE Crash \/ NullDereference
  BY <1>8 DEF Crash, NullDereference, ProcessEnds, Return
<1>9. CASE UNCHANGED vars
  BY <1>9 DEF vars, NoNullValue
<1>. QED
  BY <1>1, <1>2, <1>3, <1>4, <1>5, <1>6, <1>7, <1>8, <1>9 DEF Next, CallStep, Refusal

LEMMA Typing == Spec => [](TypeOK /\ CallInv)
<1>1. Init => TypeOK /\ CallInv
  <2>. SUFFICES ASSUME Init PROVE TypeOK /\ CallInv
    OBVIOUS
  <2>1. list \in [Keys -> Vals \cup {Absent, NullValue}] /\ answer \in Vals \cup {Absent}
    BY DEF Init, Blank
  <2>2. main \in Files /\ bak \in Files /\ tmp \in Files
    BY DEF Init, Files, Damaged
  <2>3. hits \in 0 .. MaxHits
    BY DEF Init, MaxHits
  <2>. QED
    BY <2>1, <2>2, <2>3 DEF Init, TypeOK, CallInv, SaveSteps
<1>2. TypeOK /\ CallInv /\ [Next]_vars => (TypeOK /\ CallInv)'
  BY TypeStep, CallStepInv
<1>. QED
  BY <1>1, <1>2, PTL DEF Spec

\* Type correctness, for every set of keys and values and every combination
\* of faults.
THEOREM TypeCorrect == Spec => []TypeOK
BY Typing, PTL

-----------------------------------------------------------------------------
(* A list in which every entry has a value is a version, and shows itself. *)

LEMMA VisibleVersion ==
  ASSUME TypeOK, list \in Versions
  PROVE  Visible = list
BY SentinelAssumption DEF Visible, Versions

LEMMA CompleteList ==
  ASSUME TypeOK, NoNullValue
  PROVE  list \in Versions
BY DEF TypeOK, NoNullValue, Versions

LEMMA BlankVersion == Blank \in Versions
BY DEF Blank, Versions

\* The steps of a call that leave every file as it is.
LEMMA FilesUntouched ==
  ASSUME \/ \E c \in Calls : Enter(c)
         \/ CallStep \/ Refusal \/ LoadFails \/ SaveNothing \/ RenameRefused
         \/ BackupFails \/ UnlinkFails \/ RenameFails \/ FallbackFails \/ MarkClean
         \/ NullDereference
  PROVE  UNCHANGED files
BY DEF Enter, CallStep, Refusal, LoadFails, Initialize, InitializeLocked, Get, GetFails, Set,
       SetFails, Remove, InitOrFlush, SaveFails, SaveNothing, RenameRefused, BackupFails,
       UnlinkFails, RenameFails, FallbackFails, MarkClean, NullDereference, files

-----------------------------------------------------------------------------
(* What a save has put where *)

InSave == {"backup", "write_bak", "unlink", "rename", "fallback", "write_main", "cleanup"}

Whole(file) == file = list
CutShort(file) == "write" \in failed /\ file \in {EmptyFile, TornFile}

\* preferences.tmp, and then preferences.bin, holds the version being saved
\* unless a write was cut short; and a store with nothing to save rests on what
\* it would recover.
SavedInv ==
  /\ pc \in InSave => Whole(tmp) \/ CutShort(tmp)
  /\ pc \in {"cleanup", "clean"} => Whole(main) \/ CutShort(main)
  /\ pc = "write_bak" => bak = EmptyFile
  /\ pc = "write_main" => main = EmptyFile
  /\ initialized /\ ~dirty /\ failed \cap {"read", "write"} = {} => Recoverable = Visible

LEMMA SavedInvStep ==
  ASSUME TypeOK, CallInv, SavedInv, [Next]_vars
  PROVE  SavedInv'
<1>. USE DEF SavedInv, SaveSteps, InSave, Whole, CutShort
<1>1. NoNullValue => list \in Versions /\ Visible = list
  BY CompleteList, VisibleVersion
<1>2. ASSUME UNCHANGED <<list, main, bak>> PROVE UNCHANGED <<Visible, Recoverable>>
  BY <1>2 DEF Visible, Recoverable
<1>3. ASSUME NEW c \in Calls, Enter(c), UNCHANGED history PROVE SavedInv'
  BY <1>2, <1>3 DEF Enter, memory, files, history
<1>4. CASE Initialize /\ UNCHANGED history
  <2>1. pc = "init" /\ pc' = "apply" /\ initialized' /\ UNCHANGED files
    BY <1>4 DEF Initialize, InitializeLocked, Goto
  <2>2. ~dirty' => list' = Recoverable
    BY <1>4, <2>1 DEF Initialize, InitializeLocked, CallInv, Recoverable
  <2>3. Recoverable' = Recoverable /\ Recoverable \in Versions
    BY <2>1, BlankVersion DEF files, Recoverable
  <2>4. ~dirty' => Visible' = Recoverable'
    BY <2>2, <2>3, SentinelAssumption DEF Visible, Versions
  <2>. QED
    BY <2>1, <2>4
<1>5. CASE LoadFails /\ failed' = failed \cup {"read"}
  <2>1. pc' = "apply"
    BY <1>5 DEF LoadFails, InitializeLocked, Goto
  <2>. QED
    BY <1>5, <2>1
<1>6. CASE (Get \/ GetFails \/ InitOrFlush) /\ UNCHANGED history
  BY <1>2, <1>6 DEF Get, GetFails, InitOrFlush, Return, memory, files, history
<1>7. CASE Set /\ UNCHANGED history
  BY <1>7 DEF Set, Return
<1>8. CASE SetFails /\ UNCHANGED history
  <2>1. Visible' = Visible
    BY <1>8, SentinelAssumption DEF SetFails, TypeOK, Calls, NoCall, Visible
  <2>. QED
    BY <1>8, <2>1 DEF SetFails, Return, files, Recoverable, history
<1>9. CASE Remove /\ UNCHANGED history
  BY <1>2, <1>9 DEF Remove, Return, files, history
<1>10. CASE (SaveNothing \/ SaveFails) /\ UNCHANGED history
  BY <1>2, <1>10 DEF SaveNothing, SaveFails, Return, memory, files, history
<1>11. CASE (OpenTmp \/ WriteTmp \/ Backup \/ WriteBak) /\ UNCHANGED history
  BY <1>11 DEF OpenTmp, WriteTmp, Backup, WriteBak, CallInv, Goto, memory, files, history
<1>12. CASE (Unlink \/ Rename \/ RenameRefused \/ Fallback) /\ UNCHANGED history
  BY <1>12 DEF Unlink, Rename, RenameRefused, Fallback, CallInv, Goto, Return, memory, files,
       history
<1>13. CASE (WriteMain \/ Cleanup) /\ UNCHANGED history
  BY <1>13 DEF WriteMain, Cleanup, CallInv, Goto, memory, files, history
<1>14. CASE (BackupFails /\ failed' = failed \cup {"backup"})
            \/ ((UnlinkFails \/ RenameFails \/ FallbackFails) /\ UNCHANGED failed)
  BY <1>14 DEF BackupFails, UnlinkFails, RenameFails, FallbackFails, CallInv, Goto, Return,
       memory, files
<1>15. CASE WriteCutShort /\ failed' = failed \cup {"write"}
  BY <1>15 DEF WriteCutShort, CallInv, Goto, memory
<1>16. CASE MarkClean /\ main \in Versions
  <2>1. main = list
    BY <1>16, FileAssumption DEF MarkClean, Damaged
  <2>2. Recoverable' = Visible'
    BY <1>1, <1>2, <1>16, <2>1 DEF MarkClean, CallInv, files, Recoverable
  <2>. QED
    BY <1>16, <2>2 DEF MarkClean, Return
<1>17. CASE MarkClean /\ main \notin Versions /\ UNCHANGED history
  <2>1. "write" \in failed
    BY <1>1, <1>17 DEF MarkClean, CallInv
  <2>. QED
    BY <1>17, <2>1 DEF MarkClean, Return, history
<1>18. CASE Crash \/ NullDereference
  BY <1>18 DEF Crash, NullDereference, ProcessEnds, Return
<1>19. CASE UNCHANGED vars
  BY <1>2, <1>19 DEF vars
<1>. QED
  BY <1>3, <1>4, <1>5, <1>6, <1>7, <1>8, <1>9, <1>10, <1>11, <1>12, <1>13, <1>14, <1>15, <1>16,
     <1>17, <1>18, <1>19 DEF Next, CallStep, SaveStep, Refusal

LEMMA SavedInvAlways == Spec => []SavedInv
<1>1. Init => SavedInv
  BY DEF Init, SavedInv, InSave
<1>2. TypeOK /\ CallInv /\ SavedInv /\ [Next]_vars => SavedInv'
  BY SavedInvStep
<1>. QED
  BY <1>1, <1>2, Typing, PTL DEF Spec

\* Whatever fails, and wherever the process dies: a store that is idle and not
\* dirty could crash and lose nothing, unless a load or a write of this process
\* has failed since its last complete save.
THEOREM CleanDurable == Spec => []CleanMeansDurable
<1>1. SavedInv => CleanMeansDurable
  BY DEF SavedInv, CleanMeansDurable
<1>. QED
  BY <1>1, SavedInvAlways, PTL

\* Whatever fails, the last complete file is given up only by a save whose
\* version stands in preferences.tmp, whole unless a write was cut short.
THEOREM OnlyForNext == Spec => GivenUpForNext
<1>1. ASSUME TypeOK, CallInv, SavedInv, [Next]_vars, SomeCompleteFile, ~SomeCompleteFile'
      PROVE  initialized' /\ (tmp' = list' \/ "write" \in failed')
  <2>. USE <1>1, FileAssumption
       DEF SomeCompleteFile, SavedInv, InSave, Whole, CutShort, SaveSteps, Damaged
  <2>0. ~UNCHANGED <<main, bak>>
    OBVIOUS
  <2>1. ~UNCHANGED files
    BY <2>0 DEF files
  <2>2. CASE (Backup \/ WriteBak \/ Unlink \/ Fallback \/ WriteMain) /\ UNCHANGED history
    BY <2>2 DEF Backup, WriteBak, Unlink, Fallback, WriteMain, CallInv, Goto, memory, history
  <2>3. CASE Rename /\ UNCHANGED history
    BY <2>3, CompleteList DEF Rename, CallInv, Goto, memory, history
  <2>4. CASE WriteCutShort /\ failed' = failed \cup {"write"}
    BY <2>4 DEF WriteCutShort, CallInv, Goto, memory
  <2>5. CASE OpenTmp \/ WriteTmp \/ Cleanup
    BY <2>0, <2>5 DEF OpenTmp, WriteTmp, Cleanup
  <2>6. CASE Crash
    BY <2>6 DEF Crash
  <2>7. CASE UNCHANGED vars
    BY <2>0, <2>7 DEF vars
  <2>. QED
    BY <2>1, <2>2, <2>3, <2>4, <2>5, <2>6, <2>7, FilesUntouched DEF Next, SaveStep
<1>. QED
  BY <1>1, Typing, SavedInvAlways, PTL DEF Spec, GivenUpForNext

-----------------------------------------------------------------------------
(* One failure is survived *)

\* A save that began with a complete preferences.bin and in which nothing has
\* failed: the old version stands until the new one has taken its place.
Undisturbed ==
  /\ pc \notin {"fallback", "write_main", "cleanup"}
  /\ pc \in {"unlink", "rename", "clean"} \/ main \in Versions
  /\ pc \in {"unlink", "rename"} => bak \in Versions
  /\ pc = "rename" => main = NoFile
  /\ pc = "clean" => SomeCompleteFile

\* With no failure yet everything goes its way.  After one, a complete version
\* stands where the loader looks or, inside a save, in preferences.tmp; only
\* when the failure was a short write of preferences.tmp itself, everything
\* else goes its way.
FailureInv ==
  /\ hits = 0 =>
       /\ Undisturbed
       /\ pc \in {"unlink", "clean"} => main \in Versions
       /\ pc \in InSave => tmp \in Versions
  /\ hits = 1 =>
       /\ pc \notin InSave => SomeCompleteFile
       /\ pc \in InSave => tmp \in Versions \/ Undisturbed
       /\ pc = "cleanup" => main \in Versions

LEMMA FailureInvStep ==
  ASSUME TypeOK, CallInv, FailureInv, [Next]_vars
  PROVE  FailureInv'
<1>. USE FileAssumption
     DEF FailureInv, Undisturbed, SomeCompleteFile, InSave, SaveSteps, Damaged
<1>0. hits \in 0 .. 2 /\ (Hit => hits' # 0 /\ (hits' = 1 => hits = 0))
  BY DEF TypeOK, MaxHits, Hit
<1>1. ASSUME NEW c \in Calls, Enter(c), UNCHANGED hits PROVE FailureInv'
  BY <1>1 DEF Enter, memory, files
<1>2. CASE (CallStep \/ Refusal \/ LoadFails) /\ UNCHANGED hits
  <2>1. /\ pc \in {"init", "apply", "save"} /\ pc' \in {"idle", "apply", "save"}
        /\ UNCHANGED <<main, bak>>
    BY <1>2 DEF CallStep, Refusal, LoadFails, Initialize, InitializeLocked, Get, GetFails, Set,
         SetFails, Remove, InitOrFlush, SaveFails, Goto, Return, files
  <2>. QED
    BY <1>2, <2>1
<1>3. CASE (SaveNothing \/ OpenTmp) /\ UNCHANGED hits
  BY <1>3 DEF SaveNothing, OpenTmp, Goto, Return, memory, files
<1>4. CASE WriteTmp /\ UNCHANGED hits
  <2>1. tmp' \in Versions
    BY <1>4, CompleteList DEF WriteTmp, CallInv, Goto
  <2>. QED
    BY <1>4, <2>1 DEF WriteTmp, Goto
<1>5. CASE (Backup \/ WriteBak) /\ UNCHANGED hits
  BY <1>5 DEF Backup, WriteBak, Goto, memory
<1>6. CASE (Unlink \/ Rename) /\ UNCHANGED hits
  BY <1>6 DEF Unlink, Rename, Goto, memory
<1>7. CASE (RenameRefused \/ Fallback \/ WriteMain \/ Cleanup) /\ UNCHANGED hits
  BY <1>7 DEF RenameRefused, Fallback, WriteMain, Cleanup, Goto, Return, memory, files
<1>8. CASE (BackupFails \/ UnlinkFails \/ RenameFails \/ FallbackFails) /\ Hit
  BY <1>0, <1>8 DEF BackupFails, UnlinkFails, RenameFails, FallbackFails, Goto, Return, memory,
       files
<1>9. CASE WriteCutShort /\ Hit
  BY <1>0, <1>9 DEF WriteCutShort, Goto, memory
<1>10. CASE MarkClean /\ (main \in Versions \/ UNCHANGED hits)
  BY <1>0, <1>10 DEF MarkClean, Return, files
<1>11. CASE Crash /\ Hit
  BY <1>0, <1>11 DEF Crash, ProcessEnds, Return
<1>12. CASE NullDereference /\ UNCHANGED hits
  BY <1>12 DEF NullDereference, ProcessEnds, Return, files
<1>13. CASE UNCHANGED vars
  BY <1>13 DEF vars
<1>. QED
  BY <1>1, <1>2, <1>3, <1>4, <1>5, <1>6, <1>7, <1>8, <1>9, <1>10, <1>11, <1>12, <1>13
     DEF Next, SaveStep, history

\* Whatever fails, short writes and renaming included: no single failure since
\* preferences.bin was last complete leaves the loader without a version.
THEOREM OneFailure == Spec => []OneFailureSurvived
<1>1. Init => FailureInv
  BY DEF Init, FailureInv, Undisturbed, MaxHits, InSave
<1>2. TypeOK /\ CallInv /\ FailureInv /\ [Next]_vars => FailureInv'
  BY FailureInvStep
<1>3. TypeOK /\ FailureInv => OneFailureSurvived
  BY DEF TypeOK, MaxHits, FailureInv, Undisturbed, OneFailureSurvived, SomeCompleteFile, InSave
<1>. QED
  BY <1>1, <1>2, <1>3, Typing, PTL DEF Spec

-----------------------------------------------------------------------------
(* Refinement of DurableStore *)

\* The process dies and memory runs out anywhere, files cannot be opened; but
\* they are removed, renamed and written as asked.
SafeFaults ==
  Faults \subseteq {"crash", "read", "get", "entry", "encode", "open_tmp", "backup"}

\* preferences.bin is complete or absent, and is removed only over a backup of
\* itself or after the backup copy has failed.
FilesInv ==
  /\ main \in Versions \cup {NoFile}
  /\ pc = "write_bak" => main \in Versions /\ bak = EmptyFile
  /\ pc = "unlink" => main = NoFile \/ bak = main \/ "backup" \in failed
  /\ pc = "rename" => main = NoFile
  /\ pc \notin {"fallback", "write_main", "cleanup"}
  /\ pc \in {"backup", "write_bak", "unlink", "rename"} => tmp = list

LEMMA FilesInvStep ==
  ASSUME SafeFaults, TypeOK, CallInv, FilesInv, [Next]_vars
  PROVE  FilesInv'
<1>. USE FileAssumption DEF FilesInv, SafeFaults, SaveSteps, Damaged
<1>1. NoNullValue => list \in Versions
  BY CompleteList
<1>2. ASSUME NEW c \in Calls, Enter(c) PROVE FilesInv'
  BY <1>2 DEF Enter, memory, files
<1>3. CASE CallStep \/ Refusal \/ LoadFails
  BY <1>3 DEF CallStep, Refusal, LoadFails, Initialize, InitializeLocked, Get, GetFails, Set,
       SetFails, Remove, InitOrFlush, SaveFails, Goto, Return, memory, files
<1>4. CASE SaveNothing \/ OpenTmp
  BY <1>4 DEF SaveNothing, OpenTmp, Goto, Return, memory, files
<1>5. CASE WriteTmp \/ WriteBak
  BY <1>5 DEF WriteTmp, WriteBak, Goto, memory
<1>6. CASE Backup
  BY <1>6 DEF Backup, memory
<1>7. CASE BackupFails /\ failed' = failed \cup {"backup"}
  BY <1>7 DEF BackupFails, Goto, memory, files
<1>8. CASE Unlink
  BY <1>8 DEF Unlink, Goto, memory
<1>9. CASE Rename
  BY <1>1, <1>9 DEF Rename, CallInv, Goto, memory
<1>10. CASE RenameRefused \/ Fallback \/ WriteMain \/ Cleanup
  BY <1>10 DEF RenameRefused, Fallback, WriteMain, Cleanup, Goto
<1>11. CASE WriteCutShort \/ UnlinkFails \/ RenameFails \/ FallbackFails
  BY <1>11 DEF WriteCutShort, UnlinkFails, RenameFails, FallbackFails
<1>12. CASE MarkClean
  BY <1>12 DEF MarkClean, Return, files
<1>13. CASE Crash \/ NullDereference
  BY <1>13 DEF Crash, NullDereference, ProcessEnds, Return, files
<1>14. CASE UNCHANGED vars
  BY <1>14 DEF vars
<1>. QED
  BY <1>2, <1>3, <1>4, <1>5, <1>6, <1>7, <1>8, <1>9, <1>10, <1>11, <1>12, <1>13, <1>14
     DEF Next, SaveStep

Spare == IF bak \in Versions THEN bak ELSE Blank

\* What a step of the code is to a caller and to the next process.
LEMMA StepRefines ==
  ASSUME SafeFaults, TypeOK, CallInv, FilesInv, FilesInv', [Next]_vars
  PROVE  [Promise!Next]_Promise!vars
<1>. USE DEF SafeFaults, SaveSteps
<1>1. Recoverable \in Versions
  BY BlankVersion DEF Recoverable
<1>2. NoNullValue => Visible = list /\ list \in Versions
  BY CompleteList, VisibleVersion
<1>3. ASSUME UNCHANGED <<initialized, Visible, main, bak, answer>>,
             pc = "rename" <=> pc' = "rename"
      PROVE  UNCHANGED Promise!vars
  BY <1>3 DEF Promise!vars, Recoverable
<1>4. ASSUME UNCHANGED list PROVE Visible' = Visible
  BY <1>4 DEF Visible
<1>5. ASSUME UNCHANGED <<main, bak>> PROVE Recoverable' = Recoverable /\ Spare' = Spare
  BY <1>5 DEF Recoverable, Spare
<1>6. Promise!Nothing = Blank
  BY DEF Promise!Nothing, Blank
<1>7. ASSUME NEW c \in Calls, Enter(c) PROVE UNCHANGED Promise!vars
  BY <1>3, <1>4, <1>7 DEF Enter, memory, files
<1>8. ASSUME InitializeLocked(TRUE, TRUE) \/ (LoadFails /\ "read" \in failed')
      PROVE  Promise!Start
  <2>1. /\ pc = "init" /\ pc' = "apply" /\ initialized' /\ ~initialized /\ list = Blank
        /\ UNCHANGED <<files, answer>>
    BY <1>8 DEF LoadFails, InitializeLocked, CallInv, Goto
  <2>2. \/ list' = Recoverable
        \/ "read" \in failed' /\ list' \in {Spare, Blank}
    BY <1>8, <2>1 DEF LoadFails, InitializeLocked, Recoverable, Spare
  <2>3. Visible' = list'
    <3>1. Spare \in Versions
      BY BlankVersion DEF Spare
    <3>2. list' \in Versions
      BY <1>1, <2>2, <3>1, BlankVersion
    <3>. QED
      BY <3>2, SentinelAssumption DEF Visible, Versions
  <2>4. Recoverable' = Recoverable /\ Spare' = Spare
    BY <1>5, <2>1 DEF files
  <2>. QED
    BY <1>6, <2>1, <2>2, <2>3, <2>4 DEF Promise!Start, Promise!Becomes, Spare
<1>9. CASE Get
  <2>1. /\ initialized /\ initialized' /\ pc # "rename" /\ pc' # "rename"
        /\ Visible' = Visible /\ Recoverable' = Recoverable /\ Spare' = Spare
    BY <1>4, <1>5, <1>9 DEF Get, Return, CallInv, memory, files
  <2>2. /\ call.key \in Keys /\ call.val \in Vals
        /\ answer' = Suppress[IF Visible[call.key] = Absent THEN call.val
                              ELSE Visible[call.key]]
    BY <1>9, SentinelAssumption DEF Get, Visible, TypeOK, Calls, NoCall
  <2>3. Promise!Read(call.key, call.val)
    BY <2>1, <2>2 DEF Promise!Read, Promise!Becomes, Spare
  <2>. QED
    BY <2>2, <2>3 DEF Promise!Next
<1>10. CASE GetFails
  <2>1. /\ initialized /\ initialized' /\ pc # "rename" /\ pc' # "rename"
        /\ Visible' = Visible /\ Recoverable' = Recoverable /\ Spare' = Spare
    BY <1>4, <1>5, <1>10 DEF GetFails, Return, CallInv, memory, files
  <2>2. Promise!Unanswered
    BY <1>10, <2>1 DEF GetFails, Promise!Unanswered, Promise!Becomes, Spare
  <2>. QED
    BY <2>2 DEF Promise!Next
<1>11. CASE Set
  <2>1. call.key \in Keys /\ call.val \in Vals
    BY <1>11 DEF Set, TypeOK, Calls, NoCall
  <2>2. Visible' = [Visible EXCEPT ![call.key] = Suppress[call.val]]
    <3>1. Suppress[call.val] \in Vals /\ Suppress[call.val] # NullValue
      BY <2>1, SentinelAssumption, SuppressAssumption
    <3>2. \A k \in Keys :
            Visible'[k] = IF k = call.key THEN Suppress[call.val] ELSE Visible[k]
      BY <1>11, <2>1, <3>1 DEF Set, TypeOK, Visible
    <3>. QED
      BY <2>1, <3>2 DEF Visible
  <2>3. Promise!Put(call.key, call.val)
    BY <1>5, <1>11, <2>2 DEF Promise!Put, Promise!Becomes, Set, CallInv, files, Spare
  <2>. QED
    BY <2>1, <2>3 DEF Promise!Next
<1>12. CASE SetFails
  <2>1. Visible' = Visible
    BY <1>12, SentinelAssumption DEF SetFails, TypeOK, Calls, NoCall, Visible
  <2>. QED
    BY <1>3, <1>12, <2>1 DEF SetFails, Return, files
<1>13. CASE Remove
  <2>1. call.key \in Keys
    BY <1>13 DEF Remove, TypeOK, Calls, NoCall
  <2>2. /\ initialized /\ initialized' /\ pc # "rename" /\ pc' # "rename"
        /\ answer' = answer /\ Recoverable' = Recoverable /\ Spare' = Spare
    BY <1>5, <1>13 DEF Remove, Return, CallInv, files
  <2>3. Visible' = [Visible EXCEPT ![call.key] = Absent]
    BY <1>13, <2>1, SentinelAssumption DEF Remove, TypeOK, Visible
  <2>4. Promise!Delete(call.key)
    BY <2>2, <2>3 DEF Promise!Delete, Promise!Becomes, Spare
  <2>. QED
    BY <2>1, <2>4 DEF Promise!Next
<1>14. CASE InitOrFlush \/ SaveNothing \/ SaveFails \/ OpenTmp \/ WriteTmp \/ MarkClean
            \/ BackupFails
  BY <1>3, <1>4, <1>14
     DEF InitOrFlush, SaveNothing, SaveFails, OpenTmp, WriteTmp, MarkClean, BackupFails,
         Goto, Return, memory, files
<1>15. CASE Backup \/ WriteBak
  <2>1. /\ UNCHANGED <<list, initialized, main, answer>>
        /\ initialized /\ pc # "rename" /\ pc' # "rename"
    BY <1>15 DEF Backup, WriteBak, CallInv, Goto, memory
  <2>2. CASE bak' = bak
    BY <1>3, <1>4, <2>1, <2>2
  <2>3. CASE bak' # bak
    <3>1. main \in Versions /\ bak' \in {EmptyFile, main}
      BY <1>15, <2>3, FileAssumption DEF Backup, WriteBak, FilesInv, Goto, Damaged
    <3>2. Recoverable' = Recoverable /\ Recoverable = main
      BY <2>1, <3>1 DEF Recoverable
    <3>3. Spare' \in {Blank, Recoverable}
      BY <3>1, <3>2, FileAssumption DEF Spare, Damaged
    <3>4. Promise!BackUp
      BY <1>4, <1>6, <2>1, <3>2, <3>3 DEF Promise!BackUp, Promise!Becomes, Spare
    <3>. QED
      BY <3>4 DEF Promise!Next
  <2>. QED
    BY <2>2, <2>3
<1>16. CASE Unlink
  <2>1. /\ UNCHANGED <<list, initialized, bak, answer>> /\ main' = NoFile
        /\ initialized /\ pc = "unlink" /\ pc' = "rename"
    BY <1>16 DEF Unlink, CallInv, Goto, memory
  <2>2. Spare' = Spare /\ Recoverable' = Spare
    BY <2>1, FileAssumption DEF Spare, Recoverable, Damaged
  <2>3. Spare = Recoverable \/ "backup" \in failed
    BY <2>1, FileAssumption DEF FilesInv, Spare, Recoverable, Damaged
  <2>4. Promise!Replace
    BY <1>4, <2>1, <2>2, <2>3 DEF Promise!Replace, Promise!Becomes, Spare
  <2>. QED
    BY <2>4 DEF Promise!Next
<1>17. CASE Rename
  <2>1. /\ NoNullValue /\ initialized /\ tmp = list /\ main' = tmp
        /\ pc = "rename" /\ pc' = "clean" /\ UNCHANGED <<list, initialized, bak, answer>>
    BY <1>17 DEF Rename, CallInv, FilesInv, Goto, memory
  <2>2. Recoverable' = Visible /\ Visible' = Visible /\ Spare' = Spare
    BY <1>2, <1>4, <2>1 DEF Recoverable, Spare
  <2>3. Promise!Persist
    BY <2>1, <2>2 DEF Promise!Persist, Promise!Becomes, Spare
  <2>. QED
    BY <2>3 DEF Promise!Next
<1>18. CASE RenameRefused \/ Fallback \/ WriteMain \/ Cleanup \/ RenameFails
            \/ WriteCutShort \/ UnlinkFails \/ FallbackFails
  BY <1>18, FileAssumption
     DEF RenameRefused, Fallback, WriteMain, Cleanup, RenameFails, WriteCutShort, UnlinkFails,
         FallbackFails, FilesInv, Goto
<1>19. CASE Crash \/ NullDereference
  <2>1. ~initialized' /\ answer' = Absent
    BY <1>19 DEF Crash, NullDereference, ProcessEnds
  <2>2. Recoverable' = Recoverable /\ Spare' = Spare
    BY <1>19, FileAssumption
       DEF Crash, NullDereference, files, FilesInv, Damaged, Recoverable, Spare
  <2>3. Promise!Die
    BY <2>1, <2>2 DEF Promise!Die, Spare
  <2>. QED
    BY <2>3 DEF Promise!Next
<1>20. CASE UNCHANGED vars
  BY <1>3, <1>4, <1>20 DEF vars
<1>. QED
  BY <1>7, <1>8, <1>9, <1>10, <1>11, <1>12, <1>13, <1>14, <1>15, <1>16, <1>17, <1>18, <1>19, <1>20
     DEF Next, CallStep, SaveStep, Refusal, Initialize, Promise!Next

LEMMA FilesInvAlways ==
  ASSUME SafeFaults
  PROVE  Spec => []FilesInv
<1>1. Init => FilesInv
  BY DEF Init, FilesInv
<1>2. TypeOK /\ CallInv /\ FilesInv /\ [Next]_vars => FilesInv'
  BY SafeFaults, FilesInvStep
<1>. QED
  BY <1>1, <1>2, Typing, PTL DEF Spec

\* When the process may die and memory may run out anywhere, the load and the
\* backup copy included, but files are removed, renamed and written as asked:
\* the store keeps the promise of DurableStore, atomic versions with reads of
\* the latest write, and durable ones but for a failed copy or load.
THEOREM Implements ==
  ASSUME SafeFaults
  PROVE  Spec => Durability
<1>1. Init => Promise!Init
  <2>. SUFFICES ASSUME Init PROVE Promise!Init
    OBVIOUS
  <2>1. Recoverable \in Versions /\ Spare \in Versions
    BY BlankVersion DEF Recoverable, Spare
  <2>. QED
    BY <2>1 DEF Init, Promise!Init, Promise!Versions, Versions, Spare
<1>2. TypeOK /\ CallInv /\ FilesInv /\ FilesInv' /\ [Next]_vars
        => [Promise!Next]_Promise!vars
  BY SafeFaults, StepRefines
<1>3. SafeFaults
  OBVIOUS
<1>. QED
  BY <1>1, <1>2, Typing, FilesInvAlways, PTL DEF Spec, Durability, Promise!Spec
=============================================================================
