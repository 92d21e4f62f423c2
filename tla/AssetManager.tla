---------------------------- MODULE AssetManager ----------------------------
(***************************************************************************)
(* source/reimpl/asset_manager.cpp: Android's AAsset calls over stdio.     *)
(* Each asset is used by one thread (asset_manager.h:41), so calls are     *)
(* atomic; different assets interleave.  The stdio stream underneath is    *)
(* external.                                                               *)
(***************************************************************************)
EXTENDS Integers

CONSTANTS
  Assets,
  Sizes,   \* sizes files may have; a file may also be missing
  Counts,  \* how much one call of AAsset_read asks for
  Moves,   \* offsets the game passes to AAsset_seek, {} when it never seeks
  MaxRead, \* bound: bytes read from one asset in all, and positions sought
  Missing

AssetAssumption ==
  /\ Sizes \subseteq Nat /\ Counts \subseteq Nat \ {0} /\ Moves \subseteq Int
  /\ MaxRead \in Nat /\ \A s \in Sizes : s <= MaxRead
  /\ Missing \notin Nat

Whences == {"SET", "CUR", "END"}

VARIABLES
  file,       \* file[a]: the size of the file behind a, or Missing
  handle,     \* handle[a]: the AAsset the game holds
  fileSize, bytesRead, opened,  \* the fields of aAsset
  position, eof,  \* of the stdio stream: where it stands, its end-of-file mark
  closes,     \* how often the stream was closed
  answer      \* what the last AAsset_read or AAsset_seek returned

vars == <<file, handle, fileSize, bytesRead, opened, position, eof, closes, answer>>

TypeOK ==
  /\ file \in [Assets -> Sizes \cup {Missing}]
  /\ handle \in [Assets -> {"none", "null", "held", "closed"}]
  /\ fileSize \in [Assets -> Sizes \cup {0}]
  /\ bytesRead \in [Assets -> 0..MaxRead]
  /\ opened \in [Assets -> BOOLEAN]
  /\ position \in [Assets -> 0..MaxRead]
  /\ eof \in [Assets -> BOOLEAN]
  /\ closes \in [Assets -> 0..1]
  /\ answer \in [call : {"none", "read", "seek"}, asset : Assets, result : Int]

Init ==
  /\ file \in [Assets -> Sizes \cup {Missing}]
  /\ handle = [a \in Assets |-> "none"]
  /\ fileSize = [a \in Assets |-> 0]
  /\ bytesRead = [a \in Assets |-> 0]
  /\ opened = [a \in Assets |-> FALSE]
  /\ position = [a \in Assets |-> 0]
  /\ eof = [a \in Assets |-> FALSE]
  /\ closes = [a \in Assets |-> 0]
  /\ answer \in [call : {"none"}, asset : Assets, result : {0}]

Answer(call, a, result) == answer' = [call |-> call, asset |-> a, result |-> result]

\* AAssetManager_open: NULL when fopen fails
Open(a) ==
  /\ handle[a] = "none"
  /\ handle' = [handle EXCEPT ![a] = IF file[a] = Missing THEN "null" ELSE "held"]
  /\ opened' = [opened EXCEPT ![a] = file[a] # Missing]
  /\ fileSize' = [fileSize EXCEPT ![a] = IF file[a] = Missing THEN @ ELSE file[a]]
  /\ UNCHANGED <<file, bytesRead, position, eof, closes, answer>>

\* AAsset_read: what fread delivers is counted.  fread stops at the end of the
\* file, where it sets the stream's mark, or when the device fails it on the
\* way; nothing delivered means 0 under the mark and -1 without it.
Read(a, count) ==
  /\ handle[a] = "held" /\ opened[a]
  /\ LET left == IF position[a] < file[a] THEN file[a] - position[a] ELSE 0
     IN  \E ret \in 0 .. count, atEnd \in BOOLEAN :
           /\ ret <= left /\ bytesRead[a] + ret <= MaxRead
           /\ atEnd => ret = left /\ ret < count
           /\ bytesRead' = [bytesRead EXCEPT ![a] = @ + ret]
           /\ position' = [position EXCEPT ![a] = @ + ret]
           /\ eof' = [eof EXCEPT ![a] = @ \/ atEnd]
           /\ Answer("read", a, IF ret > 0 THEN ret ELSE IF eof[a] \/ atEnd THEN 0 ELSE -1)
  /\ UNCHANGED <<file, handle, fileSize, opened, closes>>

\* AAsset_seek returns fseek's result and leaves bytesRead alone; a seek that
\* succeeds takes the end-of-file mark away
Seek(a, offset, whence) ==
  /\ handle[a] = "held" /\ opened[a]
  /\ LET base == CASE whence = "SET" -> 0
                   [] whence = "CUR" -> position[a]
                   [] whence = "END" -> file[a]
         target == base + offset
     IN  /\ target <= MaxRead
         /\ position' = [position EXCEPT ![a] = IF target >= 0 THEN target ELSE @]
         /\ eof' = [eof EXCEPT ![a] = @ /\ target < 0]
         /\ Answer("seek", a, IF target >= 0 THEN 0 ELSE -1)
  /\ UNCHANGED <<file, handle, fileSize, bytesRead, opened, closes>>

\* AAsset_read and AAsset_seek without an asset, or after its descriptor was
\* handed out
Refuse(a, call) ==
  /\ handle[a] \in {"null", "held"} /\ ~opened[a]
  /\ Answer(call, a, -1)
  /\ UNCHANGED <<file, handle, fileSize, bytesRead, opened, position, eof, closes>>

OpenFileDescriptorStillOpened(a) ==
  /\ handle[a] = "held"
  /\ closes' = [closes EXCEPT ![a] = IF opened[a] THEN @ + 1 ELSE @]
  /\ UNCHANGED <<file, handle, fileSize, bytesRead, opened, position, eof, answer>>

\* AAsset_openFileDescriptor: the stream is closed, the game reads the
\* descriptor instead; asking twice is allowed
OpenFileDescriptor(a) ==
  /\ handle[a] = "held"
  /\ closes' = [closes EXCEPT ![a] = IF opened[a] THEN @ + 1 ELSE @]
  /\ opened' = [opened EXCEPT ![a] = FALSE]
  /\ UNCHANGED <<file, handle, fileSize, bytesRead, position, eof, answer>>

\* AAsset_close; a NULL asset is ignored
Close(a) ==
  /\ handle[a] \in {"held", "null"}
  /\ handle' = [handle EXCEPT ![a] = "closed"]
  /\ closes' = [closes EXCEPT ![a] = IF opened[a] THEN @ + 1 ELSE @]
  /\ opened' = [opened EXCEPT ![a] = FALSE]
  /\ UNCHANGED <<file, fileSize, bytesRead, position, eof, answer>>

\* AAsset_getLength and AAsset_getRemainingLength
Length(a) == fileSize[a]
RemainingLength(a) == IF opened[a] THEN fileSize[a] - bytesRead[a] ELSE -1

Next ==
  \E a \in Assets :
    \/ Open(a)
    \/ \E count \in Counts : Read(a, count)
    \/ \E offset \in Moves, whence \in Whences : Seek(a, offset, whence)
    \/ \E call \in {"read", "seek"} : Refuse(a, call)
    \/ OpenFileDescriptor(a)
    \/ Close(a)

Spec == Init /\ [][Next]_vars

-----------------------------------------------------------------------------
\* Every stream that was opened is closed once, by whichever of
\* AAsset_openFileDescriptor and AAsset_close comes first, and by nobody else; and
\* a read answers 0 only when nothing is left at the position the stream has
\* reached, seeks and failing reads included (asset_manager.cpp:75-147, 190-211;
\* asset_manager.h:105, "zero on EOF").
StreamsSound ==
  /\ \A a \in Assets :
       closes[a] = IF handle[a] \in {"held", "closed"} /\ file[a] # Missing /\ ~opened[a]
                   THEN 1 ELSE 0
  /\ answer.call = "read" /\ answer.result = 0 /\ opened[answer.asset] =>
       position[answer.asset] >= Length(answer.asset)
=============================================================================
