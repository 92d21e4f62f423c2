--------------------------- MODULE ServicesProofs ---------------------------
(***************************************************************************)
(* Proofs about services of MCServices: relocation, the logger, the file   *)
(* calls, asset streams and overlays, for every value of their constants.  *)
(***************************************************************************)
EXTENDS MCServices, TLAPS

servicesVars ==
  <<part, linkVars, bootVars, hookVars, clockVars, assetVars, formatVars, hintVars, logVars,
    fileVars, drawVars, dateVars>>

-----------------------------------------------------------------------------
(* Relocation *)

\* What the two passes made of the addends so far.
LinkInv ==
  /\ rel \in [Slots -> Relocations] /\ defined \subseteq Names
  /\ \A s \in Slots : rel[s].kind \in {"GLOB_DAT", "JUMP_SLOT"} => rel[s].addend = 0
  /\ linked \in {"mapped", "relocated", "resolved", "stopped", "fatal"}
  /\ linked \in {"relocated", "resolved", "stopped"} => \A s \in Slots : rel[s].kind \in Kinds
  /\ cell = [s \in Slots |->
       IF linked \in {"mapped", "fatal"} THEN rel[s].addend
       ELSE IF linked = "relocated"      THEN Relocated(rel[s], rel[s].addend)
       ELSE Resolved(rel[s], Relocated(rel[s], rel[s].addend))]

\* The second pass adds to no word that the first one relocated.
LEMMA TwoPasses ==
  ASSUME NEW r \in Relocations, r.kind \in Kinds,
         r.kind \in {"GLOB_DAT", "JUMP_SLOT"} => r.addend = 0
  PROVE  Resolved(r, Relocated(r, r.addend)) = Elf(r)
<1>0. r.name \in Nat /\ r.addend \in Nat /\ Base \in Nat
  <2>1. r.name \in Names /\ r.addend \in {0, 8}
    BY DEF Relocations, Addends
  <2>2. r.name \in Nat
    BY <2>1, LinkAssumption
  <2>3. r.addend \in Nat
    BY <2>1
  <2> QED BY <2>1, <2>2, <2>3, LinkAssumption
<1> USE <1>0 DEF Kinds, Elf, Addend, AddendLost, Means, Known, Own, Port, Other
<1>1. CASE r.kind = "RELATIVE"
  BY <1>1 DEF Resolved, Relocated
<1>2. CASE r.kind # "RELATIVE" /\ r.name \in defined
  BY <1>2 DEF Resolved, Relocated
<1>3. CASE r.kind # "RELATIVE" /\ r.name \notin defined
  <2>1. Relocated(r, r.addend) = r.addend
    BY <1>3 DEF Relocated
  <2> QED BY <1>3, <2>1 DEF Resolved
<1> QED BY <1>1, <1>2, <1>3

LEMMA LinkInitInv == Init => LinkInv
BY DEF Init, LinkInv

LEMMA LinkStepInv == LinkInv /\ [Next]_linkVars => LinkInv'
<1> SUFFICES ASSUME LinkInv, [Next]_linkVars PROVE LinkInv'
  OBVIOUS
<1>1. CASE so_relocate
  BY <1>1 DEF so_relocate, LinkInv, Relocated, Own
<1>5. CASE UnknownType
  BY <1>5 DEF UnknownType, LinkInv, Relocated, Resolved, Linked, Own, Port, Other
<1>2. CASE so_resolve
  BY <1>2 DEF so_resolve, LinkInv, Relocated, Resolved, Linked, Own, Port, Other
<1>3. ASSUME NEW s \in Slots, CallThrough(s) PROVE LinkInv'
  BY <1>3 DEF CallThrough, LinkInv, Relocated, Resolved, Linked, Own, Port, Other
<1>4. CASE UNCHANGED linkVars
  BY <1>4 DEF linkVars, LinkInv, Relocated, Resolved, Linked, Own, Port, Other
<1> QED BY <1>1, <1>2, <1>3, <1>4, <1>5 DEF Next, Runs

\* Two passes over the same words leave each as the ELF ABI for ARM has it, but
\* for an imported ABS32 of the port's own, which loses its addend, and no library
\* with a relocation of another type is resolved, for libraries of any number of
\* symbols and relocations (so_util.c:325-360, 438-496).
THEOREM Relocates == ServicesSpec => []RelocatedAsElf
<1>1. ServicesInit => LinkInv
  BY LinkInitInv DEF ServicesInit
<1>2. LinkInv /\ [ServicesNext]_servicesVars => LinkInv'
  BY LinkStepInv DEF ServicesNext, Others, servicesVars
<1>3. LinkInv => RelocatedAsElf
  BY TwoPasses DEF LinkInv, RelocatedAsElf
<1> QED BY <1>1, <1>2, <1>3, PTL DEF ServicesSpec, servicesVars

-----------------------------------------------------------------------------
(* The logger *)

\* A line is in the buffers while its caller holds the mutex, which was made
\* before a second thread came to log.
LogInv ==
  /\ at \in [Threads -> {"idle", "create", "publish", "lock", "prefix", "format", "print",
                         "unlock"}]
  /\ logReady \in BOOLEAN
  /\ line \in [Threads -> Lines \cup {Nothing}]
  /\ printed \in [Threads -> Lines \cup {Nothing}]
  /\ ~logReady => \A t, u \in Threads : at[t] # "idle" /\ at[u] # "idle" => t = u
  /\ \A t \in Threads :
       /\ at[t] \in {"create", "publish"} => ~logReady
       /\ at[t] \notin {"idle", "create", "publish"} => logReady
       /\ at[t] \in {"prefix", "format", "print", "unlock"} => owner = t
       /\ at[t] = "format" => bufferA = line[t]
       /\ at[t] = "print" => bufferB = line[t]
       /\ printed[t] \in {line[t], Nothing}

\* The mutex is made by a first call that nobody else's overlaps, main's
\* (main.c:156).
LEMMA LogStepInv ==
  ASSUME FirstUseAlone, LogInv, [Log!Next]_logVars
  PROVE  LogInv'
<1> USE ServicesAssumption DEF LogInv, Log!Goto
<1>1. ASSUME NEW t \in Threads, NEW l \in Lines \cup {Nothing}, Log!LogPrint(t, l) PROVE LogInv'
  BY <1>1, FirstUseAlone DEF Log!LogPrint
<1>2. ASSUME NEW t \in Threads, Log!CreateMutex(t) PROVE LogInv'
  BY <1>2 DEF Log!CreateMutex
<1>9. ASSUME NEW t \in Threads, Log!CreateFails(t) PROVE LogInv'
  BY <1>9 DEF Log!CreateFails
<1>8. ASSUME NEW t \in Threads, Log!Publish(t) PROVE LogInv'
  BY <1>8 DEF Log!Publish
<1>3. ASSUME NEW t \in Threads, Log!Lock(t) PROVE LogInv'
  BY <1>3 DEF Log!Lock
<1>4. ASSUME NEW t \in Threads, Log!Prefix(t) \/ Log!Format(t) PROVE LogInv'
  BY <1>4 DEF Log!Prefix, Log!Format
<1>5. ASSUME NEW t \in Threads, Log!ConsolePrint(t) PROVE LogInv'
  BY <1>5 DEF Log!ConsolePrint
<1>6. ASSUME NEW t \in Threads, Log!UnknownType(t) \/ Log!Unlock(t) PROVE LogInv'
  BY <1>6 DEF Log!UnknownType, Log!Unlock
<1>7. CASE UNCHANGED logVars
  BY <1>7 DEF logVars
<1> QED BY <1>1, <1>2, <1>3, <1>4, <1>5, <1>6, <1>7, <1>8, <1>9 DEF Log!Next

\* What reaches the console for a caller is its own line, whoever logs meanwhile
\* (logger.c:33-82), once the mutex was made by a call alone.
THEOREM PrintsOwnLine ==
  ASSUME FirstUseAlone
  PROVE  ServicesSpec => []LinesWhole
<1>1. ServicesInit => LogInv
  BY DEF ServicesInit, Log!Init, LogInv
<1>2. LogInv /\ [ServicesNext]_servicesVars => LogInv'
  BY LogStepInv DEF ServicesNext, Others, servicesVars
<1>3. LogInv => LinesWhole
  BY DEF LogInv, LinesWhole, Log!LinesWhole
<1> QED BY <1>1, <1>2, <1>3, PTL DEF ServicesSpec, servicesVars

-----------------------------------------------------------------------------
(* File calls *)

\* What a call of this kind with this argument leaves in its static buffer.
Filled(op, asked) == IF op = "readdir" THEN asked ELSE Files!OnVita("ux0:/data/", asked)

BufferOf(op) == IF op = "readdir" THEN "dirent" ELSE op

\* A call that nobody of its kind overtook finds its buffer as it filled it.
InCall(t) ==
  /\ call[t].op \in {"fopen", "stat", "readdir"} /\ call[t].buffer = BufferOf(call[t].op)
  /\ ~filledSince[t] => static[call[t].buffer] = Filled(call[t].op, call[t].asked)

FileInv ==
  /\ DOMAIN static = Files!Buffers /\ static = [b \in Files!Buffers |-> static[b]]
  /\ call = [t \in Threads |-> call[t]]
  /\ filledSince \in [Threads -> BOOLEAN]
  /\ \A t \in Threads : call[t] # Files!NoCall => InCall(t)
  /\ got # Files!NoCall /\ ~got.overtaken => Files!Right(got.op, got.asked, got.was)

\* The path a buffer was filled with is a right answer.
LEMMA FilledRight ==
  ASSUME NEW op \in {"fopen", "stat", "readdir"}, NEW asked
  PROVE  Files!Right(op, asked, Filled(op, asked))
BY DEF Files!Right, Filled, Files!OnVita

\* A call in one step, with a right answer.
LEMMA AloneInv ==
  ASSUME FileInv, NEW t \in Threads, NEW op, NEW asked, NEW was,
         Files!Alone(t, op, asked, was), Files!Right(op, asked, was)
  PROVE  FileInv'
BY DEF Files!Alone, FileInv, InCall

LEMMA SharedInv ==
  ASSUME FileInv, NEW t \in Threads, NEW op \in {"fopen", "stat", "readdir"}, NEW asked,
         Files!Shared(t, op, asked, BufferOf(op), Filled(op, asked))
  PROVE  FileInv'
<1> DEFINE b == BufferOf(op)
<1> USE DEF FileInv
<1>1. /\ static' = [static EXCEPT ![b] = Filled(op, asked)]
      /\ call' = [call EXCEPT ![t] = [op |-> op, asked |-> asked, buffer |-> b]]
      /\ filledSince' = [u \in Threads |-> u # t /\ (filledSince[u] \/ call[u].op = op)]
      /\ got' = Files!NoCall
  BY DEF Files!Shared
<1>2. b \in Files!Buffers
  BY DEF BufferOf, Files!Buffers
<1>3. static'[b] = Filled(op, asked) /\ \A c \in Files!Buffers \ {b} : static'[c] = static[c]
  BY <1>1, <1>2
<1>4. call'[t] = [op |-> op, asked |-> asked, buffer |-> b] /\ filledSince'[t] = FALSE
      /\ \A u \in Threads \ {t} : call'[u] = call[u]
           /\ (filledSince'[u] <=> filledSince[u] \/ call[u].op = op)
  BY <1>1
<1>5. InCall(t)'
  BY <1>3, <1>4 DEF InCall
<1>6. ASSUME NEW u \in Threads \ {t}, call[u] # Files!NoCall PROVE InCall(u)'
  <2>1. InCall(u)
    BY <1>6
  <2>2. CASE call[u].op = op
    BY <1>4, <2>1, <2>2 DEF InCall
  <2>3. CASE call[u].op # op
    <3>1. call[u].buffer # b /\ call[u].buffer \in Files!Buffers
      BY <2>1, <2>3 DEF InCall, BufferOf, Files!Buffers
    <3> QED BY <1>3, <1>4, <2>1, <3>1 DEF InCall
  <2> QED BY <2>2, <2>3
<1> QED BY <1>1, <1>2, <1>4, <1>5, <1>6

LEMMA FinishInv ==
  ASSUME FileInv, NEW t \in Threads, Files!Finish(t)
  PROVE  FileInv'
<1> USE DEF FileInv
<1>1. InCall(t) /\ got' = [op |-> call[t].op, asked |-> call[t].asked,
                          was |-> static[call[t].buffer], overtaken |-> filledSince[t]]
  BY DEF Files!Finish
<1>2. ~filledSince[t] => Files!Right(got'.op, got'.asked, got'.was)
  BY <1>1, FilledRight DEF InCall
<1>3. \A u \in Threads : call'[u] # Files!NoCall => InCall(u)'
  BY DEF Files!Finish, InCall
<1> QED BY <1>1, <1>2, <1>3 DEF Files!Finish

LEMMA FileStepInv == FileInv /\ [Files!Next]_fileVars => FileInv'
<1> SUFFICES ASSUME FileInv, [Files!Next]_fileVars PROVE FileInv'
  OBVIOUS
<1>1. ASSUME NEW t \in Threads, NEW p \in Files!Paths, Files!Fopen(t, p) PROVE FileInv'
  <2>1. CASE p.place = "/proc/"
    <3>1. Files!Right("fopen", p, Files!OnVita("app0:/", p))
      BY DEF Files!Right, Files!OnVita
    <3>2. Files!Alone(t, "fopen", p, Files!OnVita("app0:/", p))
      BY <1>1, <2>1 DEF Files!Fopen
    <3> QED BY <3>1, <3>2, AloneInv
  <2>2. CASE p.place = "/data/data/"
    <3>1. Files!Shared(t, "fopen", p, "fopen", Files!OnVita("ux0:/data/", p))
      BY <1>1, <2>2 DEF Files!Fopen
    <3> QED BY <3>1, SharedInv DEF Filled, BufferOf
  <2>3. CASE p.place \notin {"/proc/", "/data/data/"}
    <3>1. Files!Right("fopen", p, p)
      BY <2>3 DEF Files!Right
    <3>2. Files!Alone(t, "fopen", p, p)
      BY <1>1, <2>3 DEF Files!Fopen
    <3> QED BY <3>1, <3>2, AloneInv
  <2> QED BY <2>1, <2>2, <2>3
<1>2. ASSUME NEW t \in Threads, NEW p \in Files!Paths, Files!Stat(t, p) PROVE FileInv'
  <2>1. CASE p.place = "/data/data/"
    <3>1. Files!Shared(t, "stat", p, "stat", Files!OnVita("ux0:/data/", p))
      BY <1>2, <2>1 DEF Files!Stat
    <3> QED BY <3>1, SharedInv DEF Filled, BufferOf
  <2>2. CASE p.place # "/data/data/"
    <3>1. Files!Right("stat", p, p)
      BY <2>2 DEF Files!Right
    <3>2. Files!Alone(t, "stat", p, p)
      BY <1>2, <2>2 DEF Files!Stat
    <3> QED BY <3>1, <3>2, AloneInv
  <2> QED BY <2>1, <2>2
<1>3. ASSUME NEW t \in Threads, NEW p \in Files!Paths, NEW flags \in Files!OpenFlags,
             Files!Opens(p, flags), Files!Open(t, p, flags)
      PROVE  FileInv'
  <2> DEFINE asked == [path |-> p, flags |-> flags]
             was == [path |-> IF p.place \in {"/proc/", "/dev/"} THEN Files!OnVita("app0:/", p) ELSE p,
                     flags |-> Files!FlagsToNewlib(flags),
                     mode |-> IF "creat" \in flags \/ {"tmpfile", "directory"} \subseteq flags
                              THEN "caller's" ELSE "0666"]
  <2>1. was.path.name = asked.path.name
    BY DEF Files!OnVita
  <2>2. was.flags = Files!FlagsToNewlib(flags) /\ asked.flags = flags
        /\ was.mode = IF "creat" \in flags \/ {"tmpfile", "directory"} \subseteq flags
                      THEN "caller's" ELSE "0666"
    OBVIOUS
  <2>3. Files!Alone(t, "open", asked, was)
    BY <1>3 DEF Files!Open
  <2> HIDE DEF asked, was
  <2>4. Files!Right("open", asked, was)
    BY <2>1, <2>2 DEF Files!Right, Files!FlagsToNewlib, Files!OpenFlags
  <2> QED BY <2>3, <2>4, AloneInv
<1>4. ASSUME NEW t \in Threads, NEW e \in Entries, Files!Readdir(t, e) PROVE FileInv'
  <2>1. Files!Shared(t, "readdir", e, "dirent", e)
    BY <1>4 DEF Files!Readdir
  <2> QED BY <2>1, SharedInv DEF Filled, BufferOf
<1>5. ASSUME NEW t \in Threads, NEW e \in Entries, Files!ReaddirR(t, e) PROVE FileInv'
  <2>1. Files!Right("readdir", e, e) /\ Files!Alone(t, "readdir", e, e)
    BY <1>5 DEF Files!Right, Files!ReaddirR
  <2> QED BY <2>1, AloneInv
<1>6. CASE UNCHANGED fileVars
  BY <1>6 DEF fileVars, FileInv, InCall
<1> QED BY <1>1, <1>2, <1>3, <1>4, <1>5, <1>6, FinishInv DEF Files!Next

\* What a call came to is what its caller asked for, unless another thread was in
\* the same call (io.c:33-98, 112-194, _struct_converters.c:27-56).
THEOREM FilesOwn == ServicesSpec => []OwnUnlessOvertaken
<1>1. ServicesInit => FileInv
  BY DEF ServicesInit, Files!Init, FileInv
<1>2. FileInv /\ [ServicesNext]_servicesVars => FileInv'
  BY FileStepInv DEF ServicesNext, Others, servicesVars
<1>3. FileInv => OwnUnlessOvertaken
  BY DEF FileInv, OwnUnlessOvertaken, Files!OwnUnlessOvertaken
<1> QED BY <1>1, <1>2, <1>3, PTL DEF ServicesSpec, servicesVars

-----------------------------------------------------------------------------
(* Asset streams *)

AssetInv ==
  /\ file \in [Assets -> Sizes \cup {Missing}]
  /\ handle \in [Assets -> {"none", "null", "held", "closed"}]
  /\ fileSize \in [Assets -> Sizes \cup {0}] /\ position \in [Assets -> Nat]
  /\ opened \in [Assets -> BOOLEAN] /\ closes \in [Assets -> 0..1]
  /\ eof \in [Assets -> BOOLEAN]
  /\ \A a \in Assets :
       /\ opened[a] /\ eof[a] => position[a] >= fileSize[a]
       /\ handle[a] = "none" => ~eof[a]
       /\ handle[a] \in {"none", "null", "closed"} => ~opened[a]
       /\ handle[a] = "null" => file[a] = Missing
       /\ handle[a] = "held" => file[a] # Missing /\ fileSize[a] = file[a]
       /\ closes[a] = IF handle[a] \in {"held", "closed"} /\ file[a] # Missing /\ ~opened[a]
                      THEN 1 ELSE 0
  /\ answer.asset \in Assets
  /\ answer.call = "read" => handle[answer.asset] # "none"
  /\ answer.call = "read" /\ answer.result = 0 /\ opened[answer.asset] =>
       position[answer.asset] >= fileSize[answer.asset]

LEMMA AssetStepInv == AssetInv /\ [Asset!Next]_assetVars => AssetInv'
<1> SUFFICES ASSUME AssetInv, [Asset!Next]_assetVars PROVE AssetInv'
  OBVIOUS
<1>0. Sizes \subseteq Nat /\ Counts \subseteq Nat \ {0} /\ Moves \subseteq Int /\ Missing \notin Nat
  BY ServicesAssumption DEF Asset!AssetAssumption
<1> USE <1>0 DEF AssetInv, Asset!Answer
<1>1. ASSUME NEW a \in Assets, Asset!Open(a) PROVE AssetInv'
  BY <1>1 DEF Asset!Open
<1>2. ASSUME NEW a \in Assets, NEW count \in Counts, Asset!Read(a, count) PROVE AssetInv'
  <2> DEFINE left == IF position[a] < file[a] THEN file[a] - position[a] ELSE 0
  <2>1. /\ handle[a] = "held" /\ opened[a]
        /\ UNCHANGED <<file, handle, fileSize, opened, closes>>
    BY <1>2 DEF Asset!Read
  <2>2. PICK ret \in 0 .. count, atEnd \in BOOLEAN :
          /\ ret <= left
          /\ atEnd => ret = left
          /\ position' = [position EXCEPT ![a] = @ + ret]
          /\ eof' = [eof EXCEPT ![a] = @ \/ atEnd]
          /\ answer' = [call |-> "read", asset |-> a,
                        result |-> IF ret > 0 THEN ret
                                   ELSE IF eof[a] \/ atEnd THEN 0 ELSE -1]
    BY <1>2 DEF Asset!Read
  <2>3. file[a] \in Nat /\ fileSize[a] = file[a] /\ position[a] \in Nat /\ count \in Nat \ {0}
    BY <2>1
  <2>4. ret \in Nat /\ position[a] + ret \in Nat
    BY <2>2, <2>3
  <2>5. eof'[a] => position[a] + ret >= file[a]
    BY <2>1, <2>2, <2>3
  <2>6. answer'.result = 0 => eof'[a]
    BY <2>1, <2>2, <2>3
  <2>7. eof' \in [Assets -> BOOLEAN] /\ \A b \in Assets \ {a} : eof'[b] = eof[b]
    BY <2>2
  <2>8. /\ position' \in [Assets -> Nat] /\ position'[a] = position[a] + ret
        /\ \A b \in Assets \ {a} : position'[b] = position[b]
    BY <2>2, <2>4
  <2>9. answer'.call = "read" /\ answer'.asset = a
    BY <2>2
  <2> HIDE DEF left
  <2> QED BY <2>1, <2>3, <2>5, <2>6, <2>7, <2>8, <2>9
<1>3. ASSUME NEW a \in Assets, NEW off \in Moves, NEW whence \in Asset!Whences,
             Asset!Seek(a, off, whence)
      PROVE  AssetInv'
  <2>1. /\ handle[a] = "held" /\ opened[a]
        /\ UNCHANGED <<file, handle, fileSize, bytesRead, opened, closes>>
    BY <1>3 DEF Asset!Seek
  <2>2. file[a] \in Nat /\ position[a] \in Nat /\ off \in Int
    BY <1>3, <2>1
  <2>3. PICK base \in Nat :
          /\ position' = [position EXCEPT ![a] = IF base + off >= 0 THEN base + off ELSE @]
          /\ eof' = [eof EXCEPT ![a] = @ /\ base + off < 0]
          /\ answer' = [call |-> "seek", asset |-> a,
                        result |-> IF base + off >= 0 THEN 0 ELSE -1]
    <3>1. CASE whence = "SET"
      BY <1>3, <2>2, <3>1 DEF Asset!Seek
    <3>2. CASE whence = "CUR"
      BY <1>3, <2>2, <3>2 DEF Asset!Seek
    <3>3. CASE whence = "END"
      BY <1>3, <2>2, <3>3 DEF Asset!Seek
    <3> QED BY <1>3, <3>1, <3>2, <3>3 DEF Asset!Whences
  <2>4. eof'[a] => eof[a] /\ base + off < 0
    BY <2>3
  <2>5. PICK moved \in Nat :
          /\ position' = [position EXCEPT ![a] = moved]
          /\ eof'[a] => eof[a] /\ moved = position[a]
    <3>1. CASE base + off >= 0
      <4>1. base + off \in Nat
        BY <2>2, <3>1
      <4>2. position' = [position EXCEPT ![a] = base + off] /\ ~eof'[a]
        BY <2>2, <2>3, <2>4, <3>1
      <4> QED BY <4>1, <4>2
    <3>2. CASE ~(base + off >= 0)
      <4>1. position' = [position EXCEPT ![a] = position[a]] /\ (eof'[a] => eof[a])
        BY <2>3, <2>4, <3>2
      <4> QED BY <2>2, <4>1
    <3> QED BY <3>1, <3>2
  <2>6. eof' \in [Assets -> BOOLEAN] /\ \A b \in Assets \ {a} : eof'[b] = eof[b]
    BY <2>3
  <2>7. /\ position' \in [Assets -> Nat] /\ position'[a] = moved
        /\ \A b \in Assets \ {a} : position'[b] = position[b]
    BY <2>5
  <2>8. answer'.call = "seek" /\ answer'.asset = a
    BY <2>3
  <2> QED BY <2>1, <2>5, <2>6, <2>7, <2>8
<1>4. ASSUME NEW a \in Assets, NEW c \in {"read", "seek"}, Asset!Refuse(a, c) PROVE AssetInv'
  BY <1>4 DEF Asset!Refuse
<1>5. ASSUME NEW a \in Assets, Asset!OpenFileDescriptor(a) PROVE AssetInv'
  BY <1>5 DEF Asset!OpenFileDescriptor
<1>6. ASSUME NEW a \in Assets, Asset!Close(a) PROVE AssetInv'
  BY <1>6 DEF Asset!Close
<1>7. CASE UNCHANGED assetVars
  BY <1>7 DEF assetVars
<1> QED BY <1>1, <1>2, <1>3, <1>4, <1>5, <1>6, <1>7 DEF Asset!Next

\* A stream is closed once, by whichever of AAsset_openFileDescriptor and
\* AAsset_close comes first; a read of nothing is at the end
\* (asset_manager.cpp:75-147, 190-211).
THEOREM StreamsClosedOnce == ServicesSpec => []StreamsSound
<1>1. ServicesInit => AssetInv
  BY ServicesAssumption DEF ServicesInit, Asset!Init, AssetInv, Asset!AssetAssumption
<1>2. AssetInv /\ [ServicesNext]_servicesVars => AssetInv'
  BY AssetStepInv DEF ServicesNext, Others, servicesVars
<1>3. AssetInv => StreamsSound
  BY DEF AssetInv, StreamsSound, Asset!StreamsSound, Asset!Length
<1> QED BY <1>1, <1>2, <1>3, PTL DEF ServicesSpec, servicesVars

-----------------------------------------------------------------------------
(* Overlays *)

LEMMA AfterIsBefore == ASSUME NEW state \in Draw!GameStates PROVE Draw!After(state) = state
BY DEF Draw!GameStates, Draw!After, Draw!Drawing

\* Wherever the list is scrolled to, the selection is among the rows shown.
LEMMA SelectionShown ==
  ASSUME NEW selection \in 0..(Len(Labels) - 1)
  PROVE  /\ Draw!First(selection) \in 0..(Len(Labels) - 10)
         /\ selection - Draw!First(selection) \in 0..9
<1>1. Len(Labels) \in Nat /\ Len(Labels) >= 10
  BY ServicesAssumption
<1> QED BY <1>1 DEF Draw!First, Draw!VisibleRows

LEMMA ItemsOf ==
  ASSUME NEW Items, NEW items \in Seq(Items)
  PROVE  \A i \in 1..Len(items) : items[i] \in Items
OBVIOUS

DrawInv == gl \in Draw!GameStates /\ OverlayHarmless

LEMMA MenuInv ==
  ASSUME DrawInv, NEW selection \in 0..(Len(Labels) - 1), Draw!DrawCheatMenu(selection)
  PROVE  DrawInv'
<1> DEFINE first == Draw!First(selection)
           panel == Draw!Rect(180, 68, 600, 410)
           cursor == selection - first
<1>1. Len(Labels) \in Nat /\ first \in 0..(Len(Labels) - 10) /\ cursor \in 0..9
      /\ selection \in 0..(Len(Labels) - 1) /\ selection = first + cursor
  BY SelectionShown, ServicesAssumption
<1>2. \A row \in 0..9 : first + row + 1 \in 1..Len(Labels) /\ Labels[first + row + 1] \in 0..66
  <2>1. \A row \in 0..9 : first + row + 1 \in 1..Len(Labels)
    BY <1>1
  <2>2. Labels \in Seq(0..66)
    BY ServicesAssumption
  <2>3. \A i \in 1..Len(Labels) : Labels[i] \in 0..66
    BY <2>2, ItemsOf
  <2> QED BY <2>1, <2>3
<1>3. \A row \in 0..9 : first + row = selection <=> row = cursor
  BY <1>1
<1> HIDE DEF first, cursor
<1>4. /\ frame'.kind = "menu" /\ frame'.at = selection
      /\ frame'.rows = [row \in 0..9 |-> first + row]
      /\ frame'.highlights = {row \in 0..9 : first + row = selection}
      /\ frame'.rects =
           {Draw!Rect(180, 68, 600, 410), Draw!Rect(188, 76, 584, 394),
            Draw!Text(324, 438, 4, 10), Draw!Text(306, 86, 3, 22)}
             \cup {Draw!Highlight(row) : row \in {r \in 0..9 : first + r = selection}}
             \cup {Draw!Text(238, Draw!RowY(row), 2, 1) : row \in 0..9}
             \cup {Draw!Text(254, Draw!RowY(row), 2, Labels[first + row + 1]) : row \in 0..9}
  BY DEF Draw!DrawCheatMenu, Draw!VisibleRows, first
<1>9. frame'.kind = "menu" /\ frame'.at = selection
  BY <1>4
<1>10. DOMAIN frame'.rows = 0..9 /\ \A row \in 0..9 : frame'.rows[row] = first + row
  BY <1>4
<1>11. frame'.highlights = {row \in 0..9 : row = cursor}
  BY <1>3, <1>4
<1>5. \A r \in frame'.rects : Draw!Inside(r, panel)
  <2> USE DEF Draw!Inside, Draw!Rect, Draw!Text, Draw!Highlight, Draw!RowY
  <2>1. \A r \in {Draw!Rect(180, 68, 600, 410), Draw!Rect(188, 76, 584, 394),
                  Draw!Text(324, 438, 4, 10), Draw!Text(306, 86, 3, 22)} : Draw!Inside(r, panel)
    OBVIOUS
  <2>2. \A row \in 0..9 : Draw!Inside(Draw!Highlight(row), panel)
    OBVIOUS
  <2>3. \A row \in 0..9 : Draw!Inside(Draw!Text(238, Draw!RowY(row), 2, 1), panel)
    OBVIOUS
  <2>4. \A row \in 0..9, len \in 0..66 :
          Draw!Inside(Draw!Text(254, Draw!RowY(row), 2, len), panel)
    OBVIOUS
  <2> HIDE DEF Draw!Inside, Draw!Rect, Draw!Text, Draw!Highlight, Draw!RowY, panel
  <2>5. \A row \in 0..9 : Labels[first + row + 1] \in 0..66
    BY <1>2
  <2>6. \A row \in 0..9 :
          Draw!Inside(Draw!Text(254, Draw!RowY(row), 2, Labels[first + row + 1]), panel)
    BY <2>4, <2>5
  <2> DEFINE shown == {row \in 0..9 : first + row = selection}
  <2>7. \A row \in shown : row \in 0..9
    OBVIOUS
  <2>8. \A r \in {Draw!Highlight(row) : row \in shown} : Draw!Inside(r, panel)
    BY <2>2, <2>7
  <2>9. \A r \in {Draw!Text(238, Draw!RowY(row), 2, 1) : row \in 0..9} : Draw!Inside(r, panel)
    BY <2>3
  <2>10. \A r \in {Draw!Text(254, Draw!RowY(row), 2, Labels[first + row + 1]) : row \in 0..9} :
           Draw!Inside(r, panel)
    BY <2>6
  <2> DEFINE fixed == {Draw!Rect(180, 68, 600, 410), Draw!Rect(188, 76, 584, 394),
                       Draw!Text(324, 438, 4, 10), Draw!Text(306, 86, 3, 22)}
             highlighted == {Draw!Highlight(row) : row \in shown}
             marks == {Draw!Text(238, Draw!RowY(row), 2, 1) : row \in 0..9}
             labels == {Draw!Text(254, Draw!RowY(row), 2, Labels[first + row + 1]) : row \in 0..9}
  <2>11. frame'.rects = fixed \cup highlighted \cup marks \cup labels
    BY <1>4
  <2> HIDE DEF shown, fixed, highlighted, marks, labels
  <2>12. /\ \A r \in fixed : Draw!Inside(r, panel)
         /\ \A r \in highlighted : Draw!Inside(r, panel)
    BY <2>1, <2>8 DEF fixed, highlighted
  <2>13. /\ \A r \in marks : Draw!Inside(r, panel)
         /\ \A r \in labels : Draw!Inside(r, panel)
    BY <2>9, <2>10 DEF marks, labels
  <2> QED BY <2>11, <2>12, <2>13
<1>6. /\ \A row \in DOMAIN frame'.rows : frame'.rows[row] \in 0..(Len(Labels) - 1)
      /\ \E row \in DOMAIN frame'.rows :
           frame'.rows[row] = frame'.at /\ frame'.highlights = {row}
  <2>1. cursor \in DOMAIN frame'.rows /\ frame'.rows[cursor] = selection
    BY <1>1, <1>10
  <2>2. frame'.highlights = {cursor}
    BY <1>1, <1>11
  <2>3. \A row \in 0..9 : first + row \in 0..(Len(Labels) - 1)
    BY <1>1
  <2>4. \A row \in DOMAIN frame'.rows : frame'.rows[row] \in 0..(Len(Labels) - 1)
    BY <1>10, <2>3
  <2>5. frame'.rows[cursor] = frame'.at
    BY <1>9, <2>1
  <2> QED BY <2>1, <2>2, <2>4, <2>5
<1>7. gl' = gl /\ games' = games /\ gl = games
  BY AfterIsBefore DEF Draw!DrawCheatMenu, DrawInv, OverlayHarmless, Draw!OverlayHarmless
<1>8. frame'.kind # "speed"
  BY <1>9
<1> QED BY <1>5, <1>6, <1>7, <1>8 DEF DrawInv, OverlayHarmless, Draw!OverlayHarmless

LEMMA SpeedInv ==
  ASSUME DrawInv, NEW speed \in {2, 4, 8, 16}, Draw!DrawSpeed(speed)
  PROVE  DrawInv'
<1>1. PICK glyphs \in {2, 3} :
        /\ frame'.kind = "speed"
        /\ frame'.rects = {Draw!Rect(952 - (8 + 16 * glyphs), 510, 8 + 16 * glyphs, 28)}
             \cup {Draw!Text(952 - (8 + 16 * glyphs) + 4 + 16 * glyph, 514, 4, 1) :
                     glyph \in 0..(glyphs - 1)}
  BY DEF Draw!DrawSpeed
<1> DEFINE panel == Draw!Rect(952 - (8 + 16 * glyphs), 510, 8 + 16 * glyphs, 28)
           screen == Draw!Rect(0, 0, 960, 544)
           glyphAt(glyph) == Draw!Text(952 - (8 + 16 * glyphs) + 4 + 16 * glyph, 514, 4, 1)
<1>2. /\ Draw!Inside(panel, screen) /\ panel.h = 28
      /\ \A glyph \in 0..(glyphs - 1) :
           Draw!Inside(glyphAt(glyph), screen) /\ Draw!Inside(glyphAt(glyph), panel)
  BY DEF Draw!Inside, Draw!Rect, Draw!Text
<1>3. frame'.rects = {panel} \cup {glyphAt(glyph) : glyph \in 0..(glyphs - 1)}
  BY <1>1
<1> HIDE DEF panel, screen, glyphAt
<1>4. /\ \A r \in frame'.rects : Draw!Inside(r, screen)
      /\ \A r \in frame'.rects : r.h = 28 \/ \E p \in frame'.rects : p.h = 28 /\ Draw!Inside(r, p)
  BY <1>2, <1>3
<1>5. gl' = gl /\ games' = games /\ gl = games
  BY AfterIsBefore DEF Draw!DrawSpeed, DrawInv, OverlayHarmless, Draw!OverlayHarmless
<1>6. frame'.kind # "menu"
  BY <1>1
<1> QED BY <1>1, <1>4, <1>5, <1>6 DEF DrawInv, OverlayHarmless, Draw!OverlayHarmless, screen

LEMMA DrawStepInv == DrawInv /\ [Draw!Next]_drawVars => DrawInv'
<1> SUFFICES ASSUME DrawInv, [Draw!Next]_drawVars PROVE DrawInv'
  OBVIOUS
<1>1. CASE Draw!GameDraws
  BY <1>1 DEF Draw!GameDraws, Draw!NoOverlay, DrawInv, OverlayHarmless, Draw!OverlayHarmless
<1>2. CASE UNCHANGED drawVars
  BY <1>2 DEF drawVars, DrawInv, OverlayHarmless, Draw!OverlayHarmless
<1> QED BY <1>1, <1>2, MenuInv, SpeedInv DEF Draw!Next

\* The overlays leave the game's GL state as it was and stay inside their panels and
\* the screen, and the menu shows its selected row, for any list of ten rows or more
\* whose texts have at most 66 characters (glutil.c:123-262).
THEOREM OverlaysHarmless == ServicesSpec => []OverlayHarmless
<1>1. ServicesInit => DrawInv
  BY DEF ServicesInit, Draw!Init, Draw!NoOverlay, DrawInv, OverlayHarmless, Draw!OverlayHarmless
<1>2. DrawInv /\ [ServicesNext]_servicesVars => DrawInv'
  BY DrawStepInv DEF ServicesNext, Others, servicesVars
<1>3. DrawInv => OverlayHarmless
  BY DEF DrawInv
<1> QED BY <1>1, <1>2, <1>3, PTL DEF ServicesSpec, servicesVars
=============================================================================
