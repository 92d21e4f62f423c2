------------------------------ MODULE SoLoader -------------------------------
(***************************************************************************)
(* The boot of the port: soloader_init_all and load_one_so of              *)
(* source/utils/init.c, so_file_load and _so_load of lib/so_util, the       *)
(* runtime patches of source/patch.c, and main up to its loop.  One thread  *)
(* does it all; what can go wrong is an allocation, a missing file or       *)
(* symbol, or a library laid out in a way the loader does not expect.       *)
(***************************************************************************)
EXTENDS Integers, FiniteSets, Sequences

CONSTANTS
  MaxDataSeg, \* MAX_DATA_SEG
  Layouts     \* the sequences of "text" and "data" segments a library may have

LoaderAssumption ==
  MaxDataSeg \in Nat /\ Layouts \subseteq Seq({"text", "data"}) \ {<<>>}

Modules == {"game", "lime"}
Order == <<"game", "lime">>
EntryPoints == {"hx_set_loader", "hx_cffi", "onRender", "JNI_OnLoad", "HXCPP_main"}

VARIABLES
  disk,     \* disk[m]: what the library file m is like
  step,     \* where the boot is
  turn,     \* the library being loaded, an index of Order
  segment,  \* the program header being mapped
  dataAddr, \* is data_addr set?
  nData,
  res,      \* what _so_load has in res: zero, a block's uid, negative
  blocks,   \* memory blocks allocated: <<module, segment or 0, kind>>
  list,     \* the modules from head to tail
  ready,    \* ready[m]: what was done to the module
  ran,      \* modules whose init_array ran
  patched,  \* so_patch ran
  services  \* what the runtime set up

loaderVars == <<disk, step, turn, segment, dataAddr, nData, res, blocks, list, ready,
                ran, patched, services>>

mapVars == <<segment, dataAddr, nData, res, blocks>>

Libraries ==
  [exists : BOOLEAN, elf : BOOLEAN, layout : Layouts, sections : BOOLEAN,
   helpers : BOOLEAN, exports : SUBSET EntryPoints]

Done == {"relocated", "helpers", "imports", "registered", "flushed"}

LoaderTypeOK ==
  /\ disk \in [Modules -> Libraries]
  /\ step \in {"kubridge", "find", "open", "header", "map", "sections", "relocate",
               "helpers", "resolve", "register", "flush", "initialize", "patch",
               "preload", "jni", "gl", "entry", "onload", "openal", "haxe", "loop",
               "fatal"}
  /\ turn \in 1..2 /\ segment \in Nat /\ dataAddr \in BOOLEAN
  /\ nData \in 0..MaxDataSeg /\ res \in {"zero", "uid", "negative"}
  /\ list \in Seq(Modules)
  /\ ready \in [Modules -> SUBSET Done] /\ ran \subseteq Modules
  /\ patched \in BOOLEAN /\ services \subseteq {"shacccg", "jni", "gl", "openal"}

Mod == Order[turn]
File == disk[Mod]

Listed(m) == \E i \in DOMAIN list : list[i] = m

\* so_symbol: the module has a symbol table once its sections were found.
Symbols(m) == IF Listed(m) THEN disk[m].exports ELSE {}

\* A library is in order, or is but for one thing.
Fine == [exists |-> TRUE, elf |-> TRUE, layout |-> <<"text", "data">>, sections |-> TRUE,
         helpers |-> TRUE, exports |-> EntryPoints]

Variants == {[Fine EXCEPT !.exists = FALSE], [Fine EXCEPT !.elf = FALSE],
             [Fine EXCEPT !.sections = FALSE], [Fine EXCEPT !.helpers = FALSE]}
              \cup {[Fine EXCEPT !.exports = @ \ {e}] : e \in EntryPoints}
              \cup {[Fine EXCEPT !.layout = l] : l \in Layouts}

Init ==
  /\ disk \in [Modules -> Variants \cup {Fine}]
  /\ step = "kubridge" /\ turn = 1 /\ list = <<>>
  /\ segment = 1 /\ dataAddr = FALSE /\ nData = 0 /\ res = "zero" /\ blocks = {}
  /\ ready = [m \in Modules |-> {}] /\ ran = {} /\ patched = FALSE /\ services = {}

Goto(s) == step' = s

\* fatal_error shows its dialog and exits the process.
Fatal == Goto("fatal")

-----------------------------------------------------------------------------
(* soloader_init_all and so_file_load *)

CheckKubridge ==
  /\ step = "kubridge" /\ (Goto("find") \/ Fatal)
  /\ UNCHANGED <<disk, turn, mapVars, list, ready, ran, patched, services>>

FindFile ==
  /\ step = "find" /\ IF File.exists THEN Goto("open") ELSE Fatal
  /\ UNCHANGED <<disk, turn, mapVars, list, ready, ran, patched, services>>

\* sceIoOpen, the block for the file, sceIoRead; the module is cleared first.
OpenFile ==
  /\ step = "open"
  /\ segment' = 1 /\ dataAddr' = FALSE /\ nData' = 0
  /\ \/ /\ Goto("header") /\ res' = "zero"
        /\ blocks' = blocks \cup {<<Mod, 0, "file">>}
     \/ Fatal /\ UNCHANGED <<res, blocks>>
  /\ UNCHANGED <<disk, turn, list, ready, ran, patched, services>>

(* The exits of _so_load: the labels err_free_so, err_free_text, err_free_data. *)

\* text_blockid holds the last block of code only.
Text ==
  LET code == {s \in DOMAIN File.layout : s <= segment /\ File.layout[s] = "text"}
  IN  {<<Mod, s, "text">> : s \in {s \in code : \A u \in code : u <= s}}
DataSegments == {<<Mod, s, "data">> : s \in DOMAIN File.layout}
FileBlock == {<<Mod, 0, "file">>}

\* _so_load returns r; load_one_so takes what is not negative for success.
Answer(r, freed) ==
  /\ res' = r /\ blocks' = blocks \ freed
  /\ IF r = "negative" THEN Fatal ELSE Goto("relocate")
  /\ UNCHANGED <<disk, turn, segment, dataAddr, nData, list, ready, ran, patched, services>>

Header ==
  /\ step = "header"
  /\ IF File.elf
     THEN Goto("map") /\ UNCHANGED <<disk, turn, mapVars, list, ready, ran, patched, services>>
     ELSE Answer("negative", FileBlock)

Mapping(kind) == step = "map" /\ segment \in DOMAIN File.layout /\ File.layout[segment] = kind

\* An executable segment gets an arena for patches under it, then its own block.
MapText ==
  /\ Mapping("text")
  /\ \/ /\ blocks' = blocks \cup {<<Mod, segment, "arena">>, <<Mod, segment, "text">>}
        /\ res' = "uid" /\ dataAddr' = TRUE /\ segment' = segment + 1
        /\ UNCHANGED <<disk, step, turn, nData, list, ready, ran, patched, services>>
     \/ Answer("negative", FileBlock)

MapTextFails ==
  /\ Mapping("text")
  /\ res' = "negative" /\ Fatal
  /\ blocks' = (blocks \ FileBlock) \cup {<<Mod, segment, "arena">>}
  /\ UNCHANGED <<disk, turn, segment, dataAddr, nData, list, ready, ran, patched, services>>

MapData ==
  /\ Mapping("data")
  /\ \/ /\ dataAddr /\ nData < MaxDataSeg
        /\ blocks' = blocks \cup {<<Mod, segment, "data">>}
        /\ res' = "uid" /\ nData' = nData + 1 /\ segment' = segment + 1
        /\ UNCHANGED <<disk, step, turn, dataAddr, list, ready, ran, patched, services>>
     \/ dataAddr /\ nData < MaxDataSeg /\ Answer("negative", Text \cup FileBlock)
     \/ ~dataAddr /\ Answer(res, FileBlock)
     \/ dataAddr /\ nData = MaxDataSeg /\ Answer(res, DataSegments \cup Text \cup FileBlock)

\* The section headers name what the linker needs; the module joins the list.
Sections ==
  /\ step = "sections"
  /\ IF File.sections
     THEN /\ Goto("relocate") /\ list' = Append(list, Mod) /\ res' = "zero"
          /\ blocks' = blocks \ FileBlock
          /\ UNCHANGED <<disk, turn, segment, dataAddr, nData, ready, ran, patched, services>>
     ELSE Answer("negative", DataSegments \cup Text \cup FileBlock)

Mapped ==
  /\ step = "map" /\ segment \notin DOMAIN File.layout /\ Goto("sections")
  /\ UNCHANGED <<disk, turn, mapVars, list, ready, ran, patched, services>>

-----------------------------------------------------------------------------
(* The rest of load_one_so *)

Has(what) == ready' = [ready EXCEPT ![Mod] = @ \cup what]

\* A library without its sections has no relocations: nothing to do, or to fail.
Relocate ==
  /\ step = "relocate"
  /\ \/ Goto("helpers") /\ Has({"relocated"})
     \/ Listed(Mod) /\ Fatal /\ UNCHANGED ready \* SoLink's UnknownType
  /\ UNCHANGED <<disk, turn, mapVars, list, ran, patched, services>>

\* text_size is set, but the text was freed again.
TextGone == dataAddr /\ Text \cap blocks = {}

\* so_patch_kuser_helpers reads the text, and flushes the caches when it patched
\* something.  Text that was freed may be gone, or still be there to be read.
PatchHelpers ==
  /\ step = "helpers"
  /\ \/ /\ Goto("resolve")
        /\ Has(IF File.helpers THEN {"helpers", "flushed"} ELSE {"helpers"})
     \/ TextGone /\ Fatal /\ UNCHANGED ready
  /\ UNCHANGED <<disk, turn, mapVars, list, ran, patched, services>>

Resolve ==
  /\ step = "resolve" /\ Has({"imports"})
  /\ Goto(IF Mod = "lime" THEN "register" ELSE "flush")
  /\ UNCHANGED <<disk, turn, mapVars, list, ran, patched, services>>

\* Registered after init_array, as a loader would do that registers once both run
RegisterLast ==
  /\ step = "register" /\ Goto("flush") /\ UNCHANGED ready
  /\ UNCHANGED <<disk, turn, mapVars, list, ran, patched, services>>

\* register_hxcpp_cffi_loader calls lime's hx_set_loader with the game's hx_cffi.
Register ==
  /\ step = "register"
  /\ IF "hx_set_loader" \in Symbols("lime") /\ "hx_cffi" \in Symbols("game")
     THEN Has({"registered"}) /\ Goto("flush")
     ELSE Fatal /\ UNCHANGED ready
  /\ UNCHANGED <<disk, turn, mapVars, list, ran, patched, services>>

FlushCaches ==
  /\ step = "flush" /\ Has({"flushed"}) /\ Goto("initialize")
  /\ UNCHANGED <<disk, turn, mapVars, list, ran, patched, services>>

\* so_initialize runs the module's init_array, if its sections were found.
Initialize ==
  /\ step = "initialize" /\ ran' = IF Listed(Mod) THEN ran \cup {Mod} ELSE ran
  /\ IF turn = 1 THEN Goto("find") /\ turn' = 2 ELSE Goto("patch") /\ UNCHANGED turn
  /\ UNCHANGED <<disk, mapVars, list, ready, patched, services>>

-----------------------------------------------------------------------------
(* After both: the end of soloader_init_all, and main *)

Patch ==
  /\ step = "patch" /\ patched' = TRUE /\ Goto("preload")
  /\ UNCHANGED <<disk, turn, mapVars, list, ready, ran, services>>

Serve(from, service, to) ==
  /\ step = from /\ services' = services \cup service /\ Goto(to)
  /\ UNCHANGED <<disk, turn, mapVars, list, ready, ran, patched>>

Preload == \/ Serve("preload", {"shacccg"}, "jni")
           \/ Serve("preload", {}, "fatal")
StartJni == Serve("jni", {"jni"}, "gl")
StartGl == Serve("gl", {"gl"}, "entry")
OpenAlVm == Serve("openal", {"openal"}, "haxe")

\* The entry points are resolved, and checked before the call that needs them.
Entry(from, needed, m, to) ==
  /\ step = from /\ Goto(IF needed \in Symbols(m) THEN to ELSE "fatal")
  /\ UNCHANGED <<disk, turn, mapVars, list, ready, ran, patched, services>>

ResolveEntry == Entry("entry", "onRender", "lime", "onload")
OnLoad == Entry("onload", "JNI_OnLoad", "lime", "openal")
HaxeMain == Entry("haxe", "HXCPP_main", "game", "loop")

\* The loop calls onPoll and onRender, the process only ends by fatal_error.
Runs == step \in {"loop", "fatal"} /\ UNCHANGED loaderVars

Next ==
  \/ CheckKubridge \/ FindFile \/ OpenFile \/ Header
  \/ MapText \/ MapTextFails \/ MapData \/ Mapped \/ Sections
  \/ Relocate \/ PatchHelpers \/ Resolve \/ Register \/ FlushCaches \/ Initialize
  \/ Patch \/ Preload \/ StartJni \/ StartGl \/ ResolveEntry \/ OnLoad \/ OpenAlVm
  \/ HaxeMain \/ Runs

Spec == Init /\ [][Next]_loaderVars

-----------------------------------------------------------------------------
IsMapped(m) ==
  \A s \in DOMAIN disk[m].layout : <<m, s, disk[m].layout[s]>> \in blocks

Needs(m) == IF m = "lime" THEN Done ELSE Done \ {"registered"}

\* No constructor of a library runs before all of the library is in memory,
\* known to the linker, relocated, resolved, flushed, and, for lime, told of the
\* game's CFFI resolver (init.c:53-58, 98-111); and the game starts after every
\* service it calls into and after so_patch, or not at all
\* (main.c:181-209), also when _so_load took a library it could not map for
\* loaded (so_util.c:180-184).
BootInOrder ==
  /\ \A m \in ran : Needs(m) \subseteq ready[m] /\ Listed(m) /\ IsMapped(m)
  /\ step \in {"onload", "openal", "haxe", "loop"} =>
       ran = Modules /\ patched /\ {"shacccg", "jni", "gl"} \subseteq services
  /\ step \in {"haxe", "loop"} => "openal" \in services /\ "JNI_OnLoad" \in Symbols("lime")
  /\ step = "loop" => "HXCPP_main" \in Symbols("game")

\* The runtime patches come before any init_array (patch.c:4-5: "applied after
\* the .so is relocated and resolved but before its init_array runs").
PatchedBeforeInit == ran # {} => patched
=============================================================================
