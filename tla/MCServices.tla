------------------------------ MODULE MCServices ------------------------------
(* The services of the port that share no state with one another: a behaviour  *)
(* exercises one of them while the others stand still, and one run covers all.  *)
EXTENDS SoLink, Sequences

CONSTANTS MaxDataSeg, Layouts                                     \* SoLoader
CONSTANTS Handlers, KeyDown, MaxNesting                           \* CodeHooks
CONSTANTS Threads, Main, Word, MaxReal, None                      \* TimeScale
CONSTANTS Assets, Sizes, Counts, Moves, MaxRead, Missing          \* AssetManager
CONSTANTS MaxFile, MaxKey, KeyLens, ValLens, MaxEntries           \* PrefsFormat
CONSTANTS MaxTokens                                               \* GoldAdHint
CONSTANTS Lines, Nothing, FirstUseAlone                           \* Logger
CONSTANTS Data, Entries                                           \* FileShim
CONSTANTS Labels, Boxes, Colors, Masks                            \* Overlay
CONSTANTS Anchors, Zones, MaxWalk                                 \* Calendar

VARIABLES
  part, \* the service exercised
  disk, step, turn, segment, dataAddr, nData, res, blocks, list, ready, ran, patched, services,
  memory, icache, boot, cffi, object, disabled, found, inside, stack, bodies,
  process, baseReal, baseScaled, scale, sample, request, last, overtaken,
  file, handle, fileSize, bytesRead, opened, position, eof, closes, answer,
  prefs, phase, next, size, length, offset, loaded,
  original, text, pattern, from,
  logReady, owner, bufferA, bufferB, at, line, printed,
  static, call, filledSince, got,
  gl, games, frame,
  time, utc, local, zone, walked

Boot == INSTANCE SoLoader
Hooks == INSTANCE CodeHooks
Clock == INSTANCE TimeScale
Asset == INSTANCE AssetManager
Format == INSTANCE PrefsFormat
Hint == INSTANCE GoldAdHint
Log == INSTANCE Logger WITH ready <- logReady
Files == INSTANCE FileShim WITH overtaken <- filledSince
Draw == INSTANCE Overlay
Dates == INSTANCE Calendar

ASSUME ServicesAssumption ==
  /\ Boot!LoaderAssumption /\ Hooks!HooksAssumption
  /\ Clock!ClockAssumption /\ Asset!AssetAssumption /\ Format!FormatAssumption
  /\ Nothing \notin Threads
  /\ Labels \in Seq(0..66) /\ Len(Labels) >= 10
  /\ Dates!CalendarAssumption

bootVars == <<disk, step, turn, segment, dataAddr, nData, res, blocks, list, ready, ran,
              patched, services>>
hookVars == <<memory, icache, boot, cffi, object, disabled, found, inside, stack, bodies>>
clockVars == <<process, baseReal, baseScaled, scale, sample, request, last, overtaken>>
assetVars == <<file, handle, fileSize, bytesRead, opened, position, eof, closes, answer>>
formatVars == <<prefs, phase, next, size, length, offset, loaded>>
hintVars == <<original, text, pattern, from>>
logVars == <<logReady, owner, bufferA, bufferB, at, line, printed>>
fileVars == <<static, call, filledSince, got>>
drawVars == <<gl, games, frame>>
dateVars == <<time, utc, local, zone, walked>>


ServicesInit ==
  /\ part \in {"link", "boot", "hooks", "clock", "asset", "format", "hint", "log",
               "files", "draw", "dates"}
  /\ IF part = "link" THEN TRUE
     ELSE /\ defined = {} /\ exported = {} /\ table = {} /\ soname = TRUE /\ needed = TRUE
          /\ rel = [s \in Slots |-> [kind |-> "RELATIVE", name |-> 1, addend |-> 0]]
  /\ Init
  /\ IF part = "boot" THEN TRUE ELSE disk = [m \in Boot!Modules |-> Boot!Fine]
  /\ IF part = "hooks" THEN TRUE ELSE inside = Handlers
  /\ Boot!Init /\ Hooks!Init /\ Clock!Init
  /\ IF part = "asset" THEN TRUE ELSE file = [a \in Assets |-> Missing]
  /\ Asset!Init
  /\ answer.asset = CHOOSE a \in Assets : TRUE
  /\ IF part = "format" THEN TRUE ELSE prefs = <<>>
  /\ Format!Init
  /\ IF part = "hint" THEN TRUE ELSE original = <<>>
  /\ Hint!Init /\ Log!Init /\ Files!Init
  /\ Draw!Init
  /\ gl.scissor = CHOOSE b \in Boxes : TRUE
  /\ IF part = "dates" THEN Dates!Init ELSE Dates!Init /\ zone = 0 /\ time = 724

Others(p) ==
  /\ UNCHANGED part
  /\ IF p = "link" THEN TRUE ELSE UNCHANGED linkVars
  /\ IF p = "boot" THEN TRUE ELSE UNCHANGED bootVars
  /\ IF p = "hooks" THEN TRUE ELSE UNCHANGED hookVars
  /\ IF p = "clock" THEN TRUE ELSE UNCHANGED clockVars
  /\ IF p = "asset" THEN TRUE ELSE UNCHANGED assetVars
  /\ IF p = "format" THEN TRUE ELSE UNCHANGED formatVars
  /\ IF p = "hint" THEN TRUE ELSE UNCHANGED hintVars
  /\ IF p = "log" THEN TRUE ELSE UNCHANGED logVars
  /\ IF p = "files" THEN TRUE ELSE UNCHANGED fileVars
  /\ IF p = "draw" THEN TRUE ELSE UNCHANGED drawVars
  /\ IF p = "dates" THEN TRUE ELSE UNCHANGED dateVars

ServicesNext ==
  \/ part = "link" /\ Next /\ Others("link")
  \/ part = "boot" /\ Boot!Next /\ Others("boot")
  \/ part = "hooks" /\ Hooks!Next /\ Others("hooks")
  \/ part = "clock" /\ Clock!Next /\ Others("clock")
  \/ part = "asset" /\ Asset!Next /\ Others("asset")
  \/ part = "format" /\ Format!Next /\ Others("format")
  \/ part = "hint" /\ Hint!Next /\ Others("hint")
  \/ part = "log" /\ Log!Next /\ Others("log")
  \/ part = "files" /\ Files!Next /\ Others("files")
  \/ part = "draw" /\ Draw!Next /\ Others("draw")
  \/ part = "dates" /\ Dates!Next /\ Others("dates")

ServicesSpec ==
  ServicesInit /\ [][ServicesNext]_<<part, linkVars, bootVars, hookVars, clockVars, assetVars,
    formatVars, hintVars, logVars, fileVars, drawVars, dateVars>>

-----------------------------------------------------------------------------
\* Values of the constants
MCLayouts ==
  {<<"text", "data">>, <<"text", "data", "data", "data", "data">>,
   <<"data", "text">>, <<"text", "data", "data", "data", "data", "data">>}
MCMoves == {-1, 0, 1}
MCZones == {-1, 0, 1}

\* The rows of the menu, with ON and OFF as they are longest
MCLabels == <<8, 8, 9, 8, 12, 10, 12, 12, 15, 11, 10, 10, 19, 20, 16, 15, 15, 14, 15, 16, 12, 5>>

Date(day, year, mon, mday, wday, yday) ==
  [day |-> day, year |-> year, mon |-> mon, mday |-> mday, wday |-> wday, yday |-> yday]

\* Two days before the turns of years and months where calendars go wrong: 1900
\* and its February, 2^31 seconds before 1970, 1970, 1971, 2008, 2038, 2^31 seconds
\* after, 2100, its February, 2101, 2401 and 2402
MCAnchors ==
  {Date(-25570, -1, 11, 29, 5, 362), Date(-25511, 0, 1, 26, 1, 56),
   Date(-24858, 1, 11, 11, 3, 344), Date(-3, 69, 11, 29, 1, 362), Date(362, 70, 11, 29, 2, 362),
   Date(13876, 107, 11, 29, 6, 362), Date(24834, 137, 11, 29, 2, 362),
   Date(24853, 138, 0, 17, 0, 16), Date(47479, 199, 11, 29, 2, 362),
   Date(47538, 200, 1, 26, 5, 56), Date(47844, 200, 11, 29, 3, 362),
   Date(157417, 500, 11, 29, 5, 363), Date(157782, 501, 11, 29, 6, 362)}

-----------------------------------------------------------------------------
\* The boot does everything in its order or stops (init.c:59-171, main.c:154-215).
BootInOrder == Boot!BootInOrder

\* The key hook is there between events and leads to the game (so_util.h:68-75).
HooksHold == Hooks!HooksHold

\* The game's clock does not run backwards (sys.c:46-89).
ForwardUnlessOvertaken == Clock!ForwardUnlessOvertaken

\* Asset streams are closed once and read to their end (asset_manager.cpp:75-211).
StreamsSound == Asset!StreamsSound

\* Whole preference files within the limits load, torn ones do not (preferences.c:94-156).
RoundTrip == Format!RoundTrip


\* A logged line is its caller's (logger.c:33-82).
LinesWhole == Log!LinesWhole

\* A file call reaches what its caller asked for (io.c:33-194).
OwnUnlessOvertaken == Files!OwnUnlessOvertaken

\* Overlays leave the game's drawing alone (glutil.c:123-262).
OverlayHarmless == Draw!OverlayHarmless

\* The calendar is right beyond 32 bits (time64.c:196-735).
CalendarExact == Dates!CalendarExact
=============================================================================
