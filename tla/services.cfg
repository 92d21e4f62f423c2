SPECIFICATION ServicesSpec
CONSTANTS
  Names = {1, 2}
  Slots = {1}
  Base = 100
  Stub = 999
  MaxDataSeg = 4
  Layouts <- MCLayouts
  Handlers = {click, reward}
  KeyDown = KeyDown
  MaxNesting = 2
  Threads = {main, t1}
  Main = main
  Word = 256
  MaxReal = 3
  None = None
  Assets = {a1, a2}
  Sizes = {0, 1, 3}
  Counts = {1, 2}
  Moves <- MCMoves
  MaxRead = 3
  Missing = Missing
  MaxFile = 48
  MaxKey = 4
  KeyLens = {4, 5}
  ValLens = {0, 3, 10, 28, 60}
  MaxEntries = 3
  MaxTokens = 5
  Lines = {l1, l2}
  Nothing = Nothing
  FirstUseAlone = TRUE
  Data = {f1, f2}
  Entries = {e1, e2}
  Labels <- MCLabels
  Boxes = {b1, b2}
  Colors = {c1}
  Masks = {m1}
  Anchors <- MCAnchors
  Zones <- MCZones
  MaxWalk = 8
INVARIANTS
  RelocatedAsElf
  BootInOrder
  HooksHold
  StreamsSound
  RoundTrip
  
  LinesWhole
  OwnUnlessOvertaken
  OverlayHarmless
  CalendarExact
PROPERTY
  ForwardUnlessOvertaken
CHECK_DEADLOCK FALSE
