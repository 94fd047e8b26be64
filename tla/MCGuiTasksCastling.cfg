SPECIFICATION Spec
CONSTANTS
  SZ = 4
  MINES = 1
  MaxFlags = 1
  COLS = 4
  ROWS = 2
  MaxWindows = 2
  SONG_COUNT = 3
  Files <- Audible
  Duration <- TicksOf
  MaxBuilds = 2
  MaxTexts = 4
  Openings <- CastlingGames
  Clickable <- Clicked
  MaxMoves = 1
  MaxTimers = 2
  BOX = 2
  PUZZLES <- TwoPuzzles
  WIN_W = 10
  WIN_H = 11
  BIRD_R = 1
  PIPE_W = 3
  PIPE_GAP = 5
  GRAVITY = 1
  FLAP_VEL <- Flap
  PIPE_SPEED = 2
  BIRD_X = 4
  SPACING = 5
  Gaps <- GapStarts
  MaxScore = 2
  Paths = {"a", "m", "r"}
  Mounted = {"m", "r"}
  ReadOnly = {"r"}
  Texts = {"one", "two"}
  MaxOpened = 2
  SafePaths = {"d", "d/f", "d/h", "g"}
  Parent <- FolderOf
  Found <- Disks
  Tags <- Chained
  MaxTags = 3
  Apps = {"chess"}
  width = 3
  height = 2
  MaxElsewhere = 10
PROPERTIES
  FullCheckSafety
CHECK_DEADLOCK FALSE
