CONSTANTS
  Dir = {north, south}
  ExtraMax = 2
  StepMax = 3
  QMAX = 2
  ShopMax = 3
  None = None
  Opened <- Every
  north = north
  south = south
  Boards = 2
  MaxMessages = 2
  Spare = 0
  Builder = {"builder"}
  Leaks = 2
  Posters <- MCPosters
  Jobs <- MCJobs
  Phone = {"p"}
  Fixed = {"h", "k"}
  Decker = {"d"}
  Number <- MCNumber
  Short <- MCShort
SPECIFICATION MCSpec
INVARIANTS
  NoTrap
  CopyWhole
  BusyFlagged
  PaidOnce
  PostsSound
  RunsSound
  PhonesSound
