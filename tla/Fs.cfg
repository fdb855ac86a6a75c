CONSTANTS
  Names = {a, b}
  LongNames = {}
  NoName = NoName
  StaleNames = {NoName}
  MaxDepth = 2
  Perms = {1}
  Times = {1}
  Data = {1, 2}
  MaxLen = 1
  DiskSize = 8
  MapBits = 8
  StatBits = 8
  BlockSize = 1
  NumPtrs = 1
  NumDirents = 2
  Ops = {"create", "mkdir", "unlink", "rename"}
  APerms = {p1, p2}
  ATimes = {t1, t2}
SPECIFICATION FsSpec
SYMMETRY Interchangeable
CHECK_DEADLOCK FALSE
INVARIANTS Consistent AnswersRight KilledImage
 
