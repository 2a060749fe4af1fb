SPECIFICATION Spec
CONSTANTS
  HeadSize = 1
  AttrSize = 2
  IvSize = 2
  TagSize = 1
  DecryptSize = 1
  FlashSize = 2
  Word = 16
  Packages <- MCPackages
INVARIANTS TypeOK VerdictIsReference ParseInv
PROPERTIES PiecesFollowLayout EveryCallConsumes
