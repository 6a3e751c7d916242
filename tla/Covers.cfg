SPECIFICATION ImgSpec
CONSTANTS
  a1 = a1
  a2 = a2
  Admins <- TwoAdmins
  MaxPictures = 3
  MaxActs = 3
INVARIANT OneCover
SYMMETRY ImgSymmetry
CHECK_DEADLOCK FALSE
