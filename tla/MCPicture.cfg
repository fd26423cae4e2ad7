SPECIFICATION PictureSpec
CONSTANTS
  e1 = e1
  e2 = e2
  i1 = i1
  i2 = i2
  shown = shown
  other = other
  flip = flip
  plain = plain
  NoId = none
  Nobody = nobody
  Ids <- MCIds
  Images <- MCImages
  Manners <- MCManners
  DefaultManner <- MCDefaultManner
  PreviewTicks = 1
  Rotations <- MCRotations
  Selections <- MCSelections
INVARIANTS
  PictureInv
  PictureSettles
PROPERTIES
  SlotsKeepPromise
