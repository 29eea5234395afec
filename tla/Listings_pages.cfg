SPECIFICATION FairSpec
CONSTANTS
  Keys <- MCKeys
  PageSizes = {1, 2}
  MaxPlaces = 5
INVARIANTS
  TypeOK
  OffsetsShift
PROPERTIES
  ListingEnds
