SPECIFICATION SizeWalk
CONSTANTS
  SizeMax <- TwentyBits
  LargeRequests <- Large
INVARIANTS SizeTypeOK RoundsToFirstClass Reconstructible
