CONSTANTS
  ImageIds <- MCImageIds
  RawLen <- MCRawLen
  LzgLens <- MCLzgLens
  StreamLens <- MCStreamLens
  HeaderLengthBits <- MCHeaderLengthBits
  Drivers <- MCEmptyDrivers

SPECIFICATION Spec

INVARIANT FullBuildReturns


\* curie_ota.py exits after its last call or on an exception.
CHECK_DEADLOCK FALSE
