CONSTANTS
  ImageIds <- MCImageIds
  RawLen <- MCRawLen
  LzgLens <- MCLzgLens
  StreamLens <- MCLongStreamLens
  HeaderLengthBits <- MCHeaderLengthBits
  Drivers <- MCIncrementalDrivers

SPECIFICATION Spec

INVARIANT LayoutConsistent


\* curie_ota.py exits after its last call or on an exception.
CHECK_DEADLOCK FALSE
