CONSTANTS
  ImageIds <- MCImageIds
  RawLen <- MCRawLen
  LzgLens <- MCLzgLens
  StreamLens <- MCStreamLens
  HeaderLengthBits <- MCHeaderLengthBits
  Drivers <- MCTwiceDrivers

SPECIFICATION Spec

INVARIANT PackageIdempotent


\* curie_ota.py exits after its last call or on an exception.
CHECK_DEADLOCK FALSE
