CONSTANTS
  ImageIds <- MCImageIds
  RawLen <- MCRawLen
  LzgLens <- MCLzgLens
  StreamLens <- MCStreamLens
  HeaderLengthBits <- MCHeaderLengthBits
  Drivers <- MCDrivers

SPECIFICATION Spec

INVARIANT TypeOK
INVARIANT LayoutConsistent
INVARIANT PackageRoundTrip
INVARIANT PackageCheckHolds
INVARIANT DiffInputsMatch
INVARIANT OnlyUnchangedComponentsFail

\* curie_ota.py exits after its last call or on an exception.
CHECK_DEADLOCK FALSE
