CONSTANTS
  Bytes <- MCBytes
  MaxLen <- MCMaxLen
  CHUNK_SIZE <- MCChunkSize
  CompressedLens <- MCCompressedLens
  WholeCompressedLens <- MCWholeCompressedLens
  ID_BITS <- MCIdBits
  NoFile = NoFile

SPECIFICATION Spec

INVARIANT TypeOK
PROPERTY ImplementsChunkEncoder
INVARIANT ManifestMatchesStream
 

\* diff() returns or raises: the encoder stops in "done" or "failed".
CHECK_DEADLOCK FALSE
