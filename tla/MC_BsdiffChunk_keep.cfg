CONSTANTS
  Bytes <- MCBytes
  MaxLen <- MCMaxLen
  CHUNK_SIZE <- MCChunkSize
  CompressedLens <- MCCompressedLens
  WholeCompressedLens <- MCWholeCompressedLens
  ID_BITS <- MCIdBits
  NoFile = NoFile

SPECIFICATION Spec

INVARIANT StreamHasEveryChunk

CHECK_DEADLOCK FALSE
