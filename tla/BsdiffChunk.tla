---------------------------- MODULE BsdiffChunk ----------------------------
(***************************************************************************)
(* The chunked differential encoder, class BsdiffChunk of                  *)
(* src/tools/scripts/build_utils/bsdiff_chunk.py, one call of diff():      *)
(*                                                                         *)
(*   Start     the checks and the chunking before the pool (lines 209-258) *)
(*   DiffChunk one pool worker running _diff_chunk and _process_chunk on   *)
(*             one chunk pair, writing its temp file (lines 98-201)        *)
(*   FailChunk the LZG or minibsdiff adapter failing in a worker, which    *)
(*             makes pool.map raise (lines 146-158, 189-192, 260)          *)
(*   Assemble  pool.map returning, the sequential concatenation of the     *)
(*             temp files, and the manifest (lines 260-337)                *)
(*                                                                         *)
(* Images are sequences over a small set of byte values.  The LZG and      *)
(* bsdiff primitives are external: their outputs are records naming what   *)
(* they encode, and their lengths are chosen from small sets.  CRC fields  *)
(* are deterministic functions of the chunk bytes and are left out; the    *)
(* header keeps the chunk lengths and the chunk id with its 16-bit width.  *)
(***************************************************************************)
EXTENDS Integers, Sequences, SequencesExt, FiniteSets

CONSTANTS
  Bytes,               \* the byte values images are made of
  MaxLen,              \* the longest input image, in bytes
  CHUNK_SIZE,          \* BsdiffChunk.chunk_size
  CompressedLens,      \* lengths LZG().compress may return for a chunk or a patch
  WholeCompressedLens, \* lengths LZG().compress may return for the whole to-file
  ID_BITS,             \* width of ChunkHeader.id (c_int16)
  NoFile               \* a model value: a file diff() has not written

ASSUME CHUNK_SIZE \in Nat \ {0}
ASSUME MaxLen \in Nat
ASSUME CompressedLens \subseteq Nat \ {0}
ASSUME WholeCompressedLens \subseteq Nat \ {0}
ASSUME ID_BITS \in Nat \ {0}

CHUNK_HEADER_SIZE == 32
CHUNK_TYPE_KEEP == 1
CHUNK_TYPE_COMPRESSED == 2
CHUNK_TYPE_COMPRESSED_PATCH == 3

\* Sentinels: a result slot pool.map has not filled, a job whose worker
\* raised.
NoResult == [none |-> "result"]
Raised == [none |-> "raised"]

\* Every image the files from_file and to_file may hold, the empty one included.
Images == UNION {[1..n -> Bytes] : n \in 0..MaxLen}

VARIABLES
  fromFile,   \* contents of from_file
  toFile,     \* contents of to_file
  phase,      \* "start", "pool", "done" or "failed"
  error,      \* the exception diff() raised, or "none"
  jobs,       \* zip(oss, tss, xxx): job i pairs chunk id i-1 of each file
  results,    \* pool.map's result list, filled by the workers
  completed,  \* ids in the order the workers finished them
  tmp,        \* the per-chunk temp files, indexed like jobs
  outFile,    \* out_file: the sequence of chunk records written to it
  manifest,   \* patch_information as written to log_file
  usePatch    \* the use_patch value diff() returns

vars == <<fromFile, toFile, phase, error, jobs, results, completed, tmp,
          outFile, manifest, usePatch>>

-----------------------------------------------------------------------------
(* Chunking and the chunk header                                           *)

\* _chunk: consecutive slices of CHUNK_SIZE bytes, the last one shorter.
RECURSIVE Chunk(_)
Chunk(s) ==
  IF s = <<>> THEN <<>>
  ELSE <<SubSeq(s, 1, IF Len(s) < CHUNK_SIZE THEN Len(s) ELSE CHUNK_SIZE)>>
       \o Chunk(SubSeq(s, CHUNK_SIZE + 1, Len(s)))

\* from_list[x] / to_list[x], or the empty list on IndexError.
ChunkAt(list, x) == IF x < Len(list) THEN list[x + 1] ELSE <<>>

\* An integer stored in a signed c_int field of ID_BITS bits.
SignedField(v) ==
  LET m == 2 ^ ID_BITS
      r == v % m
  IN IF r >= m \div 2 THEN r - m ELSE r

\* bsdiff and LZG outputs: what they encode, and their length.  LZG input
\* is either a to-chunk's own bytes or a bsdiff patch from o to t.
ChunkBytes(t) == [kind |-> "bytes", old |-> <<>>, new |-> t]
Patch(o, t) == [kind |-> "bsdiff", old |-> o, new |-> t]
Compressed(data, n) == [kind |-> "lzg", of |-> data, len |-> n]
NoPayload == [kind |-> "none", of |-> ChunkBytes(<<>>), len |-> 0]

-----------------------------------------------------------------------------
(* diff(), up to pool.map                                                  *)

Init ==
  /\ fromFile \in Images
  /\ toFile \in Images
  /\ phase = "start"
  /\ error = "none"
  /\ jobs = <<>>
  /\ results = <<>>
  /\ completed = <<>>
  /\ tmp = <<>>
  /\ outFile = NoFile
  /\ manifest = NoFile
  /\ usePatch = FALSE

\* mmap refuses an empty file (ValueError, before the length assertions
\* can fail), the hash assertion refuses equal inputs; then the job list of one entry per to-chunk.
Start ==
  /\ phase = "start"
  /\ IF fromFile = <<>> \/ toFile = <<>> \/ fromFile = toFile
       THEN /\ phase' = "failed"
            /\ error' = IF fromFile = <<>> \/ toFile = <<>> THEN "ValueError"
                        ELSE "AssertionError"
            /\ UNCHANGED <<jobs, results, tmp>>
       ELSE LET fromList == Chunk(fromFile)
                toList == Chunk(toFile)
            IN /\ jobs' = [i \in 1..Len(toList) |->
                             [o |-> ChunkAt(fromList, i - 1),
                              t |-> ChunkAt(toList, i - 1),
                              x |-> i - 1]]
               /\ results' = [i \in 1..Len(toList) |-> NoResult]
               /\ tmp' = [i \in 1..Len(toList) |-> NoFile]
               /\ phase' = "pool"
               /\ UNCHANGED error
  /\ UNCHANGED <<fromFile, toFile, completed, outFile, manifest, usePatch>>

\* Bug variant of ProcessChunk: size_output without the chunk header
\* (the "chunk_len += CHUNK_HEADER_SIZE" of line 120 dropped).
ProcessChunkNoHeaderLen(i, o, t, payload, chunkType) ==
  LET chunkLen == IF chunkType > CHUNK_TYPE_KEEP THEN payload.len ELSE 0
      hdr == [type |-> chunkType, id |-> SignedField(i - 1), size |-> chunkLen,
              from_len |-> Len(o), to_len |-> Len(t)]
  IN /\ tmp' = [tmp EXCEPT ![i] =
                  [hdr |-> hdr,
                   payload |-> IF chunkType > CHUNK_TYPE_KEEP THEN payload
                                                           ELSE NoPayload]]
     /\ results' = [results EXCEPT ![i] =
                      [id |-> i - 1, type |-> chunkType, name |-> i,
                       size_output |-> chunkLen, size_input |-> Len(t)]]

\* _process_chunk: the temp file (header, then payload unless KEEP) and the
\* chunk's manifest record.
ProcessChunk(i, o, t, payload, chunkType) ==
  LET chunkLen == IF chunkType > CHUNK_TYPE_KEEP THEN payload.len ELSE 0
      hdr == [type |-> chunkType, id |-> SignedField(i - 1), size |-> chunkLen,
              from_len |-> Len(o), to_len |-> Len(t)]
  IN /\ tmp' = [tmp EXCEPT ![i] =
                  [hdr |-> hdr,
                   payload |-> IF chunkType > CHUNK_TYPE_KEEP THEN payload
                                                           ELSE NoPayload]]
     /\ results' = [results EXCEPT ![i] =
                      [id |-> i - 1, type |-> chunkType, name |-> i,
                       size_output |-> chunkLen + CHUNK_HEADER_SIZE,
                       size_input |-> Len(t)]]

\* _diff_chunk on job i: KEEP when the chunks are equal, otherwise the
\* smaller of the compressed chunk and the compressed patch, ties going to
\* the compressed chunk.
DiffChunk(i) ==
  /\ phase = "pool"
  /\ results[i] = NoResult
  /\ LET o == jobs[i].o
         t == jobs[i].t
     IN IF o = t
          THEN ProcessChunk(i, o, t, NoPayload, CHUNK_TYPE_KEEP)
          ELSE \E ct, cp \in CompressedLens :
                 IF ct <= cp
                   THEN ProcessChunk(i, o, t, Compressed(ChunkBytes(t), ct),
                                     CHUNK_TYPE_COMPRESSED)
                   ELSE ProcessChunk(i, o, t, Compressed(Patch(o, t), cp),
                                     CHUNK_TYPE_COMPRESSED_PATCH)
  /\ completed' = Append(completed, i)
  /\ UNCHANGED <<fromFile, toFile, phase, error, jobs, outFile, manifest,
                 usePatch>>

FailChunk(i) ==
  /\ phase = "pool"
  /\ results[i] = NoResult
  /\ results' = [results EXCEPT ![i] = Raised]
  /\ phase' = "failed"
  /\ error' = "ExternalFailure"
  /\ UNCHANGED <<fromFile, toFile, jobs, completed, tmp, outFile, manifest,
                 usePatch>>

-----------------------------------------------------------------------------
(* diff(), after pool.map                                                  *)

\* Bug variant of PoolMapResults: results in completion order, as
\* imap_unordered would return them.
PoolMapResultsByCompletion == [k \in 1..Len(completed) |-> results[completed[k]]]

\* The list pool.map returns: results in job order, whatever the order in
\* which the workers finished.
PoolMapResults == results

\* Bytes a chunk record occupies in out_file.
RecordLen(rec) == CHUNK_HEADER_SIZE + rec.payload.len

\* Bug variant of TotalBytes: KEEP chunks counted although not copied.
TotalBytesAllChunks(list) ==
  FoldLeft(LAMBDA acc, r : acc + r.size_output, 0, list)

\* total_bytes: size_output summed over the records copied to out_file.
TotalBytes(list) ==
  FoldLeft(LAMBDA acc, r : acc + r.size_output, 0,
           SelectSeq(list, LAMBDA r : r.type > CHUNK_TYPE_KEEP))

\* The concatenation loop: only records of type > KEEP are copied to out_file.
Assemble ==
  /\ phase = "pool"
  /\ \A i \in DOMAIN results : results[i] \notin {NoResult, Raised}
  /\ LET list == PoolMapResults
         copied == SelectSeq(list, LAMBDA r : r.type > CHUNK_TYPE_KEEP)
         stream == [k \in 1..Len(copied) |-> tmp[copied[k].name]]
         totalBytes == TotalBytes(list)
     IN \E compressedLen \in WholeCompressedLens :
          /\ outFile' = stream
          /\ usePatch' = (compressedLen > totalBytes)
          /\ manifest' =
               [chunks |-> [x \in {r.id : r \in ToSet(list)} |->
                              CHOOSE r \in ToSet(list) : r.id = x],
                chunk_size |-> CHUNK_SIZE,
                name |-> IF compressedLen <= totalBytes THEN "to_file"
                                                        ELSE "out_file",
                size |-> IF compressedLen <= totalBytes THEN compressedLen
                                                        ELSE totalBytes,
                size_patch |-> totalBytes,
                size_compressed |-> compressedLen,
                size_original |-> Len(toFile)]
  /\ phase' = "done"
  /\ UNCHANGED <<fromFile, toFile, error, jobs, results, completed, tmp>>

\* diff() has returned or raised: the encoder stops.
Next ==
  \/ Start
  \/ \E i \in DOMAIN jobs : DiffChunk(i) \/ FailChunk(i)
  \/ Assemble

\* The pool's threads run every submitted job to completion, and the main
\* thread resumes once pool.map has its results.
Fairness ==
  /\ WF_vars(Start)
  /\ \A i \in 1..((MaxLen + CHUNK_SIZE - 1) \div CHUNK_SIZE) :
       WF_vars(i \in DOMAIN jobs /\ DiffChunk(i))
  /\ WF_vars(Assemble)

Spec == Init /\ [][Next]_vars /\ Fairness

-----------------------------------------------------------------------------
(* Properties                                                              *)

\* Chunk x of image s, read directly off the byte positions: the reference
\* the recursive _chunk and the IndexError fallback are checked against.
RefChunk(s, x) ==
  SubSeq(s, x * CHUNK_SIZE + 1, Min({(x + 1) * CHUNK_SIZE, Len(s)}))

NumChunks(s) == (Len(s) + CHUNK_SIZE - 1) \div CHUNK_SIZE

\* What an applier gets back from one chunk record, given the from-chunk.
Decode(rec, o) ==
  IF rec.hdr.type = CHUNK_TYPE_COMPRESSED THEN rec.payload.of.new
  ELSE IF rec.payload.of.old = o THEN rec.payload.of.new
  ELSE <<"mismatched patch">>

\* The chunk record of id x in out_file, as a set of zero or one records.
RecordsOf(x) == {outFile[k] : k \in {k \in DOMAIN outFile : outFile[k].hdr.id = x}}

\* The ChunkHeader fields the model keeps.
ChunkHeader ==
  [type : {CHUNK_TYPE_KEEP, CHUNK_TYPE_COMPRESSED, CHUNK_TYPE_COMPRESSED_PATCH},
   id : Int, size : Nat, from_len : 0..CHUNK_SIZE, to_len : 0..CHUNK_SIZE]

TypeOK ==
  /\ fromFile \in Images /\ toFile \in Images
  /\ phase \in {"start", "pool", "done", "failed"}
  /\ error \in {"none", "ValueError", "AssertionError", "ExternalFailure"}
  /\ Len(results) = Len(jobs) /\ Len(tmp) = Len(jobs)
  /\ \A i \in DOMAIN results :
       results[i] \in {NoResult, Raised} \/
       /\ results[i].type \in {CHUNK_TYPE_KEEP, CHUNK_TYPE_COMPRESSED,
                               CHUNK_TYPE_COMPRESSED_PATCH}
       /\ results[i].size_output >= CHUNK_HEADER_SIZE
  /\ completed \in Seq(DOMAIN jobs)
  /\ outFile = NoFile \/ \A k \in DOMAIN outFile : outFile[k].hdr \in ChunkHeader
  /\ usePatch \in BOOLEAN

\* diff() seen as the atomic call ChunkEncoder describes: the pool phase is
\* still the call in progress, and each record of out_file is seen as its
\* id, type, lengths and what it yields applied to its from-chunk.
Encoder == INSTANCE ChunkEncoder WITH
  from <- fromFile,
  to <- toFile,
  status <- IF phase = "done" THEN "returned"
            ELSE IF phase = "failed" THEN "raised" ELSE "called",
  raised <- error,
  stream <- IF outFile = NoFile THEN <<>>
            ELSE [k \in DOMAIN outFile |->
                    [id |-> outFile[k].hdr.id, type |-> outFile[k].hdr.type,
                     len |-> outFile[k].hdr.size,
                     from_len |-> outFile[k].hdr.from_len,
                     to_len |-> outFile[k].hdr.to_len,
                     yields |-> Decode(outFile[k], RefChunk(fromFile, outFile[k].hdr.id))]],
  sizePatch <- IF manifest = NoFile THEN 0 ELSE manifest.size_patch,
  sizeCompressed <- IF manifest = NoFile THEN 0 ELSE manifest.size_compressed,
  usePatch <- usePatch

\* Whatever order the pool's threads finish in and whichever adapter fails,
\* diff() behaves as one atomic call that refuses empty or identical
\* inputs, or raises, or returns out_file with one record per changed chunk
\* in ascending id order that yields the to-chunk, and use_patch telling
\* whether the stream beats the whole compressed file (diff lines 203-337
\* with _diff_chunk and _process_chunk).
ImplementsChunkEncoder == Encoder!Spec

\* The manifest diff() writes agrees with out_file: size_patch is the number
\* of bytes in out_file, there is one chunk entry per to-chunk, and each
\* entry's size_output is its record's header plus payload, or a bare header
\* for a KEEP chunk that has no record (diff lines 264-310).
ManifestMatchesStream ==
  phase = "done" =>
    /\ manifest.size_patch = FoldLeft(LAMBDA acc, r : acc + RecordLen(r), 0, outFile)
    /\ DOMAIN manifest.chunks = 0..NumChunks(toFile) - 1
    /\ \A x \in DOMAIN manifest.chunks :
         \/ /\ manifest.chunks[x].type = CHUNK_TYPE_KEEP
            /\ manifest.chunks[x].size_output = CHUNK_HEADER_SIZE
            /\ RecordsOf(x) = {}
         \/ \E rec \in RecordsOf(x) :
              /\ manifest.chunks[x].type = rec.hdr.type
              /\ manifest.chunks[x].size_output = RecordLen(rec)
    /\ manifest.size = Min({manifest.size_patch, manifest.size_compressed})

StreamHasEveryChunk ==
  phase = "done" =>
    [k \in DOMAIN outFile |-> outFile[k].hdr.id] = [k \in 1..NumChunks(toFile) |-> k - 1]

=============================================================================
