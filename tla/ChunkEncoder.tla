---------------------------- MODULE ChunkEncoder ----------------------------
(***************************************************************************)
(* What one call of BsdiffChunk.diff(from_file, to_file, ...) promises,    *)
(* as one atomic step: it raises, or it returns a stream holding one       *)
(* record per changed chunk, in id order, each of which yields the         *)
(* to-chunk; the chosen size is the smaller of the stream and the whole    *)
(* compressed to-file, and use_patch says which one was chosen.            *)
(* BsdiffChunk refines this module (its property ImplementsChunkEncoder).  *)
(***************************************************************************)
EXTENDS Integers, Sequences, SequencesExt, FiniteSets

CONSTANTS Bytes, MaxLen, CHUNK_SIZE, CompressedLens, WholeCompressedLens

VARIABLES
  from, to,        \* the two input images
  status,          \* "called", "returned" or "raised"
  raised,          \* the exception, or "none"
  stream,          \* the records of out_file, as what each one yields
  sizePatch,       \* the stream's length in bytes
  sizeCompressed,  \* the whole to-file's compressed length
  usePatch

avars == <<from, to, status, raised, stream, sizePatch, sizeCompressed, usePatch>>

HEADER == 32

Images == UNION {[1..n -> Bytes] : n \in 0..MaxLen}

\* Chunk x of an image, and how many chunks the to-image has.
ChunkOf(s, x) == SubSeq(s, x * CHUNK_SIZE + 1, Min({(x + 1) * CHUNK_SIZE, Len(s)}))
Chunks(s) == (Len(s) + CHUNK_SIZE - 1) \div CHUNK_SIZE

\* The ids of the to-chunks that differ from the from-chunk of the same id.
ChangedIds == SetToSortSeq({x \in 0..Chunks(to) - 1 : ChunkOf(from, x) # ChunkOf(to, x)}, <)

Init ==
  /\ from \in Images
  /\ to \in Images
  /\ status = "called"
  /\ raised = "none"
  /\ stream = <<>>
  /\ sizePatch = 0
  /\ sizeCompressed = 0
  /\ usePatch = FALSE

\* Empty or identical inputs are refused; otherwise an adapter may fail.
Raise ==
  /\ status = "called"
  /\ raised' = CASE from = <<>> \/ to = <<>> -> "ValueError"
                 [] from = to -> "AssertionError"
                 [] OTHER -> "ExternalFailure"
  /\ status' = "raised"
  /\ UNCHANGED <<from, to, stream, sizePatch, sizeCompressed, usePatch>>

\* A stream record: chunk id, type (COMPRESSED or COMPRESSED_PATCH), payload
\* length, the two chunk lengths, and the to-chunk it yields.
Record ==
  [id : 0..MaxLen, type : {2, 3}, len : CompressedLens,
   from_len : 0..CHUNK_SIZE, to_len : 0..CHUNK_SIZE, yields : Images]

Return ==
  /\ status = "called"
  /\ from # <<>> /\ to # <<>> /\ from # to
  /\ LET ids == ChangedIds
     IN /\ stream' \in [1..Len(ids) -> Record]
        /\ \A k \in 1..Len(ids) :
             /\ stream'[k].id = ids[k]
             /\ stream'[k].from_len = Len(ChunkOf(from, ids[k]))
             /\ stream'[k].to_len = Len(ChunkOf(to, ids[k]))
             /\ stream'[k].yields = ChunkOf(to, ids[k])
  /\ sizePatch' = FoldLeft(LAMBDA acc, r : acc + HEADER + r.len, 0, stream')
  /\ sizeCompressed' \in WholeCompressedLens
  /\ usePatch' = (sizeCompressed' > sizePatch')
  /\ status' = "returned"
  /\ UNCHANGED <<from, to, raised>>

Next == Raise \/ Return

Spec == Init /\ [][Next]_avars

=============================================================================
