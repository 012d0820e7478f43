----------------------------- MODULE OtaPackage -----------------------------
(***************************************************************************)
(* The OTA package builder, parser and incremental driver: class           *)
(* OtaPackage of src/tools/scripts/build_utils/ota.py, driven the way      *)
(* src/projects/curie_common/build/curie_ota.py drives it.                 *)
(*                                                                         *)
(*   Package       package(): header, descriptor table and payloads        *)
(*                 written to out_file (ota.py 166-349)                    *)
(*   DiffPackages  diff_packages(): parse the two full packages, decompress *)
(*                 each component, stage it, run BsdiffChunk.diff on it    *)
(*                 (ota.py 385-423)                                        *)
(*   GetBinaries   get_binaries_from_package() as an operator (351-383)    *)
(*                                                                         *)
(* A file is a sequence of byte tokens; token k of a structure or payload  *)
(* names the structure or payload it belongs to and its index k, so that a *)
(* read at a wrong offset gets bytes of something else.  The OtaHeader     *)
(* and OtaBinary structures keep their sizes (28 and 16 bytes); image,     *)
(* compressed and diff-stream lengths are small.  BsdiffChunk.diff enters  *)
(* through its contract, which module BsdiffChunk checks: it writes a      *)
(* stream of size_patch bytes and returns size = min(size_patch,           *)
(* size_compressed) with size_compressed the LZG length of the to-image.   *)
(***************************************************************************)
EXTENDS Integers, Sequences, SequencesExt, FiniteSets, TLC

CONSTANTS
  ImageIds,     \* the firmware image versions a binary file may hold
  RawLen,       \* RawLen[img]: length of image img
  LzgLens,      \* the lengths LZG().compress may give an image
  StreamLens,   \* the lengths of the diff stream BsdiffChunk.diff may write
  HeaderLengthBits, \* the width of OtaHeader.header_length (c_int16)
  Drivers       \* the objects a driver builds and the calls it makes on them:
                \* [chunk_size, binaries (a sequence of [magic, file, type]),
                \*  calls (a sequence of [op, compression, describe]), describe
                \*  saying whether package() gets a description_file]

ASSUME RawLen \in [ImageIds -> Nat]
ASSUME HeaderLengthBits \in Nat \ {0}
ASSUME \A d \in Drivers : \A j, m \in DOMAIN d.binaries :
         d.binaries[j].magic = d.binaries[m].magic => j = m

OTA_HEADER_SIZE == 28   \* ctypes.sizeof(OtaHeader)
OTA_BINARY_SIZE == 16   \* ctypes.sizeof(OtaBinary)
\* File names: <<directory, name, suffix>>.
InFile(name) == <<"in", name, "">>
OutFile == <<"out", "package", "">>
FromPackage == InFile("from_package.ota.bin")
ToPackage == InFile("to_package.ota.bin")

VARIABLES
  driver,       \* the element of Drivers this behaviour runs
  pc,           \* index of the next call in driver.calls
  phase,        \* "run", "done" or "failed"
  error,        \* the exception that ended the script, or "none"
  chunkSize,    \* self.chunk_size
  incremental,  \* self.ota_incremental
  headerLength, \* self.ota_header.header_length
  binaries,     \* self.ota_binaries, with what package/diff_packages add
  fs,           \* the files: a function from names to token sequences
  fromImgs,     \* image of each binary in the from-package (incremental)
  toImgs,       \* image of each binary in its input file or the to-package
  lz,           \* LZG().compress's output length for each image
  written,     \* history: the out_file contents of each package() call
  description   \* self.description["metrics"], or NoDescription

vars == <<driver, pc, phase, error, chunkSize, incremental, headerLength,
          binaries, fs, fromImgs, toImgs, lz, written, description>>

-----------------------------------------------------------------------------
(* Bytes                                                                   *)

Tok(src, k) == [src |-> src, i |-> k]
ByteRun(src, n) == [k \in 1..n |-> Tok(src, k - 1)]
ZeroTok == Tok([kind |-> "zero"], 0)
Zeros(n) == [k \in 1..n |-> ZeroTok]

Image(img) == [kind |-> "image", img |-> img]
Lzg(img) == [kind |-> "lzg", img |-> img]
Stream(fi, ti) == [kind |-> "diff", from |-> fi, to |-> ti]

ImageData(img) == ByteRun(Image(img), RawLen[img])
LzgData(img) == ByteRun(Lzg(img), lz[img])

\* A value assigned to the signed c_int16 field header_length: ctypes
\* keeps its low bits without a range check.
HeaderField(v) ==
  LET m == 2 ^ HeaderLengthBits
      r == v % m
  IN IF r >= m \div 2 THEN r - m ELSE r

\* out_fp.seek(p) then out_fp.write(data) on file f: a write past the end
\* fills the gap with zeros, a seek alone leaves the file as it is.
WriteAt(f, p, data) ==
  IF data = <<>> THEN f
  ELSE (IF p <= Len(f) THEN SubSeq(f, 1, p) ELSE f \o Zeros(p - Len(f)))
       \o data \o SubSeq(f, p + Len(data) + 1, Len(f))

\* _pack of an OtaHeader and of an OtaBinary.
HeaderStruct(hl, pl) ==
  [kind |-> "OtaHeader", magic |-> "OTA", header_length |-> hl,
   payload_length |-> pl]
BinaryStruct(magic, type, offset, length) ==
  [kind |-> "OtaBinary", magic |-> magic, type |-> type, version |-> 0,
   offset |-> offset, length |-> length]

\* from_buffer_copy of w bytes at p: ValueError on a short buffer, the
\* structure whose bytes these are, all-zero fields (a c_char magic reads
\* as ""), or bytes of several things.
Garbage == [kind |-> "garbage"]
ReadStruct(data, p, w, zero) ==
  IF p + w > Len(data) THEN [kind |-> "truncated"]
  ELSE LET b == SubSeq(data, p + 1, p + w)
       IN IF b = ByteRun(b[1].src, w) THEN b[1].src
          ELSE IF \A k \in 1..w : b[k] = ZeroTok THEN zero
          ELSE Garbage

\* in_data[a:b]: Python slicing stops at the end of the data.
Slice(data, a, b) == SubSeq(data, a + 1, Min({b, Len(data)}))

Total(s) == FoldLeft(LAMBDA a, b : a + b, 0, s)

\* LZG().compress of an input file, and LZG().decompress of a payload,
\* which fails on anything that is not the compression of an image.
Compress(data) == LzgData(data[1].src.img)
Decompress(data) ==
  IF /\ Len(data) > 0
     /\ data[1].src.kind = "lzg"
     /\ data = LzgData(data[1].src.img)
  THEN ImageData(data[1].src.img)
  ELSE <<>>

-----------------------------------------------------------------------------
(* package()                                                               *)

\* How far the payload cursor (offset, payload_length) moves past binary b:
\* the compressed length, the patch's chosen size, or the file length.
\* Bug variant: the compressed branch moving by the raw length.
AdvanceByRawLength(b, inLen, payloadLen, compressFull, incr) ==
  IF incr THEN b.patch.size ELSE inLen
\* Bug variant: the incremental branch moving by the original length.
AdvanceBySizeOriginal(b, inLen, payloadLen, compressFull, incr) ==
  IF compressFull THEN payloadLen ELSE IF incr THEN b.patch.size_original ELSE inLen
Advance(b, inLen, payloadLen, compressFull, incr) ==
  IF compressFull THEN payloadLen ELSE IF incr THEN b.patch.size ELSE inLen

\* The fields package() sets on binary b.
BinaryRecord(b, offset, inData, payload, compressFull, incr) ==
  [b EXCEPT !.version = 0, !.offset = offset,
            !.length = IF incr THEN b.patch.size_original ELSE Len(inData),
            !.length_compressed = IF compressFull THEN Len(payload)
                                  ELSE IF incr THEN b.patch.size ELSE 0]

\* The payload written for each input file: its compression in a full
\* compressed package, the file itself otherwise.
Payloads(compressFull, inData) ==
  [j \in DOMAIN inData |-> IF compressFull THEN Compress(inData[j]) ELSE inData[j]]

\* The loop of package() over bins with their input file contents inData,
\* starting from header_length hl0: each binary's payload and descriptor,
\* the header, and the file as written, i.e. the payloads from
\* header_length on, then the header and the descriptors from 0.
Layout(bins, hl0, compression, incr, inData) ==
  LET n == Len(bins)
      hl == HeaderField(hl0 + n * OTA_BINARY_SIZE)
      compressFull == compression /\ ~incr
      payload == Payloads(compressFull, inData)
      advance == [j \in 1..n |-> Advance(bins[j], Len(inData[j]), Len(payload[j]),
                                         compressFull, incr)]
      offset == [j \in 1..n |-> Total(SubSeq(advance, 1, j - 1))]
      descs == [j \in 1..n |-> BinaryStruct(bins[j].magic, bins[j].type,
                                            offset[j], Len(payload[j]))]
      pl == Total(advance)
  IN [header_length |-> hl,
      payload_length |-> pl,
      binaries |-> [j \in 1..n |-> BinaryRecord(bins[j], offset[j], inData[j],
                                                payload[j], compressFull, incr)],
      file |-> WriteAt(WriteAt(<<>>, hl, FlattenSeq(payload)), 0,
                       ByteRun(HeaderStruct(hl, pl), OTA_HEADER_SIZE)
                       \o FlattenSeq([j \in 1..n |-> ByteRun(descs[j], OTA_BINARY_SIZE)]))]

-----------------------------------------------------------------------------
(* get_binaries_from_package()                                             *)

ZeroHeader ==
  [kind |-> "OtaHeader", magic |-> "", header_length |-> 0, payload_length |-> 0]
ZeroBinary == BinaryStruct("", 0, 0, 0)

\* Descriptor i (from 1) of the table after the header.  Bug variant:
\* counting descriptors from 1 in the offset.
DescriptorAtOffByOne(data, i) ==
  ReadStruct(data, OTA_HEADER_SIZE + i * OTA_BINARY_SIZE, OTA_BINARY_SIZE, ZeroBinary)
DescriptorAt(data, i) ==
  ReadStruct(data, OTA_HEADER_SIZE + (i - 1) * OTA_BINARY_SIZE, OTA_BINARY_SIZE,
             ZeroBinary)

\* Where binary d's payload starts in the file.  Bug variant: the offset
\* taken from the start of the file.
PayloadStartFromFileStart(hdr, d) == d.offset
PayloadStart(hdr, d) == hdr.header_length + d.offset

\* The header, binaries_count = (header_length - 28) / 16 descriptors, and
\* for each the slice of in_data it points to, keyed by magic: a later
\* descriptor with the same magic replaces an earlier one.
GetBinaries(data) ==
  LET hdr == ReadStruct(data, 0, OTA_HEADER_SIZE, ZeroHeader)
      count == (hdr.header_length - OTA_HEADER_SIZE) \div OTA_BINARY_SIZE
      descs == [i \in 1..count |-> DescriptorAt(data, i)]
      start(d) == PayloadStart(hdr, d)
  IN IF hdr.kind # "OtaHeader" THEN [error |-> hdr.kind]
     ELSE IF \E i \in 1..count : descs[i].kind # "OtaBinary"
       THEN [error |-> "garbage"]
     ELSE [error |-> "none",
           binaries |-> FoldLeft(LAMBDA m, d :
                                   (d.magic :> Slice(data, start(d), start(d) + d.length)) @@ m,
                                 [x \in {} |-> <<>>], descs)]

-----------------------------------------------------------------------------
(* The driver and the two calls                                            *)

NoPatch == [size |-> 0, size_original |-> 0]
NoDescription == [size |-> 0]

MagicsOf(d) == {d.binaries[j].magic : j \in DOMAIN d.binaries}
K == Len(binaries)
Call == driver.calls[pc]

\* Images a full compressed package can hold: package() divides by the
\* length of every image it compresses (line 221).
Packageable == {img \in ImageIds : RawLen[img] > 0}

\* The out_file a fresh OtaCuriePackage writes with compression=True for
\* the given images: how the two input packages of diff_packages were made.
FullPackageFile(bins, imgs) ==
  Layout(bins, OTA_HEADER_SIZE, TRUE, FALSE,
         [j \in DOMAIN bins |-> ImageData(imgs[bins[j].magic])]).file

Init ==
  /\ driver \in Drivers
  /\ lz \in [ImageIds -> LzgLens]
  /\ IF driver.inputs = "packages"
       THEN /\ toImgs \in [MagicsOf(driver) -> Packageable]
            /\ fromImgs \in [MagicsOf(driver) -> Packageable]
       ELSE /\ toImgs \in [MagicsOf(driver) -> ImageIds]
            /\ fromImgs = toImgs
  /\ pc = 1
  /\ phase = "run"
  /\ error = "none"
  /\ chunkSize = driver.chunk_size
  /\ incremental = FALSE
  /\ headerLength = OTA_HEADER_SIZE
  /\ binaries = [j \in DOMAIN driver.binaries |->
                   driver.binaries[j] @@ [version |-> 0, offset |-> 0, length |-> 0,
                                          length_compressed |-> 0, patch |-> NoPatch]]
  /\ IF driver.inputs = "packages"
       THEN \E present \in SUBSET {FromPackage, ToPackage} :
              fs = [n \in present |->
                      FullPackageFile(binaries,
                                      IF n = FromPackage THEN fromImgs ELSE toImgs)]
       ELSE \E present \in SUBSET ToSet(driver.binaries) :
              fs = FoldLeft(LAMBDA f, b : (InFile(b.file) :> ImageData(toImgs[b.magic])) @@ f,
                            [x \in {} |-> <<>>],
                            SelectSeq(driver.binaries, LAMBDA b : b \in present))
  /\ written = <<>>
  /\ description = NoDescription

\* The driver moves to its next call, or stops after the last one.
Return ==
  /\ pc' = pc + 1
  /\ phase' = IF pc = Len(driver.calls) THEN "done" ELSE "run"
  /\ error' = "none"

\* An exception ends the driver.
Raise(e) ==
  /\ phase' = "failed"
  /\ error' = e
  /\ UNCHANGED pc

\* Bug variant of SumPatch: the loop stopping one binary short.
SumPatchSkipLast(bins, key) == Total([j \in 1..Len(bins) - 1 |-> bins[j].patch[key]])

\* _sum_patch(key): key summed over the binaries' patch records.
SumPatch(bins, key) == Total([j \in DOMAIN bins |-> bins[j].patch[key]])

\* Bug variant of Metrics: a full package's size taken from the original
\* (uncompressed) length.
MetricsSizeOriginal(bins, pl, compressFull, incr) ==
  LET orig == Total([j \in DOMAIN bins |-> bins[j].length])
  IN IF incr
       THEN [size |-> SumPatch(bins, "size"),
             size_compressed |-> SumPatch(bins, "size_compressed"),
             size_original |-> SumPatch(bins, "size_original"),
             gain_vs_original |-> SumPatch(bins, "gain_vs_original"),
             gain_vs_compressed |-> SumPatch(bins, "gain_vs_compressed")]
       ELSE [size |-> orig, size_compressed |-> pl, size_original |-> orig,
             gain_vs_original |-> IF compressFull THEN orig - pl ELSE 0,
             gain_vs_compressed |-> 0]

\* self.description["metrics"] for binaries bins after the loop, with
\* payload_length pl: the patch sums in an incremental package, otherwise
\* the payload and original lengths.
Metrics(bins, pl, compressFull, incr) ==
  LET orig == Total([j \in DOMAIN bins |-> bins[j].length])
  IN IF incr
       THEN [size |-> SumPatch(bins, "size"),
             size_compressed |-> SumPatch(bins, "size_compressed"),
             size_original |-> SumPatch(bins, "size_original"),
             gain_vs_original |-> SumPatch(bins, "gain_vs_original"),
             gain_vs_compressed |-> SumPatch(bins, "gain_vs_compressed")]
       ELSE [size |-> pl, size_compressed |-> pl, size_original |-> orig,
             gain_vs_original |-> IF compressFull THEN orig - pl ELSE 0,
             gain_vs_compressed |-> 0]

\* package(out_file, compression, description_file): header_length grows by
\* the descriptor table, out_file is truncated, and the seek to
\* header_length raises IOError when that is negative.  Each input file is read
\* in turn: a missing one raises IOError, and an empty one to be
\* compressed raises ZeroDivisionError (its ratio), after the payloads
\* before it are written.  Then the header and the descriptors are written
\* at 0; with a description_file, the header ratio divides by the summed
\* binary lengths (ZeroDivisionError when that is 0, the file complete),
\* and the metrics are recorded.  _package_check only prints.  The script
\* exits on an exception, so the binaries' partly updated dicts are not
\* kept.
Package ==
  /\ phase = "run"
  /\ Call.op = "package"
  /\ LET names == [j \in 1..K |-> InFile(binaries[j].file)]
         missing == {j \in 1..K : names[j] \notin DOMAIN fs}
         empty == {j \in 1..K \ missing :
                     Call.compression /\ ~incremental /\ fs[names[j]] = <<>>}
         hl == HeaderField(headerLength + K * OTA_BINARY_SIZE)
     IN IF hl < 0
          THEN /\ headerLength' = hl
               /\ fs' = (OutFile :> <<>>) @@ fs
               /\ Raise("IOError")
               /\ UNCHANGED <<binaries, written, description>>
        ELSE IF missing \cup empty = {}
          THEN LET out == Layout(binaries, headerLength, Call.compression,
                                 incremental, [j \in 1..K |-> fs[names[j]]])
                   orig == Total([j \in 1..K |-> out.binaries[j].length])
               IN /\ headerLength' = out.header_length
                  /\ binaries' = out.binaries
                  /\ fs' = (OutFile :> out.file) @@ fs
                  /\ written' = Append(written, out.file)
                  /\ IF Call.describe /\ orig = 0
                       THEN Raise("ZeroDivisionError") /\ UNCHANGED description
                     ELSE /\ description' =
                               IF Call.describe
                                 THEN Metrics(out.binaries, out.payload_length,
                                              Call.compression /\ ~incremental,
                                              incremental)
                                 ELSE description
                          /\ Return
          ELSE LET m == Min(missing \cup empty)
                   done == Payloads(Call.compression /\ ~incremental,
                                    [j \in 1..m - 1 |-> fs[names[j]]])
               IN /\ headerLength' = hl
                  /\ fs' = (OutFile :> WriteAt(<<>>, hl, FlattenSeq(done))) @@ fs
                  /\ Raise(IF m \in missing THEN "IOError" ELSE "ZeroDivisionError")
                  /\ UNCHANGED <<binaries, written, description>>
  /\ UNCHANGED <<driver, chunkSize, incremental, fromImgs, toImgs, lz>>

\* The decompressed payloads written to <file>.from and <file>.to.  Bug
\* variant: the two names swapped.
StagedFilesSwapped(files, name, fr, tr) ==
  (<<"in", name, ".from">> :> tr) @@ (<<"in", name, ".to">> :> fr) @@ files
StagedFiles(files, name, fr, tr) ==
  (<<"in", name, ".from">> :> fr) @@ (<<"in", name, ".to">> :> tr) @@ files

\* The patch_information dict diff() returns for a stream of sl bytes, a
\* whole compressed image of cl bytes and an image of n bytes: size is the
\* smaller of the two, the compressed image winning a tie.  Bug variant:
\* the stream and whole-image sizes stored in each other's field.
PatchRecordSwapped(sl, cl, n) ==
  [size_patch |-> cl, size_compressed |-> sl, size |-> Min({sl, cl}),
   size_original |-> n,
   gain_vs_original |-> n - Min({sl, cl}),
   gain_vs_compressed |-> IF cl <= sl THEN 0 ELSE cl - sl]
PatchRecord(sl, cl, n) ==
  [size_patch |-> sl, size_compressed |-> cl, size |-> Min({sl, cl}),
   size_original |-> n,
   gain_vs_original |-> n - Min({sl, cl}),
   gain_vs_compressed |-> IF cl <= sl THEN 0 ELSE cl - sl]

\* One iteration of the diff_packages loop on binary j, given the parsed
\* packages fp and tp and the length sl of the stream BsdiffChunk.diff
\* writes: look both payloads up by magic, decompress them, stage them as
\* <file>.from and <file>.to, diff them into <file> (ValueError from mmap
\* when one is empty, AssertionError when they are equal) and attach the returned patch information.
DiffStep(acc, j, fp, tp, sl) ==
  LET b == acc.binaries[j]
      fr == Decompress(fp[b.magic])
      tr == Decompress(tp[b.magic])
      staged == StagedFiles(acc.fs, b.file, fr, tr)
      ti == tr[1].src.img
      compressedLen == lz[ti]
  IN IF acc.error # "none" THEN acc
     ELSE IF b.magic \notin DOMAIN fp \/ b.magic \notin DOMAIN tp
       THEN [acc EXCEPT !.error = "TypeError"]
     ELSE IF fr = <<>> \/ tr = <<>> THEN [acc EXCEPT !.error = "ValueError", !.fs = staged]
     ELSE IF fr = tr THEN [acc EXCEPT !.error = "AssertionError", !.fs = staged]
     ELSE [error |-> "none",
           fs |-> (InFile(b.file) :> ByteRun(Stream(fr[1].src.img, ti), sl))
                  @@ staged,
           binaries |-> [acc.binaries EXCEPT ![j].patch =
                           PatchRecord(sl, compressedLen, Len(tr))]]

\* What get_binaries_from_package raises on the package file f: IOError
\* from open when it is missing, ValueError from a truncated read.
ParseError(f) ==
  IF f \notin DOMAIN fs THEN "IOError"
  ELSE IF GetBinaries(fs[f]).error = "truncated" THEN "ValueError"
  ELSE "none"

\* diff_packages(from_file, to_file).
DiffPackages ==
  /\ phase = "run"
  /\ Call.op = "diff_packages"
  /\ incremental' = TRUE
  /\ IF chunkSize = 0 THEN Raise("AssertionError") /\ UNCHANGED <<fs, binaries>>
     ELSE IF ParseError(FromPackage) # "none"
       THEN Raise(ParseError(FromPackage)) /\ UNCHANGED <<fs, binaries>>
     ELSE IF ParseError(ToPackage) # "none"
       THEN Raise(ParseError(ToPackage)) /\ UNCHANGED <<fs, binaries>>
     ELSE
       LET fp == GetBinaries(fs[FromPackage])
           tp == GetBinaries(fs[ToPackage])
       IN IF fp.error = "garbage" \/ tp.error = "garbage"
            THEN Raise("ExternalFailure") /\ UNCHANGED <<fs, binaries>>
          ELSE \E sl \in [1..K -> StreamLens] :
                 LET r == FoldLeft(LAMBDA acc, j : DiffStep(acc, j, fp.binaries,
                                                            tp.binaries, sl[j]),
                                   [error |-> "none", fs |-> fs, binaries |-> binaries],
                                   [j \in 1..K |-> j])
                 IN /\ fs' = r.fs
                    /\ binaries' = r.binaries
                    /\ IF r.error = "none" THEN Return ELSE Raise(r.error)
  /\ UNCHANGED <<driver, chunkSize, headerLength, fromImgs, toImgs, lz, written,
                 description>>

Next == Package \/ DiffPackages

Spec == Init /\ [][Next]_vars

-----------------------------------------------------------------------------
(* Properties                                                              *)

PatchInfo ==
  [size_patch : StreamLens, size_compressed : LzgLens, size : Nat,
   size_original : Nat, gain_vs_original : Int,
   gain_vs_compressed : Nat]

TypeOK ==
  /\ pc \in 1..Len(driver.calls) + 1
  /\ phase \in {"run", "done", "failed"}
  /\ error \in {"none", "IOError", "ValueError", "TypeError", "AssertionError",
                "ExternalFailure", "ZeroDivisionError"}
  /\ incremental \in BOOLEAN
  /\ headerLength \in Nat
  /\ \A j \in 1..K :
       /\ binaries[j].offset \in Nat
       /\ binaries[j].length \in Nat
       /\ binaries[j].length_compressed \in Nat
       /\ binaries[j].patch \in PatchInfo \cup {NoPatch}

\* The payload package() should have put in out_file for binary j: the
\* compressed or raw image, or in an incremental package the diff stream.
ExpectedPayload(j, compression) ==
  IF incremental THEN fs[InFile(binaries[j].file)]
  ELSE IF compression THEN LzgData(toImgs[binaries[j].magic])
  ELSE ImageData(toImgs[binaries[j].magic])

\* out_file exists and the last call, package(), returned.
Packaged == OutFile \in DOMAIN fs /\ phase # "failed" /\ pc > 1
            /\ driver.calls[pc - 1].op = "package"

\* Round trip (spec section 8): get_binaries_from_package on what package()
\* wrote yields exactly the binaries' magics, each with the payload that was
\* written for it (package lines 166-276 against lines 351-383).
PackageRoundTrip ==
  Packaged =>
    LET parsed == GetBinaries(fs[OutFile])
    IN /\ parsed.error = "none"
       /\ parsed.binaries =
            [m \in {binaries[j].magic : j \in 1..K} |->
               ExpectedPayload(CHOOSE j \in 1..K : binaries[j].magic = m,
                               driver.calls[pc - 1].compression)]

\* The header and the descriptor table the bootloader reads agree with the
\* file: header_length = 28 + 16K, offset[1] = 0, offset[j+1] = offset[j] +
\* length[j], payload_length = the sum of the lengths, and the file is
\* header_length + payload_length bytes long (spec 3.6; package 170-276).
LayoutConsistent ==
  Packaged =>
    LET file == fs[OutFile]
        hdr == ReadStruct(file, 0, OTA_HEADER_SIZE, ZeroHeader)
        d == [j \in 1..K |-> ReadStruct(file, OTA_HEADER_SIZE + (j - 1) * OTA_BINARY_SIZE,
                                        OTA_BINARY_SIZE, ZeroBinary)]
    IN /\ hdr.header_length = OTA_HEADER_SIZE + K * OTA_BINARY_SIZE
       /\ \A j \in 1..K : d[j].offset = Total([m \in 1..j - 1 |-> d[m].length])
       /\ hdr.payload_length = Total([m \in 1..K |-> d[m].length])
       /\ Len(file) = hdr.header_length + hdr.payload_length

\* The diff engine's inputs are the decompressed payloads of the same magic
\* in the two packages (spec 3.6): once diff_packages has attached a patch to
\* a binary, its staged .from and .to files are that binary's images in the
\* from- and to-package, and the patch describes the to-image (diff_packages
\* lines 393-423 through get_binaries_from_package and LZG).
DiffInputsMatch ==
  \A j \in 1..K :
    binaries[j].patch # NoPatch =>
      LET m == binaries[j].magic
      IN /\ fs[<<"in", binaries[j].file, ".from">>] = ImageData(fromImgs[m])
         /\ fs[<<"in", binaries[j].file, ".to">>] = ImageData(toImgs[m])
         /\ binaries[j].patch.size_original = RawLen[toImgs[m]]
         /\ binaries[j].patch.size_compressed = lz[toImgs[m]]

\* The files the driver's first call reads from input_directory.
InputFiles ==
  IF driver.inputs = "packages" THEN {FromPackage, ToPackage}
  ELSE {InFile(driver.binaries[j].file) : j \in DOMAIN driver.binaries}

\* The incremental Curie driver fails only on a missing input package, or
\* on diff() refusing a component whose image is the same in both
\* packages: packages written by package() always parse and decompress
\* (diff_packages lines 393-420, bsdiff_chunk 230).
OnlyUnchangedComponentsFail ==
  driver.inputs = "packages" /\ phase = "failed" =>
    \/ error = "IOError" /\ ~(InputFiles \subseteq DOMAIN fs)
    \/ /\ error = "AssertionError"
       /\ \E j \in 1..K : fromImgs[binaries[j].magic] = toImgs[binaries[j].magic]

\* The check package() makes with a description_file, and only prints
\* (_package_check, lines 158-163): out_file is header_length plus the
\* metrics' size bytes long, the metrics coming from the payload length in
\* a full package and from the patch records in an incremental one.
PackageCheckHolds ==
  Packaged /\ description # NoDescription =>
    Len(fs[OutFile]) = headerLength + description.size

\* A full build whose input files are all present returns: spec section 8,
\* scenario 1 makes an empty descriptor list a 28-byte package, and the
\* only error it names for package() is a failed read (spec section 7).
FullBuildReturns ==
  driver.inputs = "images" /\ phase = "failed" => error = "IOError"

\* Calling package() again with the same inputs writes the same bytes
\* (spec section 8, idempotence).
PackageIdempotent ==
  \A i, j \in DOMAIN written : written[i] = written[j]

=============================================================================
