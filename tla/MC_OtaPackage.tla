-------------------------- MODULE MC_OtaPackage ---------------------------
(* Instantiates OtaPackage with the two objects curie_ota.py builds: the   *)
(* full package (OtaCuriePackage, package(compression=True)) and the       *)
(* incremental one (OtaCuriePackageIncremental, diff_packages then         *)
(* package()), and the raw full package ota.py also supports.  Each of     *)
(* the three binaries holds one of two image versions.                     *)
EXTENDS OtaPackage

\* v0 is an empty image file, which no full compressed package can hold.
MCImageIds == {"v0", "v1", "v2"}
MCRawLen == [v \in MCImageIds |-> CASE v = "v0" -> 0 [] v = "v1" -> 3 [] v = "v2" -> 4]
MCLzgLens == {2, 3}
\* Diff streams shorter than any whole-image compression: use_patch holds.
MCStreamLens == {0, 1}
\* Diff streams that may be as long as the whole-image compression.
MCLongStreamLens == {1, 3}

MCHeaderLengthBits == 16

FullBinaries ==
  << [magic |-> "ARC", file |-> "arc.bin", type |-> 0],
     [magic |-> "QRK", file |-> "quark.signed.bin", type |-> 1],
     [magic |-> "BLE", file |-> "ble_core/image.bin", type |-> 2] >>
IncrementalBinaries ==
  << [magic |-> "ARC", file |-> "arc.patch", type |-> 0],
     [magic |-> "QRK", file |-> "quark.signed.patch", type |-> 1],
     [magic |-> "BLE", file |-> "ble_core_image.patch", type |-> 2] >>

FullDriver ==
  [inputs |-> "images", chunk_size |-> 0, binaries |-> FullBinaries,
   calls |-> << [op |-> "package", compression |-> TRUE, describe |-> TRUE] >>]
RawFullDriver ==
  [FullDriver EXCEPT !.calls = << [op |-> "package", compression |-> FALSE, describe |-> TRUE] >>]
IncrementalDriver ==
  [inputs |-> "packages", chunk_size |-> 4096, binaries |-> IncrementalBinaries,
   calls |-> << [op |-> "diff_packages", compression |-> TRUE, describe |-> TRUE],
                [op |-> "package", compression |-> TRUE, describe |-> TRUE] >>]
\* package() called twice on one OtaCuriePackage.
TwiceDriver ==
  [FullDriver EXCEPT !.calls = << [op |-> "package", compression |-> TRUE, describe |-> TRUE],
                                  [op |-> "package", compression |-> TRUE, describe |-> TRUE] >>]

\* An OtaChipPackage with no binaries, packaged as curie_ota.py packages.
EmptyDriver == [FullDriver EXCEPT !.binaries = <<>>]

MCFullDrivers == {FullDriver, RawFullDriver}
MCTwiceDrivers == {TwiceDriver}
MCIncrementalDrivers == {IncrementalDriver}
MCEmptyDrivers == {EmptyDriver}
MCDrivers == MCFullDrivers \cup MCIncrementalDrivers
=============================================================================
