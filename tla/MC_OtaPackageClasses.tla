----------------------- MODULE MC_OtaPackageClasses -----------------------
(* Instantiates OtaPackageClasses for TLC: every class, every keyword      *)
(* argument omitted, empty or named, and two package() calls per object.  *)
EXTENDS OtaPackageClasses

MCNames == {"", "curie"}
MCMaxCalls == 2
=============================================================================
