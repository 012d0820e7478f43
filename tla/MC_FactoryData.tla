--------------------------- MODULE MC_FactoryData ---------------------------
(* Instantiates FactoryData for TLC: the caller's object may hold 0 or FF *)
(* in reserved0; the layouts themselves are constants of the module.      *)
EXTENDS FactoryData

MCWatched == {11}
MCPriorBytes == {0, 255}
=============================================================================
