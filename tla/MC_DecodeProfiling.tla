------------------------- MODULE MC_DecodeProfiling -------------------------
(* Instantiates DecodeProfiling for TLC: two functions, one that          *)
(* ssbl_quark.elf names without line information ("??:0"), so that the   *)
(* name comes from quark.elf, and logs of up to five lines, enough for a  *)
(* recursive call inside another call and for a capture that starts      *)
(* inside two calls.                                                      *)
EXTENDS DecodeProfiling

MCAddrs == {"0x40002b7e", "0x40003000"}
MCSsblSymbols == "0x40002b7e" :> [func |-> "ssbl_main", line |-> TRUE]
              @@ "0x40003000" :> [func |-> "_start", line |-> FALSE]
MCQuarkSymbols == "0x40002b7e" :> [func |-> "main", line |-> TRUE]
               @@ "0x40003000" :> [func |-> "do_test", line |-> TRUE]
MCMaxLines == 5
=============================================================================
