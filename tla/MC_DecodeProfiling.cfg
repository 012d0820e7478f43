CONSTANTS
  Addrs <- MCAddrs
  MaxLines <- MCMaxLines
  SsblSymbols <- MCSsblSymbols
  QuarkSymbols <- MCQuarkSymbols
  Unresolved = Unresolved
  NoAddr = NoAddr
  NoDuration = NoDuration
  OO = OO

SPECIFICATION Spec

INVARIANT TypeOK
INVARIANT DecodeMatchesCallTree

\* The script stops after printing: every behaviour ends in "done".
CHECK_DEADLOCK FALSE
