\* Logs that are not nested captures: a capture of a run from which the
\* serial link dropped lines.  Checks whether a closed call is reopened.
CONSTANTS
  Addrs <- MCAddrs
  MaxLines <- MCMaxLines
  SsblSymbols <- MCSsblSymbols
  QuarkSymbols <- MCQuarkSymbols
  Unresolved = Unresolved
  NoAddr = NoAddr
  NoDuration = NoDuration
  OO = OO

SPECIFICATION Spec

PROPERTY DurationsFinal

CHECK_DEADLOCK FALSE
