CONSTANTS
  Names <- MCNames
  None = None
  MaxCalls <- MCMaxCalls

SPECIFICATION Spec

INVARIANT TagsOfConstructor

\* An object is packaged at most MaxCalls times, or until a call raises.
CHECK_DEADLOCK FALSE
