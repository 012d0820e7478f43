CONSTANTS
  Watched <- MCWatched
  PriorBytes <- MCPriorBytes

SPECIFICATION Spec

INVARIANT SizesAsDocumented

\* init_oem_base_fields returns and the script has nothing more to do.
CHECK_DEADLOCK FALSE
