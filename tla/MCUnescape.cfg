SPECIFICATION TextSpec
CONSTANTS
  Characters <- MCCharacters
  Byte <- MCByte
  Paths <- MCPaths
  Names <- MCNames
INVARIANTS
  RoundTrip
  LayerIsDepth
\* The functions return.
CHECK_DEADLOCK FALSE
