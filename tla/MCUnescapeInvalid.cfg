SPECIFICATION TextSpec
CONSTANTS
  Characters <- MCCharacters
  Byte <- MCByte
  Paths <- MCPaths
  Names <- MCNames
INVARIANTS
  ReturnsAsDocumented
\* The functions return.
CHECK_DEADLOCK FALSE
