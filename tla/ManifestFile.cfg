SPECIFICATION FileSpec
CONSTANTS
    Paths <- MCPaths
    MaxLines = 3
INVARIANTS AcceptedWhole FilesAtKeys
