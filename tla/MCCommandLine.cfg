SPECIFICATION Spec
CONSTANTS
    Process = {"p", "q"}
    Name = {"a", "b"}
    OtherKeys = {"auths"}
    MaxLaunches = 2
    Commands <- MCCommands
    InitialFiles <- MCFiles
CHECK_DEADLOCK FALSE
INVARIANTS
  ReportsTrue
PROPERTIES
  StoredIsKept
