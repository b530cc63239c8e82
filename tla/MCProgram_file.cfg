SPECIFICATION Spec
CONSTANTS
  Mtu = 5
  Files <- MCFiles
  max_size = 21
INVARIANTS FileArrives LastUnitsRead
PROPERTIES ProgramEnds
CHECK_DEADLOCK FALSE
