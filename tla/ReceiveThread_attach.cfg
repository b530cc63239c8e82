SPECIFICATION Spec
CONSTANTS
  Users = {u1, u2}
  NoUser = NoUser
  MaxDatagrams = 4
  MaxAttaches = 2
INVARIANTS HandedInOrder StaleOnce
PROPERTIES ReceiverEnds
CHECK_DEADLOCK FALSE
