SPECIFICATION Spec
CONSTANTS
  Mtu = 5
  Pictures <- MCEndOfSequence
  BitsLen = 200
INVARIANTS ViceVersa
