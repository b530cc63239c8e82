SPECIFICATION HoleSpec
CONSTANTS
  BitsLen = 72
  Payloads <- MCPayloads
INVARIANTS TypeOK SyncNeverAhead NoHoleBridged
PROPERTIES WithinBits CompleteUnitsKept
CHECK_DEADLOCK FALSE
