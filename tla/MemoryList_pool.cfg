SPECIFICATION Spec
CONSTANTS
  Blocks = {b1, b2, b3, b4}
  NoBlock = NoBlock
INVARIANTS AssertsHold NothingLeaks Linked
PROPERTIES PoolSpec
