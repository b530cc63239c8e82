SPECIFICATION FairSpec
CONSTANTS
  Mtu = 5
  Pictures <- MCPictures
  BitsLen = 200
INVARIANTS SurvivorsArrive NoSplice
PROPERTIES TransferSpec EveryPictureFinishes
