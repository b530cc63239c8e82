SPECIFICATION Spec
CONSTANTS
  PayloadSize = 8
  Pictures <- MCPictures
  Beyond <- MCBeyond
  Extensions = {0, 4}
  Earlier <- MCEarlier
  MaxPictures = 2
  MaxPayloads = 8
INVARIANTS PayloadFitsWindow HevcRoundTrip SurvivorsReceived HeldBack
PROPERTIES CallsAdvance
CHECK_DEADLOCK FALSE
