SPECIFICATION Spec
CONSTANTS
  PayloadSize = 8
  Pictures <- MCExact
  Beyond <- MCBeyond
  Extensions = {0}
  Earlier <- MCEarlier
  MaxPictures = 2
  MaxPayloads = 8
INVARIANTS LastFragmentMarked
CHECK_DEADLOCK FALSE
