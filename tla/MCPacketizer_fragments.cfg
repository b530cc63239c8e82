SPECIFICATION Spec
CONSTANTS
  Mtu = 5
  Modes <- MCModes
  Pictures <- MCBitstreams
INVARIANTS TypeOK PayloadFitsMtu NeverRefused FragmentsFollow RoundTrip
PROPERTIES EveryCallAdvances
CHECK_DEADLOCK FALSE
