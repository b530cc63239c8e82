SPECIFICATION FairSpec
CONSTANTS
  MaxLoop = 3
  MaxAdds = 5
INVARIANTS NeverNull SentInOrder SentIsCounted KilledBetweenPackets
PROPERTIES AheadIsSent ThreadEnds
CHECK_DEADLOCK FALSE
