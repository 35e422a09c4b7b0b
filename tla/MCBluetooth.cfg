SPECIFICATION FairSpec
INVARIANTS TypeOK JoinIsShort LedShowsLast
PROPERTIES RoundsEnd PressHeeded ErrorShown
CHECK_DEADLOCK FALSE
