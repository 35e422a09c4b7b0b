SPECIFICATION FairSpec
PROPERTIES LongPressPairs
CHECK_DEADLOCK FALSE
