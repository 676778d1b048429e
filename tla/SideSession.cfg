CONSTANTS
  MaxCreations = 2
  MaxSessions = 2
SPECIFICATION FairSpec
INVARIANTS PreparationCurrent CalledOff FilesKept
PROPERTIES ReservationReleased
CHECK_DEADLOCK FALSE
