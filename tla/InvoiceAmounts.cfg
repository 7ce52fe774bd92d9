SPECIFICATION Spec
CONSTANTS
  None = None
  Entries <- SomeEntries
  UnitsPerHour = 6
  VatUnits = 1000
  SegmentLists <- SomeLists
  Schedules <- SomeSchedules
  VatAssignments <- SomeAssignments
  DefaultVats <- SomeDefaults
  MaxYear = 9999
  IssueDates <- SomeDates
  Terms <- SomeTerms
INVARIANTS
  TypeOK
  WorkBilledOnce
  MostSpecificRate
  LinesRoundOnce
  VatReconciles
  IssuedReadsBack
  DueDateFollowsTerms
CHECK_DEADLOCK FALSE
