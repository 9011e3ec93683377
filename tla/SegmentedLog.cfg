CONSTANTS
  Value <- MCValue
  MaxStoreBytes = 32
  MaxIndexBytes = 24
  InitialOffset = 0
  MaxRecords = 3
  MaxCrashes = 2
  MaxFaults = 1
SPECIFICATION Spec
INVARIANTS TypeOK ReadsWhatWasAppended ReadIsNeverAnothers ClosedRecordsSurvive RemoveLeavesNothing StoredRecordDecodes
PROPERTY PanicNeedsOversizeRecord
CHECK_DEADLOCK FALSE
