SPECIFICATION Spec
CONSTANTS
  Resources = {"volume"}
  Types = {"volume"}
  TypeOf <- MCTypeOf
  KindOf <- MCKindOf
  Workers = {w1, w2}
  NoRow = NoRow
  MaxDay = 2
  MaxRuns = 3
  MaxCrashes = 1
INVARIANTS TypeOK ScannedRowsStored 
PROPERTIES PartialFailureKeepsRows OnlyUsersReopen 
SYMMETRY MCWorkers
