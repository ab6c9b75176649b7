SPECIFICATION Spec
CONSTANTS
  Resources = {"volume"}
  Types = {"volume"}
  TypeOf <- MCTypeOf
  KindOf <- MCKindOf
  Workers = {w1}
  NoRow = NoRow
  MaxDay = 2
  MaxRuns = 3
  MaxCrashes = 0
PROPERTIES RemovedLeavesInventory
