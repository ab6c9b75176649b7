SPECIFICATION FairSpec
CONSTANTS
  Resources = {"volume"}
  Types = {"volume"}
  TypeOf <- MCTypeOf
  KindOf <- MCKindOf
  Workers = {w1, w2}
  NoRow = NoRow
  MaxDay = 1
  MaxRuns = 2
  MaxCrashes = 0
PROPERTIES  QueueDrains
