SPECIFICATION Spec
CONSTANTS
  Resources = {"instance"}
  Types = {"instance"}
  TypeOf <- MCTypeOf
  KindOf <- MCKindOf
  Workers = {w1}
  NoRow = NoRow
  MaxDay = 1
  MaxRuns = 2
  MaxCrashes = 0
INVARIANTS OpenLookupUnique
