SPECIFICATION Spec
CONSTANTS
  Resources = {"group"}
  Types = {"group"}
  TypeOf <- MCTypeOf
  KindOf <- MCKindOf
  Workers = {w1}
  NoRow = NoRow
  MaxDay = 2
  MaxRuns = 4
  MaxCrashes = 0
INVARIANTS SingleOpenWithoutRestore
PROPERTIES StoreReflectsScan
