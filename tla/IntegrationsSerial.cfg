SPECIFICATION Spec
CONSTANTS
  Singletons = {}
  Creds = {"r1", "k1", "r2"}
  Works = {"r1", "k1", "r2"}
  Typed = {"000000000000"}
  Handlers = {h1}
  MaxMade = 2
  MethodOf <- MCMethodOf
  RealOf <- MCRealOf
  None = None
INVARIANTS OneConnectionPerAccount
