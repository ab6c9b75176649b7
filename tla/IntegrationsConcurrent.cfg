SPECIFICATION Spec
CONSTANTS
  Singletons = {"gcp"}
  Creds = {"r1", "k1", "bad"}
  Works = {"r1", "k1"}
  Typed = {}
  Handlers = {h1, h2}
  MaxMade = 2
  MethodOf <- MCMethodOf
  RealOf <- MCRealOf
  None = None
INVARIANTS TypeOK ConnectionsOwnAccounts AwsCardsStay 
SYMMETRY MCHandlers
