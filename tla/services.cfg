SPECIFICATION ServicesSpec
CONSTANTS
  Jobs = {j1, j2}
  Requests = {r1, r2}
  Wallets = {a1, a2}
  Lifetime = 2
  AccessTTL = 2
  MaxChanges = 2
  DefinitionTTL = 2
SYMMETRY Symmetry
INVARIANTS
  ServicesTypeOK
  OneValidToken
  EmptyOnlyRecently
PROPERTIES
  AdmittedRecently
