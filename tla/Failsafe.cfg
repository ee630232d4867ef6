SPECIFICATION Spec
CONSTANTS
  MaxFabricIndex = 2
  SupportedFabrics = 2
  NoContext = NoContext
INVARIANTS
  TypeOK
  UncommittedIsGuarded
  CommittedSurvives
  ContextIsTimed
  CommissionedAgrees
PROPERTIES
  FailsafeEnds
CONSTRAINT OneEscapes
