SPECIFICATION Spec
CONSTANTS
  Kinds <- AllKinds
INVARIANTS
  TypeOK
  RequestsAreSound
  VerdictsHaveReasons
