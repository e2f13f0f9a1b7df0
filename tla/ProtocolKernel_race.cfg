\* Two runners, two versions of the protocol, two generations.
SPECIFICATION Spec
CONSTANTS
  Definitions <- MCDefinitions
  Proof <- MCProof
  EventId <- MCEventId
  Events <- MCEvents
  Runner = {r1, r2}
  MaxSteps = 3
  MaxGenerations = 2
  None = None
SYMMETRY Symmetry
INVARIANTS
  TypeOK
  RunsAsDefined
  PromisesAreKept
  DocumentedPrecedence
PROPERTIES
  NoLostStep
