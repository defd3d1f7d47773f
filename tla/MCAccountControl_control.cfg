SPECIFICATION Spec
CONSTANTS
  a1 = a1 a2 = a2 t1 = t1 t2 = t2 None = None
  Account = {a1}
  Task = {t1, t2}
  Failing <- AllButDelete
  Uncertain <- AllButDelete
  MaxVersion = 3
  MaxCredentials = 2
SYMMETRY Tasks
INVARIANTS TypeOK DisabledStaysOut VersionIdentifiesState
PROPERTIES  LateObservationIgnored
