SPECIFICATION ServicesSpec
CONSTANTS
  Task = {a1, a2}
  Operation = {n1, n2, n3}
  Voucher = {1, 2}
  Request = {n1, n2, n3}
  Session = {s1}
  MaxSeen = 5
  None = None
  Blank = Blank
  Bad = Bad
SYMMETRY Symmetry
INVARIANTS
  ServicesTypeOK
  JournalCoversCalls
  OneUnconfirmed
  RecordedOutcomeTrue
  CountIsExact
  AdmissionHolds
  EventsExact
  StreamOutcome
  
  
  
  AuthorizationsHold
PROPERTIES
  ConfirmedNotRepeated
  BlockedIsNotSent
  EnteredBelowThreshold
  KeysFollowStore
  CatalogsKept
