SPECIFICATION Spec
CONSTANTS
  r1 = r1 r2 = r2 r3 = r3 a1 = a1 a2 = a2 k1 = k1 s1 = s1 s2 = s2
  t1 = t1 t2 = t2 g1 = g1 g2 = g2 m1 = m1 m2 = m2 x1 = x1 None = None
  Request = {r1, r2, r3}
  Account = {a1, a2}
  Key = {k1}
  Session = {s1, s2}
  Thread = {t1, t2}
  Group = {g1}
  Model = {m1}
  Source = {x1}
  KeyOf <- OneKey
  SessionOf <- TwoSessions
  ThreadOf <- TwoThreads
  ModelOf <- OneModel
  SourceOf <- OneSource
  Family <- OneFamily
  Stateless = {r3}
  AccountConfigs <- OnOff
  KeyConfigs <- LiveKey
  Settings <- Roomy
  Persisted = {}
  AdminAccounts = {a1}
  AdminKeys = {}
  MaxGeneration = 2
INVARIANTS
  TypeOK QueueCoherence LeaseAccounting 
  CommitsAlone OneBindingPerSession
