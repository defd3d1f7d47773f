SPECIFICATION GatewaySpec
CONSTANTS
  r1 = r1 r2 = r2 a1 = a1 a2 = a2 k1 = k1 s1 = s1 s2 = s2
  t1 = t1 t2 = t2 g1 = g1 m1 = m1 x1 = x1 None = None
  Request = {r1, r2}
  Account = {a1, a2}
  Key = {k1}
  Session = {s1}
  Thread = {t1, t2}
  Group = {g1}
  Model = {m1}
  Source = {x1}
  KeyOf <- OneKey
  SessionOf <- OneSession
  ThreadOf <- OneThread
  ModelOf <- OneModel
  SourceOf <- OneSource
  Family <- OneFamily
  Stateless = {}
  Streaming = {}
  AccountConfigs <- OnOff
  KeyConfigs <- LiveKey
  Settings <- Roomy
  Persisted = {}
  AdminAccounts = {a1}
  AdminKeys = {}
  MaxFaults = 0
  MaxCrashes = 0
  MaxGeneration = 3
PROPERTY ThreadOrder
CHECK_DEADLOCK FALSE
