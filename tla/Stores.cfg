SPECIFICATION Spec
CONSTANTS
  c1 = c1
  c2 = c2
  k1 = k1
  s1 = s1
  s2 = s2
  m1 = m1
  m2 = m2
  Caller <- Callers
  Key = {k1}
  Value = {0, 1, 2}
  Default = 0
  MaxBlind = 1
  Sender <- Senders
  Mail <- Mails
  Capacity = 2
  MaxRetry = 2
  MaxId = 3
  MaxFaults = 1
INVARIANTS
  ParamTypeOK
  RowsBounded
  MailTypeOK
  SentAgainForAReason
  MarkedWasSent
PROPERTIES
  RegisterSpec
  NoMailWaitsForEver
CHECK_DEADLOCK FALSE
