SPECIFICATION Spec
CONSTANTS
  s1 = s1
  s2 = s2
  localclient = localclient
  alice = alice
  p1 = p1
  p2 = p2
  Sessions = {s1, s2}
  Users = {localclient, alice}
  Local = localclient
  Passwords = {p1}
  Levels = {0, 10}
  Admin = 10
  Default = 10
  NoAccount = NoAccount
  Missing = Missing
  NoSession = NoSession
CHECK_DEADLOCK FALSE
PROPERTIES
  ContinuationKnowsItsCaller
