SPECIFICATION FairSpec
CONSTANTS
  Accounts = {a, b}
  MfaUsers = {b}
  Nobody = none
  Calls = {landing, c1}
  Landing = landing
  MaxPairs = 2
INVARIANTS
  TypeOK
  NeverReplaysRefresh
  HeldTokenIsCurrent
  NameMatchesSession
PROPERTY
  CallsSettle
