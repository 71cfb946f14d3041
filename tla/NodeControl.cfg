SPECIFICATION MCSpec
CONSTANTS
  Grants <- MCGrants
  Mutations = 2
  Requests = 1
INVARIANTS VerdictsAgree RevokedIsRefused  
PROPERTIES QuotaKept
CHECK_DEADLOCK FALSE
