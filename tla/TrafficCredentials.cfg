SPECIFICATION AccountsSpec
CONSTANTS
  Grants <- MCGrants
  Mutations = 2
  Requests = 1
INVARIANTS SecretKept
CHECK_DEADLOCK FALSE
