SPECIFICATION SessionSpec
CONSTANTS
  alice = alice
  root = root
  Users <- People
  Admins <- Admin
  MaxCalls = 2
  MAX_RETRIES = 2
  MaxTokens = 2
INVARIANTS
  SessionInv
  SessionOfLastSignIn
  FormAwaitsItsSignIn
CHECK_DEADLOCK FALSE
