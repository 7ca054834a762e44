CONSTANTS
  Keys <- MCKeys
  EntityOf <- MCEntityOf
  Busy = {"stadium", "player"}
  Contested = {"stadium"}
  MaxData = 2
  MaxMishaps = 1
  MaxGets <- MCMaxGets
  MaxWrites = 1
  Visits <- MCVisits
  MAX_RETRIES = 2
SPECIFICATION DashboardSpec
INVARIANTS ReadsOwnWrites SpinnerHasRequest AppliedPerClick
CHECK_DEADLOCK FALSE
