SPECIFICATION MCSpec
CONSTANTS
  laptop = laptop
  dock = dock
  AnyMachine = any
  None = none
  Machines <- MCMachines
  Keys <- MCKeys
  LEASE_DAYS = 2
  TERM = 4
  MaxDay = 6
  Plans <- MCPlans
  ItemLists <- MCItemLists
  LicenseKeys <- MCLicenseKeys
  TERM_DAYS = 1
  HINT = 2
  Missing = missing
  Torn = torn
  MaxDays = 3
  MaxPending = 2
  MaxDeliveries = 3
INVARIANT PaidMeansLicensed
CHECK_DEADLOCK FALSE
