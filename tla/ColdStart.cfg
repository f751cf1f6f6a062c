SPECIFICATION FairSpec
CONSTANTS
  Instances = {a, b}
  Serverless = {a}
  MaxFaults = 2
INVARIANTS LedgerTrue ServingIsMigrated
PROPERTIES StartsEnd
