SPECIFICATION Spec
CONSTANTS
  Instances = {a, b}
  Serverless = {a, b}
  MaxFaults = 0
INVARIANTS RequestsAreRouted
