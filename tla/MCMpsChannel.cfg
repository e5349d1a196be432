SPECIFICATION Spec
CONSTANTS
  i1 = i1
  i2 = i2
  o1 = o1
  t1 = t1
  t2 = t2
  None = None
  Inputs <- MCInputs
  Outputs <- MCOutputs
  Stamps <- MCStamps
SYMMETRY Symmetry
INVARIANTS
  TypeOK
  FirstFaultIsFirst
  TrippedUntilCleared
  LastingFaultTrips
