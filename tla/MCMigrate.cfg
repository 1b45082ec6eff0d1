\* Two deployers, each run any number of times, and images of up to three files.
CONSTANTS
  Deployer = {d1, d2}
  N = 3
  None = None
SPECIFICATION FairSpec
INVARIANTS
  TypeOK
  AppliedOnceIffRecorded
  CheckStillTrue
  DoneMeansApplied
PROPERTIES
  ImplementsLog
  RunsEnd
