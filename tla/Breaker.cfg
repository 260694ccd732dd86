\* Three requests side by side, under outages that end, or that do not.
CONSTANTS
  Procs = {p1, p2, p3}
  Threshold = 2
  Cooldown = 1
SPECIFICATION FairSpec
INVARIANT TypeOK
INVARIANT OpenMeansTripped
PROPERTY Recovers
PROPERTY OutageTrips
PROPERTY OnlyLateOutcomes
