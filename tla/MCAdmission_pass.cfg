CONSTANTS
  Request = {r1, r2, r3}
  Resource = {disk, memory}
  MaxConcurrent = 2
  CheckEvery = 2
SPECIFICATION Spec
INVARIANTS PermitsConserved GuardFlagOwned BreakerSingleFlight
PROPERTIES GuardTracksDisk BreakerTracksUnlessDropped
