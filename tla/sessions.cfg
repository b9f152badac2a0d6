SPECIFICATION SessionsSpec
CONSTANTS
  Slots = {0}
  Formats = {1}
  Remounts = {}
  Wrap = 2
  WildTargets <- MCNoTargets
  DamageWhen = {"closed", "idle"}
  MaxDamage = 2
  MaxMishaps = 1
INVARIANTS PointersTrue
PROPERTIES NothingLost EitherRepairedIsDurable
