SPECIFICATION Spec
CONSTANTS
  Slots = {0}
  Formats = {1, 2}
  Remounts <- MCRemounts
  Wrap = 2
  WildTargets <- MCNoTargets
  DamageWhen = {"closed", "idle"}
  MaxDamage = 2
  MaxMishaps = 2
INVARIANTS PointersTrue
PROPERTIES NothingLost RepairedIsDurable
