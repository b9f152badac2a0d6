SPECIFICATION Spec
CONSTANTS
  Slots = {0, 4}
  Formats = {1}
  Remounts <- MCRemounts
  Wrap = 3
  WildTargets <- MCNoTargets
  DamageWhen = {"closed", "idle"}
  MaxDamage = 2
  MaxMishaps = 1
INVARIANTS TypeOK SmartCoherent
PROPERTIES LostIsLost ReadonlyWritesNothing
