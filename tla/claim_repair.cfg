SPECIFICATION Spec
CONSTANTS
  Slots = {0}
  Formats = {1}
  Remounts <- MCReadonly
  Wrap = 2
  WildTargets <- MCNoTargets
  DamageWhen = {"closed"}
  MaxDamage = 1
  MaxMishaps = 0
PROPERTIES CheckLeavesGoodPrimary
