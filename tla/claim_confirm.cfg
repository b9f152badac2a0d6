SPECIFICATION Spec
CONSTANTS
  Slots = {0, 4}
  Formats = {1}
  Remounts <- MCRemounts
  Wrap = 2
  WildTargets <- MCWildTargets
  DamageWhen = {"closed"}
  MaxDamage = 1
  MaxMishaps = 0
PROPERTIES ConfirmSparesSuperblock
