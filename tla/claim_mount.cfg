SPECIFICATION Spec
CONSTANTS
  Slots = {0, 4}
  Formats = {1}
  Remounts <- MCRemounts
  Wrap = 2
  WildTargets <- MCNoTargets
  DamageWhen = {"closed"}
  MaxDamage = 1
  MaxMishaps = 0
PROPERTIES MountSurvivesFailedReads
