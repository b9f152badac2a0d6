SPECIFICATION ToolSpec
CONSTANTS
  Slots = {0, 4}
  Formats = {1}
  Remounts = {}
  Wrap = 2
  WildTargets <- MCNoTargets
  DamageWhen = {"closed", "idle"}
  MaxDamage = 2
  MaxMishaps = 1
PROPERTIES EventuallyRestored CallsReturn
