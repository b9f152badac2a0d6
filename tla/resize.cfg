SPECIFICATION Spec
CONSTANTS
  Born <- MCBorn
  Sizes <- MCApart
  MaxResizes = 2
  MaxDamage = 1
  MaxMishaps = 1
INVARIANTS ResizeTypeOK BlocksTrue MirrorRebuilt
PROPERTIES RepairsRestore
