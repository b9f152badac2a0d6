SPECIFICATION Spec
CONSTANTS
  Born <- MCBorn
  Sizes <- MCClose
  MaxResizes = 1
  MaxDamage = 1
  MaxMishaps = 0
PROPERTIES StructuresStay
CHECK_DEADLOCK FALSE
