SPECIFICATION Spec
CONSTANTS
  Slots = {0, 1}
  SyncErrors = 1
  MaxMishaps = 2
  MaxChanges = 2
INVARIANTS MkfsTypeOK NeverStranded FormattedIsDurable NeverWhileUsed
PROPERTIES CommitOrder OnlyExpendable AcceptedAgain
