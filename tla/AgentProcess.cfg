SPECIFICATION Spec
CONSTANTS
  Upgrades = {u1, u2}
  MaxVersion = 2
  MaxFiles = 3
  MaxStarts = 3
  MaxEdits = 2
  MaxUpgrades = 2
INVARIANTS
  BinaryIsWhole
  RollbackUsable
  KeyOrTokens
  RuntimeIsLastLoaded
