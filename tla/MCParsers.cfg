SPECIFICATION ParserSpec
CONSTANTS
  Positions = {1, 2}
  CellCount <- MCCellCount
  Required = {"address", "barcode"}
  Optional = {"charge", "discharge"}
  MaxDamage = 2
INVARIANTS
  DamageIsNoticed
  IntactIsAccepted
