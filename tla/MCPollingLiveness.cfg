SPECIFICATION FairSpec
CONSTANTS
  Positions = {1, 2}
  Small = Small
  Large = Large
  Barcodes = {Small}
  NoBarcode = NoBarcode
  CellCount <- MCCellCount
  MaxMoves = 1
  MaxFaults = 1
PROPERTIES
  NoStarvation
  FinallyCurrent
