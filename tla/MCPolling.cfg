SPECIFICATION Spec
CONSTANTS
  Positions = {1, 2}
  Small = Small
  Large = Large
  Barcodes = {Small, Large}
  NoBarcode = NoBarcode
  CellCount <- MCCellCount
  MaxMoves = 1
  MaxFaults = 1
INVARIANTS
  LoopsSurvive
  NoLostUpdate
  SlotsFollowMapping
  ViewsAgree
  CurrentRowsAreCaptures
PROPERTIES
  FailureKeepsData
