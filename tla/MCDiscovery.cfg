SPECIFICATION Spec
CONSTANTS
  Positions = {1, 2, 3}
  Barcodes = {A, B, C}
  NoBarcode = NoBarcode
  Witness = A
  CycleReplies <- MCReplies
INVARIANTS
  MappingAgrees
  EventsTellPresence
  OneStoryPerModule
PROPERTIES
  KnownModulesStayKnown
  QuietWhenUnchanged
