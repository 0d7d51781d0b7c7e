SPECIFICATION Spec
CONSTANTS
  MaxEcho = 2
  MaxBody = 2
  MaxTrailer = 2
  MaxBytes = 9
  MaxChunk = 3
  Streams <- MCStreams
INVARIANTS
  AnswerIsTheFirstResponse
  CompleteIsAccepted
