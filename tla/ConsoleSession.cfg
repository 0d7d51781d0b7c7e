SPECIFICATION FairSpec
CONSTANTS
  Commands = {bat}
  LateAnswers = FALSE
  MinDelay = 1
  MaxDelay = 3
  MaxFaults = 4
INVARIANTS
  TypeOK
  CommandsOnVerifiedSession
  LoginOnlyInUserMode
  AnswerBelongsToRequest
  OneOutstandingWhileServing
  HealthFollowsVerification
  NoImplicitReconnect
PROPERTIES
  BackoffGrows
  ServiceRecovers
  StopCompletes
  ImplementsSession
