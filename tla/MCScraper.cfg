CONSTANTS
  StartBlock = 1
  EndBlock = 5
  ShardSize = 2
  Workers = {w1, w2}
  QueueSize = 1
  MaxFailures = 2
  MaxKills = 2
SPECIFICATION FairSpec
INVARIANTS
  TypeOK
  BlocksAccountedFor
  CheckpointIsDurable
  StreamAscends
  VerifiersAgree
  DoneIsVerified
PROPERTIES
  ImplementsScrape
