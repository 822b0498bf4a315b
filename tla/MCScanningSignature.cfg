SPECIFICATION ScanningSpec
CONSTANTS
  Topics = {"finding", "flow"}
  Channels = {"finding", "flow"}
  ChannelOf <- mcChannelOf
  ClassOf <- mcClassOf
  QueueSize <- mcQueueSize
  KeyOf <- mcKeyOf
  NoKey = NoKey
  RetryLimit = 1
  RetryDrop = 1
  PendingCap = 1
  MaxPublish = 1
  MaxSubscribers = 1
  Plugins = {"p", "q"}
  MaxFlows = 2
  MaxToggles = 2
  Payloads = 3
  Aggressive = TRUE
  Points = {"u", "v"}
  MaxPoints = 2
  Scanners = {"a", "b", "c"}
  StageKind <- mcStageKind
  OobPayloads = 4
  Life = 2
  MaxTests = 2
INVARIANT SignatureExcludesDifferential
CHECK_DEADLOCK FALSE
