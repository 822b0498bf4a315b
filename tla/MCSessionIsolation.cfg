CONSTANTS
  Topics <- MCTopics
  KeyOf <- MCKeyOf
  NoKey = NoKey
  RetryLimit = 2
  RetryDrop = 1
  QosOf <- MCQosOf
  MaxSize <- MCMaxSize
  StarvationLimit = 2
  MaxPublished = 5
  Channels <- QosClass
  ChannelOf <- MCQosOf
  ClassOf <- MCClassOf
  QueueSize <- MCMaxSize
  PendingCap = 2
  MaxPublish = 4
  MaxSubscribers = 2
  Sockets = {a, b, c}
  RoomChannels <- MCRoomChannels
  RoomSessions = {"s"}
  RoomJobs = {"j"}
  MaxEvents = 1
  Histories = {"d", "e"}
  Writers = {"proxy", "crawl"}
  CommentClients = {"a", "b"}
  MaxFlows = 2
  MaxComments = 2
  Sessions = {"s", "t"}
  SessionCallers = {"a", "b"}
  Scopes = {"v"}
  MaxRequests = 4
  Parts = {"session"}
SPECIFICATION MessagingSpec
INVARIANT SessionFilesIsolated
CHECK_DEADLOCK FALSE
