SPECIFICATION PartsSpec
CONSTANTS
  s1 = s1
  s2 = s2
  p1 = p1
  p2 = p2
  e1 = e1
  e2 = e2
  Off = Off
  Stream = {s1, s2}
  LastEpoch = 3
  StreamLoads <- MCStreamLoads
  Prompt = {"p", "q", "c"}
  Continue = {"c"}
  Message = {"s", "i", "f", "n"}
  Source <- MessageSource
  Limit <- OneOfEach
  MaxTruncated = 1
  SessionLoads <- LoopLoads
  Instance = {1, 2}
  Session = {1, 2}
  Effect <- ToolEffects
  SetTools <- ToolsOfSet
  SourceTool = {"x"}
  CatalogNames = {"r", "w", "m"}
  DefaultTimeout = 5
  ModelTokens = 3
  ProfileLoads <- MCProfileLoads
  Server = {1, 2}
  Request = {"a", "b", "c"}
  ServingLoads <- MCServingLoads
  Buffer = 1
  Batch = 1
  RingCap = 2
  EmptyReads = 3
  FeedLoads <- MCFeedLoads
INVARIANTS NoMessageIsLost RunsAreWhole ToolsAreServed DeliveredInOrder StreamsFollowTheRecord FeedsHaveTheirUsers RepliesAreTheModels ConversationIsKept DefinitionsHold RequestsServed 
PROPERTIES PartsEnd
CHECK_DEADLOCK FALSE
