SPECIFICATION Spec
CONSTANTS
  DevSeq <- MCDevs
  PD <- MCPD
  Asks <- MCAsks
  NumSlots = 7
  MaxReq = 3
  MaxOpen = 2
  MaxTasks = 2
  MaxErrs = 1
  Refuses = "steady"
  Timely = TRUE
  QuietStop = TRUE
  Unmarked = TRUE
INVARIANTS TypeOK SentInOrder SentWhenReady PipelineAligned RequestKept Sendable
