CONSTANTS
  Modes = {"translate", "passthrough", "aggregate"}
  Formats = {"openai", "anthropic", "responses"}
  Capacity = 1
  IdleTimeout = 2
  Keepalive = 1
  MaxFrames = 2
SPECIFICATION FairSpec
 
PROPERTY EveryStreamEnds
CHECK_DEADLOCK FALSE
