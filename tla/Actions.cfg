CONSTANTS
  store = store  child = child  other = other
  Node = {store, child, other}
  Up <- MCUp
  Subject = store
  recorder = recorder  logger = logger
  Middleware = {recorder, logger}
  Recorder = recorder
  Arg = {"json", "date"}
  SkipsHooks = {logger}
  MaxCalls = 3
  MaxDepth = 2
  MaxLists = 3
SPECIFICATION Spec
INVARIANT UnlockedWhileRunning PassesWhatItStartedWith OutermostRecorded WritesPassThrough
\* A program stops when it has made the calls and the changes that are bounded.
CHECK_DEADLOCK FALSE
