SPECIFICATION FairSpec
CONSTANTS
  Calls = {s1, a1}
  AsyncCalls = {a1}
  NoCall = NoCall
  RequestIdSpace = 3
  MaxConnects = 1
  PeerFrames = {"ok"}
  MaxNoise = 0
PROPERTY PendingCallsWoken
CHECK_DEADLOCK FALSE
