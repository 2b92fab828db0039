SPECIFICATION FairPeerSpec
CONSTANTS
  Calls = {s1, a1}
  AsyncCalls = {a1}
  NoCall = NoCall
  RequestIdSpace = 3
  MaxConnects = 1
  PeerFrames = {"ok", "err", "badmagic", "noparse"}
  MaxNoise = 1
INVARIANTS NoTouchAfterReturn
PROPERTIES CallContract SweptCallsReturn CallsComplete
CHECK_DEADLOCK FALSE
