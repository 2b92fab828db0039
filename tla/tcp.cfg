SPECIFICATION FairSpec
CONSTANTS
  Conns = {c1}
  Users = {u1}
  UserOps = {"post", "shutdown", "force_close"}
  Listener = Listener
  None = None
  MaxIn = 1
  MaxOut = 2
  MaxFunctors = 2
INVARIANTS TcpInv  EpollInSync FlushedBeforeFin
PROPERTIES LostIsDestroyed DisconnectEnds
CHECK_DEADLOCK FALSE
