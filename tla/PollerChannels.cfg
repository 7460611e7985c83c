SPECIFICATION FairSpec
CONSTANTS
  Channels = {w, l, a, b}
  Fds = {1, 2, 3}
  InitSize = 2
  NoChannel = NoChannel
  Wakeup = w
  First = l
  WakeupFd = 1
  FirstFd = 2
INVARIANTS TypeOK NoAssertionFails EpollAgrees
PROPERTIES ReadyHandled
