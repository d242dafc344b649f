SPECIFICATION FairSpec
CONSTANTS
  Fds = {f1, f2}
  MAX_KEVENT_SIZE = 2
  NoList = NoList
  Zeroed = Zeroed
  Kqueue = Kqueue
  ERROR = ERROR
  Timeouts <- SomeTimes
  StartTimeout = 5
PROPERTIES NoStarvationEver
