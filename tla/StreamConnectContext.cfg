SPECIFICATION Spec
CONSTANTS
  reader = reader
  writer = writer
  closer = closer
  notify = notify
  notifyAndDisconnect = notifyAndDisconnect
  NoCallback = NoCallback
  Backends <- MCBackends
  Reader = reader
  Writer = writer
  Closers <- MCClosers
  Threads <- MCThreads
  Callbacks <- MCCallbacks
  ReentrantCallbacks <- MCReentrant
  MaxErrors = 2
CHECK_DEADLOCK FALSE
PROPERTIES ConnectReturnsOnceCtxDone
