SPECIFICATION ProcessSpec
CONSTANTS
  watcher = watcher
  connector = connector
  Connector = connector
  closer1 = closer1
  closer2 = closer2
  notify = notify
  notifyAndDisconnect = notifyAndDisconnect
  NoCallback = NoCallback
  Watcher = watcher
  Closers <- MCClosers
  Threads <- MCThreads
  Callbacks <- MCCallbacks
  ReentrantCallbacks <- MCReentrant
  MaxErrors = 0
CHECK_DEADLOCK FALSE
PROPERTIES DisconnectWaitsForOnClose
