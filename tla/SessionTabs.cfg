SPECIFICATION TabsSpec
CONSTANTS
  connector = connector
  watcher = watcher
  closer = closer
  closeTab = closeTab
  closeAndDisconnect = closeAndDisconnect
  stdout = stdout
  stderr = stderr
  NoCallback = NoCallback
  Connector = connector
  Watcher = watcher
  CloseTab = closeTab
  Closers <- MCClosers
  Threads <- MCThreads
  Callbacks <- MCCallbacks
  ReentrantCallbacks <- MCReentrant
  Streams <- MCStreams
  MaxErrors = 1
  MaxChunks = 2
  MaxScreens = 2
  FrameSlots = 1
CHECK_DEADLOCK FALSE
INVARIANTS TabsTypeOK OneCloser NoOrphan TabStaysWithSession OutputComplete
PROPERTIES ImplementsContract EndIsReported DisconnectReturns TabClosesWithSession ViewEnds
