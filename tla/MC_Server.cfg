SPECIFICATION ServerSpec
CONSTANTS
  c1 = c1
  c2 = c2
  NONE = NONE
  WordMod = 2
  DwordMod = 4
  Names <- MCNames
  NameHash <- MCNameHash
  Customers <- MCCustomers
  SavedAccounts <- MCAccounts
  SavedTransactions <- MCTransactions
  Connections <- MCConnections
  Menu <- MCMenu
  MaxRuns = 2
INVARIANTS ServerTypeOK AcknowledgedKept FilesBalanced LoadedIDsSequential SocketsOutliveThreads ServerInv BooksInv
PROPERTIES ShutdownCompletes RequestsAnswered
