SPECIFICATION FairSpec
CONSTANTS
  a = a
  b = b
  NONE = NONE
  WordMod = 8
  DwordMod = 16
  Threads <- MCThreads
  Names <- MCNames
  NameHash <- MCNameHash
  Menu <- MCShortMenu
  SavedAccounts <- MCAccounts
  SavedTransactions <- MCTransactions
PROPERTIES HandlersReturn ThreadsEnd
