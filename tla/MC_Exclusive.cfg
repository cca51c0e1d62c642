SPECIFICATION ExclusiveSpec
CONSTANTS
  a = a
  b = b
  NONE = NONE
  WordMod = 3
  DwordMod = 6
  Threads <- MCThreads
  Names <- MCNames
  NameHash <- MCNameHash
  Menu <- MCMenu
  SavedAccounts <- MCAccounts
  SavedTransactions <- MCTransactions
INVARIANTS ExclusiveInv BalanceMatchesLedger
PROPERTIES ImplementsBank NoOverdraft SocketsKept
SYMMETRY Symmetric
