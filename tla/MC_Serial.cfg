SPECIFICATION SerialSpec
CONSTANTS
  a = a
  b = b
  NONE = NONE
  WordMod = 8
  DwordMod = 16
  Threads <- MCThreads
  Names <- MCNames
  NameHash <- MCNameHash
  Menu <- MCMenu
  SavedAccounts <- MCAccounts
  SavedTransactions <- MCTransactions
INVARIANTS UniqueClientIDs ClientsOwnTheirSessions RepliesAnswerRequests ActsForItsClient ExclusiveAccounts BalanceMatchesLedger SerialIDsInv
PROPERTIES NoOverdraft
