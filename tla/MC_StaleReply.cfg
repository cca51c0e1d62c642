SPECIFICATION ClientSpec
CONSTANTS
  NONE = NONE
  WordMod = 2
  DwordMod = 12
  Names <- MCNames
  NameHash <- MCNameHash
  Customers <- MCCustomers
  SavedCustomers <- MCSaved
  SavedTransactions <- MCTransactions
  Amounts <- MCAmounts
  MaxCommands = 4
  MaxRecords = 6
INVARIANT SuccessMeansDone
