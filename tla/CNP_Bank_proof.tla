--------------------------- MODULE CNP_Bank_proof ---------------------------
(***************************************************************************)
(* Proofs that the bank keeps its books: every balance is what the log     *)
(* says of it.  The lemma on a record serves the server's life too.        *)
(***************************************************************************)
EXTENDS CNP_Bank, CNP_Ledger_proof

\* A request, or none.
BankMove ==
  \/ UNCHANGED bank
  \/ \E customer \in Customers : Open(customer)
  \/ \E customer \in Customers, amount \in DWORD :
       Deposit(customer, amount) \/ \E type \in TransactionTypes : Withdraw(customer, type, amount)

\* A transaction, as one formula.
Charge(customer, type, amount) ==
  /\ Record(customer, type, amount)
  /\ customer \in DOMAIN accounts
  /\ accounts' = [accounts EXCEPT ![customer] =
       IF type = "DEPOSIT" THEN incr_Balance(accounts[customer], amount)
       ELSE decr_Balance(accounts[customer], amount)]

\* What a move is: nothing, a new account, a transaction.
LEMMA MoveCases ==
  ASSUME BankMove
  PROVE  \/ UNCHANGED bank
         \/ \E customer \in Customers : Open(customer)
         \/ \E customer \in Customers, amount \in DWORD, type \in TransactionTypes :
              Charge(customer, type, amount)
  <1>1. ASSUME NEW customer \in Customers, NEW amount \in DWORD, Deposit(customer, amount)
        PROVE  Charge(customer, "DEPOSIT", amount) /\ "DEPOSIT" \in TransactionTypes
    BY <1>1 DEF Deposit, Charge, TransactionTypes
  <1>2. ASSUME NEW customer \in Customers, NEW amount \in DWORD, NEW type \in TransactionTypes,
               Withdraw(customer, type, amount)
        PROVE  Charge(customer, type, amount)
    BY <1>2 DEF Withdraw, Charge
  <1> QED
    BY <1>1, <1>2 DEF BankMove

---------------------------------------------------------------------------
(* One move                                                                *)

\* A record comes under the next ID, which is free.
LEMMA RecordFacts ==
  ASSUME TablesWellFormed, NEW customer \in Customers, NEW amount \in DWORD,
         NEW type \in TransactionTypes, Record(customer, type, amount)
  PROVE  /\ NextID \in Nat \ {0} /\ NextID \notin DOMAIN log
         /\ DOMAIN log' = DOMAIN log \cup {NextID}
         /\ log'[NextID] = TRANSACTION_INFO(amount, type, customer)
         /\ \A i \in DOMAIN log : log'[i] = log[i]
         /\ LogOK(log') /\ Sequential(log')
  <1> DEFINE tr == TRANSACTION_INFO(amount, type, customer)
  <1>1. tr \in Transaction
    BY BankAssumption DEF TRANSACTION_INFO, Transaction
  <1>2. log' = Insert(log, NextID, tr) /\ NextID = Cardinality(DOMAIN log) + 1
    BY DEF Record, NextID
  <1> HIDE DEF tr
  <1>3. LogOK(log) /\ Sequential(log)
    BY DEF TablesWellFormed
  <1>4. /\ NextID \in Nat \ {0} /\ NextID \notin DOMAIN log
        /\ DOMAIN Insert(log, NextID, tr) = DOMAIN log \cup {NextID}
        /\ Insert(log, NextID, tr)[NextID] = tr
        /\ \A i \in DOMAIN log : Insert(log, NextID, tr)[i] = log[i]
        /\ LogOK(Insert(log, NextID, tr)) /\ Sequential(Insert(log, NextID, tr))
    BY <1>1, <1>2, <1>3, SequentialInsert
  <1> QED
    BY <1>2, <1>4 DEF tr

\* A transaction changes the balance of an account that is there, besides.
LEMMA ChargeFacts ==
  ASSUME TablesWellFormed, NEW customer \in Customers, NEW amount \in DWORD,
         NEW type \in TransactionTypes, Charge(customer, type, amount)
  PROVE  /\ NextID \notin DOMAIN log
         /\ DOMAIN log' = DOMAIN log \cup {NextID}
         /\ log'[NextID] = TRANSACTION_INFO(amount, type, customer)
         /\ \A i \in DOMAIN log : log'[i] = log[i]
         /\ LogOK(log') /\ Sequential(log')
         /\ DOMAIN accounts' = DOMAIN accounts /\ BalancesOK(accounts')
  <1>1. accounts[customer] \in DWORD
    BY DEF Charge, TablesWellFormed, BalancesOK
  <1>2. /\ incr_Balance(accounts[customer], amount) \in DWORD
        /\ decr_Balance(accounts[customer], amount) \in DWORD
    BY <1>1, BalanceUndo
  <1>3. DOMAIN accounts' = DOMAIN accounts /\ BalancesOK(accounts')
    BY <1>2 DEF Charge, TablesWellFormed, BalancesOK
  <1> QED
    BY <1>3, RecordFacts DEF Charge

\* Opening an account adds it with no balance and does nothing else.
LEMMA OpenFacts ==
  ASSUME TablesWellFormed, NEW customer \in Customers, Open(customer)
  PROVE  /\ log' = log
         /\ DOMAIN accounts' = DOMAIN accounts \cup {customer} /\ BalancesOK(accounts')
  <1>1. 0 \in DWORD
    BY WidthAssumption DEF DWORD
  <1> QED
    BY <1>1 DEF Open, Insert, TablesWellFormed, BalancesOK

\* The tables stay well formed, no account goes, and the log only grows.
LEMMA MoveKeepsTables ==
  ASSUME TablesWellFormed, BankMove
  PROVE  /\ TablesWellFormed'
         /\ DOMAIN accounts \subseteq DOMAIN accounts'
         /\ \A i \in DOMAIN log : i \in DOMAIN log' /\ log'[i] = log[i]
  <1>1. CASE UNCHANGED bank
    BY <1>1 DEF bank, TablesWellFormed
  <1>2. CASE \E customer \in Customers : Open(customer)
    BY <1>2, OpenFacts DEF TablesWellFormed
  <1>3. CASE \E customer \in Customers, amount \in DWORD, type \in TransactionTypes :
               Charge(customer, type, amount)
    BY <1>3, ChargeFacts DEF TablesWellFormed
  <1> QED
    BY <1>1, <1>2, <1>3, MoveCases

\* No record loses its account.
LEMMA MoveKeepsRecords ==
  ASSUME TablesWellFormed, RecordsHaveAccounts(accounts, log), BankMove
  PROVE  RecordsHaveAccounts(accounts', log')
  <1>1. CASE UNCHANGED bank
    BY <1>1 DEF bank
  <1>2. ASSUME NEW customer \in Customers, Open(customer)
        PROVE  RecordsHaveAccounts(accounts', log')
    BY <1>2, OpenFacts DEF RecordsHaveAccounts
  <1>3. ASSUME NEW customer \in Customers, NEW amount \in DWORD, NEW type \in TransactionTypes,
               Charge(customer, type, amount)
        PROVE  RecordsHaveAccounts(accounts', log')
    <2>1. /\ DOMAIN accounts' = DOMAIN accounts /\ customer \in DOMAIN accounts
          /\ DOMAIN log' = DOMAIN log \cup {NextID}
          /\ log'[NextID] = TRANSACTION_INFO(amount, type, customer)
          /\ \A i \in DOMAIN log : log'[i] = log[i]
      BY <1>3, ChargeFacts DEF Charge
    <2> QED
      BY <2>1 DEF RecordsHaveAccounts, TRANSACTION_INFO
  <1> QED
    BY <1>1, <1>2, <1>3, MoveCases

\* Balances and log change together.
LEMMA MoveKeepsBalance ==
  ASSUME TablesWellFormed, RecordsHaveAccounts(accounts, log), Balanced(accounts, log), BankMove
  PROVE  Balanced(accounts', log')
  <1>1. CASE UNCHANGED bank
    BY <1>1 DEF bank
  <1>2. ASSUME NEW customer \in Customers, Open(customer)
        PROVE  Balanced(accounts', log')
    <2>1. /\ accounts' = Insert(accounts, customer, 0) /\ log' = log
          /\ customer \notin DOMAIN accounts
      BY <1>2 DEF Open
    <2> QED
      BY <2>1, BalancedOpen DEF TablesWellFormed, RecordsHaveAccounts
  <1>3. ASSUME NEW customer \in Customers, NEW amount \in DWORD, NEW type \in TransactionTypes,
               Charge(customer, type, amount)
        PROVE  Balanced(accounts', log')
    <2> DEFINE value == IF type = "DEPOSIT" THEN incr_Balance(accounts[customer], amount)
                        ELSE decr_Balance(accounts[customer], amount)
    <2>1. /\ accounts' = [accounts EXCEPT ![customer] = value]
          /\ log' = Insert(log, NextID, TRANSACTION_INFO(amount, type, customer))
          /\ customer \in DOMAIN accounts /\ customer \in QWORD
      BY <1>3, BankAssumption DEF Charge, Record
    <2>2. NextID \notin DOMAIN log
      BY <1>3, ChargeFacts
    <2>3. value = IF type = "DEPOSIT" THEN incr_Balance(accounts[customer], amount)
                  ELSE decr_Balance(accounts[customer], amount)
      OBVIOUS
    <2> HIDE DEF value
    <2> QED
      BY <2>1, <2>2, <2>3, BalancedCharge DEF TablesWellFormed
  <1> QED
    BY <1>1, <1>2, <1>3, MoveCases

---------------------------------------------------------------------------
(* The bank                                                                *)

BankInv ==
  /\ TablesWellFormed
  /\ RecordsHaveAccounts(accounts, log)
  /\ Balanced(accounts, log)

\* A step of the bank is a move.
LEMMA BankNextMoves ==
  ASSUME TablesWellFormed, [BankNext]_bank
  PROVE  BankMove
  BY DEF TablesWellFormed, BankNext, BankMove

\* If the saved balances are what the saved log says, every balance is for
\* ever what the log says: no request of the abstract bank changes the one
\* without the other.
THEOREM BooksBalance ==
  Balanced(SavedAccounts, SavedTransactions) /\ BankSpec => []Balanced(accounts, log)
  <1>1. Balanced(SavedAccounts, SavedTransactions) /\ BankInit => BankInv
    BY BankAssumption DEF BankInit, BankInv, TablesWellFormed, BalancesOK, LogOK, Sequential,
                          RecordsHaveAccounts
  <1>2. BankInv /\ [BankNext]_bank => BankInv'
    BY BankNextMoves, MoveKeepsTables, MoveKeepsRecords, MoveKeepsBalance DEF BankInv
  <1>3. BankInv => Balanced(accounts, log)
    BY DEF BankInv
  <1> QED
    BY <1>1, <1>2, <1>3, PTL DEF BankSpec

=============================================================================
