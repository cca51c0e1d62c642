------------------------------- MODULE CNP_Bank -------------------------------
(***************************************************************************)
(* What the server promises its customers: accounts and a log on which     *)
(* every request acts in one step.  The threads of CNP_Messaging implement *)
(* it (CNP_Refinement) when no two of them charge one account at once; the *)
(* server process (CNP_Server) takes its tables and the record, and cuts   *)
(* the requests.                                                           *)
(***************************************************************************)
EXTENDS CNP_Ledger

CONSTANTS
  Customers,         \* customer IDs that may be used
  SavedAccounts,     \* the tables LoadServerDB finds on disk the first time
  SavedTransactions

\* The tables on disk are ones SaveServerDB has written.
ASSUME BankAssumption ==
  /\ Customers \subseteq QWORD
  /\ DOMAIN SavedAccounts \subseteq Customers
  /\ SavedAccounts \in [DOMAIN SavedAccounts -> DWORD]
  /\ IsFiniteSet(DOMAIN SavedTransactions)
  /\ DOMAIN SavedTransactions = 1 .. Cardinality(DOMAIN SavedTransactions)
  /\ SavedTransactions \in [DOMAIN SavedTransactions -> Transaction]
  /\ \A i \in DOMAIN SavedTransactions :
       SavedTransactions[i].customer \in DOMAIN SavedAccounts

VARIABLES
  accounts,    \* g_AccountInfo: customer ID -> balance
  log          \* g_TransactionInfo: transaction ID -> record

bank == <<accounts, log>>

BankInit == accounts = SavedAccounts /\ log = SavedTransactions

---------------------------------------------------------------------------
(* The requests                                                            *)

NextID == Cardinality(DOMAIN log) + 1

Record(customer, type, amount) ==
  log' = Insert(log, NextID, TRANSACTION_INFO(amount, type, customer))

Open(customer) ==
  /\ UNCHANGED log
  /\ IsValidCustomerID(customer) /\ customer \notin DOMAIN accounts
  /\ accounts' = Insert(accounts, customer, 0)

Deposit(customer, amount) ==
  /\ Record(customer, "DEPOSIT", amount)
  /\ customer \in DOMAIN accounts
  /\ accounts' = [accounts EXCEPT ![customer] = incr_Balance(@, amount)]

Withdraw(customer, type, amount) ==
  /\ type \in TransactionTypes \ {"DEPOSIT"}
  /\ Record(customer, type, amount)
  /\ customer \in DOMAIN accounts /\ amount <= accounts[customer]
  /\ accounts' = [accounts EXCEPT ![customer] = decr_Balance(@, amount)]

---------------------------------------------------------------------------
BankNext ==
  \/ \E customer \in Customers : Open(customer)
  \/ \E customer \in DOMAIN accounts, amount \in DWORD :
       \/ Deposit(customer, amount)
       \/ \E type \in TransactionTypes : Withdraw(customer, type, amount)

BankSpec == BankInit /\ [][BankNext]_bank

---------------------------------------------------------------------------
\* The tables, when nothing is said of how they fit together.
TablesWellFormed ==
  /\ DOMAIN accounts \subseteq Customers /\ BalancesOK(accounts)
  /\ LogOK(log) /\ Sequential(log)

=============================================================================
