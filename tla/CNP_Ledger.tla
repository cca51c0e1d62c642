----------------------------- MODULE CNP_Ledger -----------------------------
(***************************************************************************)
(* What a log of transactions (g_TransactionInfo) says of the balances of  *)
(* the accounts: the sum that the properties of the threads, of the bank   *)
(* and of the server's files compare a balance with.                       *)
(***************************************************************************)
EXTENDS CNP_ServerDB, FiniteSetsExt

Signed(tr) == IF tr.type = "DEPOSIT" THEN tr.amount ELSE 0 - tr.amount

\* The IDs of the records of an account.
RecordsOf(records, customer) == {i \in DOMAIN records : records[i].customer = customer}

SumOf(records, ids) == MapThenSumSet(LAMBDA i : Signed(records[i]), ids)

LedgerOf(records, customer) == SumOf(records, RecordsOf(records, customer))

\* Each balance is what the records of the account add up to.
Balanced(balances, records) ==
  \A customer \in DOMAIN balances :
    balances[customer] = LedgerOf(records, customer) % DwordMod

\* A log and a table of balances as the server keeps them.
LogOK(records) ==
  IsFiniteSet(DOMAIN records) /\ records \in [DOMAIN records -> Transaction]

BalancesOK(balances) == balances \in [DOMAIN balances -> DWORD]

\* The IDs of a log are 1 .. n.
Sequential(records) == DOMAIN records = 1 .. Cardinality(DOMAIN records)

\* Every record has its account.
RecordsHaveAccounts(balances, records) ==
  \A i \in DOMAIN records : records[i].customer \in DOMAIN balances

=============================================================================
