------------------------------ MODULE MC_Serial ------------------------------
(***************************************************************************)
(* Two clients, each with an account of its own, that connect and          *)
(* disconnect one at a time; their requests interleave freely.             *)
(***************************************************************************)
EXTENDS CNP_Serial

CONSTANTS a, b

MCThreads  == {a, b}
MCNames    == {"", "ann", "bob"}
MCNameHash == [n \in MCNames |-> CASE n = "ann" -> 3 [] n = "bob" -> 2 [] OTHER -> 0]

Ann == GenerateCustomerID("ann", 1)

MCAccounts     == [c \in {Ann} |-> 14]
MCTransactions == [i \in {1, 2} |->
  IF i = 1 THEN TRANSACTION_INFO(15, "DEPOSIT", Ann)
           ELSE TRANSACTION_INFO(1, "STAMP_PURCHASE", Ann)]

Connect == CONNECT_REQUEST(1, 1, g_dwValidationKey)

\* a uses the account on disk, whose balance a deposit of 3 carries over the
\* DWORD limit; b creates its account, and once asks for nobody's.  Each may
\* start with a request that has no session behind it or with a connect that
\* fails, and b may connect a second time.
MCMenu == [t \in MCThreads |->
  IF t = a
  THEN << {Connect, CONNECT_REQUEST(1, 2, g_dwValidationKey), BALANCE_QUERY_REQUEST},
          {LOGON_REQUEST("ann", 1)},
          {DEPOSIT_REQUEST(3), WITHDRAWAL_REQUEST(5), CREATE_ACCOUNT_REQUEST("ann", 1)},
          {WITHDRAWAL_REQUEST(2), BALANCE_QUERY_REQUEST, LOGOFF_REQUEST},
          {LOGOFF_REQUEST, TRANSACTION_QUERY_REQUEST(1, 2), STAMP_PURCHASE_REQUEST(1)} >>
  ELSE << {Connect, CONNECT_REQUEST(1, 1, 0)},
          {CREATE_ACCOUNT_REQUEST("bob", 1), CREATE_ACCOUNT_REQUEST("", 1), LOGON_REQUEST("bob", 0)},
          {LOGON_REQUEST("bob", 1)},
          {DEPOSIT_REQUEST(4), STAMP_PURCHASE_REQUEST(1)},
          {WITHDRAWAL_REQUEST(3), Connect} >>]

\* The instance is one the theorems of CNP_Serial_proof are about.
ASSUME InstanceAssumption ==
  IDsEnough /\ CustomersDisjoint /\ Balanced(SavedAccounts, SavedTransactions)
==============================================================================
