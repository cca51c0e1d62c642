------------------------------ MODULE MC_Races ------------------------------
(***************************************************************************)
(* Two clients that know the same names and PINs, in every interleaving of *)
(* their connects, requests and disconnects.                               *)
(***************************************************************************)
EXTENDS CNP_Properties, TLC

CONSTANTS a, b

MCThreads  == {a, b}
MCNames    == {"", "ann", "bob"}
MCNameHash == [n \in MCNames |-> CASE n = "ann" -> 3 [] n = "bob" -> 2 [] OTHER -> 0]

Ann == GenerateCustomerID("ann", 1)

MCAccounts     == [c \in {Ann} |-> 2]
MCTransactions == [i \in {1} |-> TRANSACTION_INFO(2, "DEPOSIT", Ann)]

\* Both log on to ann's account, or both create bob's.
MCMenu == [t \in MCThreads |->
  << {CONNECT_REQUEST(1, 1, g_dwValidationKey)},
     {LOGON_REQUEST("ann", 1), CREATE_ACCOUNT_REQUEST("bob", 1)},
     {DEPOSIT_REQUEST(1), WITHDRAWAL_REQUEST(2), LOGON_REQUEST("bob", 1)},
     {STAMP_PURCHASE_REQUEST(1), DEPOSIT_REQUEST(1), BALANCE_QUERY_REQUEST,
      TRANSACTION_QUERY_REQUEST(1, 1), LOGOFF_REQUEST} >>]

\* A shorter script, for the liveness run.
MCShortMenu == [t \in MCThreads |->
  << {CONNECT_REQUEST(1, 1, g_dwValidationKey)},
     {LOGON_REQUEST("ann", 1), CREATE_ACCOUNT_REQUEST("bob", 1)},
     {DEPOSIT_REQUEST(1)} >>]

Symmetric == Permutations(MCThreads)
=============================================================================
