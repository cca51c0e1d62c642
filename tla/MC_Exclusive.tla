----------------------------- MODULE MC_Exclusive -----------------------------
(***************************************************************************)
(* Two clients of one account, whose requests interleave but for the       *)
(* charge itself.  WORD has three values, so that the third connect is     *)
(* given ID 0 and the fourth one the same.                                 *)
(***************************************************************************)
EXTENDS CNP_Refinement, TLC

CONSTANTS a, b

MCThreads  == {a, b}
MCNames    == {"", "ann", "bob"}
MCNameHash == [n \in MCNames |-> CASE n = "ann" -> 3 [] n = "bob" -> 2 [] OTHER -> 0]

Ann == GenerateCustomerID("ann", 1)

MCAccounts     == [c \in {Ann} |-> 2]
MCTransactions == [i \in {1} |-> TRANSACTION_INFO(2, "DEPOSIT", Ann)]

Connect == CONNECT_REQUEST(1, 1, g_dwValidationKey)

MCMenu == [t \in MCThreads |->
  << {Connect},
     {Connect, LOGON_REQUEST("ann", 1), CREATE_ACCOUNT_REQUEST("bob", 1)},
     {DEPOSIT_REQUEST(5), WITHDRAWAL_REQUEST(2), LOGON_REQUEST("bob", 1)},
     {STAMP_PURCHASE_REQUEST(1), DEPOSIT_REQUEST(1)} >>]

Symmetric == Permutations(MCThreads)

\* The instance is one LedgerKept (CNP_Refinement_proof) is about.
ASSUME InstanceAssumption == Balanced(SavedAccounts, SavedTransactions)
=============================================================================
