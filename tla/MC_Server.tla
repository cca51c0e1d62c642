------------------------------- MODULE MC_Server -------------------------------
(***************************************************************************)
(* Two connections and two runs of the server, which starts with empty     *)
(* files.  One client opens an account, the other deposits on it, if it    *)
(* finds it, and takes money back.                                         *)
(***************************************************************************)
EXTENDS CNP_Server

CONSTANTS c1, c2

MCConnections == {c1, c2}
MCNames       == {""}
MCNameHash    == [n \in MCNames |-> 0]
MCCustomers   == {1}

MCAccounts     == EmptyMap
MCTransactions == EmptyMap

Ask(type, customer, amount) == [type |-> type, customer |-> customer, amount |-> amount]

MCMenu ==
  [c \in MCConnections |->
     IF c = c1
     THEN <<{Ask("CONNECT", 0, 0)}, {Ask("CREATE_ACCOUNT", 1, 0)}>>
     ELSE <<{Ask("CONNECT", 0, 0)}, {Ask("DEPOSIT", 1, 2)}, {Ask("WITHDRAWAL", 1, 1)}>>]

\* The instance is one FilesStayBalanced (CNP_Server_proof) is about.
ASSUME InstanceAssumption == CustomersApart /\ Balanced(SavedAccounts, SavedTransactions)
==============================================================================
