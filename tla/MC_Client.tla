------------------------------- MODULE MC_Client -------------------------------
(***************************************************************************)
(* The customer 1 has five records, a full page.  Others open the account  *)
(* 2 and add records of both customers while the client is at work.        *)
(***************************************************************************)
EXTENDS CNP_Client

MCNames     == {""}
MCNameHash  == [n \in MCNames |-> 0]
MCCustomers == {1, 2}
MCAmounts   == {1}

MCSaved        == {1}
MCTransactions == [i \in 1 .. 5 |-> [customer |-> 1]]

\* The instance is one the theorems of CNP_Client_proof are about.
ASSUME InstanceAssumption == LogFits
==============================================================================
