---------------------------- MODULE CNP_ServerDB ----------------------------
(***************************************************************************)
(* The tables of the server and the records they hold: std::map keyed by   *)
(* account and by transaction ID (src/Server/CNP_ServerDB.h, .cpp), the    *)
(* balance arithmetic and the customer ID derived from a name and a PIN.   *)
(* A std::map is a function whose domain is its set of keys.               *)
(***************************************************************************)
EXTENDS CNP_Protocol, FiniteSets

CONSTANTS
  Names,      \* first names clients type, "" included
  NameHash    \* the DWORD that FNV1A_Hash computes for each name

ASSUME NameAssumption ==
  /\ "" \in Names
  /\ NameHash \in [Names -> DWORD]

QWORD == Nat

INVALID_CUSTOMER_ID == 0
INVALID_BALANCE     == DwordMod - 1

IsValidCustomerID(qwID) == qwID # INVALID_CUSTOMER_ID
IsValidPIN(wPIN)        == wPIN # INVALID_PIN
IsValidName(szName)     == szName # ""

\* (dwNameHash << 16) ^ wPIN.  The shift is made in DWORD width, so it keeps
\* only the low bits of the hash; the low WORD it leaves is zero, so the
\* exclusive or is a sum.
GenerateCustomerID(szName, wPIN) ==
  ((NameHash[szName] * WordMod) % DwordMod) + wPIN

---------------------------------------------------------------------------
(* std::map *)

\* insert keeps the element already there.
Insert(map, key, value) ==
  [k \in DOMAIN map \cup {key} |-> IF k \in DOMAIN map THEN map[k] ELSE value]

Erase(map, key) == [k \in DOMAIN map \ {key} |-> map[k]]

EmptyMap == [k \in {} |-> 0]

---------------------------------------------------------------------------
(* ACCOUNT_INFO: the model keeps the balance, the one field that changes.  *)

incr_Balance(balance, amount) == (balance + amount) % DwordMod

\* Faulty variant: a signed balance.
decr_Balance_Signed(balance, amount) == balance - amount

decr_Balance(balance, amount) == (balance - amount) % DwordMod

(* TRANSACTION_INFO: the ID is the key; the time stamp is left out.        *)
TRANSACTION_INFO(amount, type, customer) ==
  [amount |-> amount, type |-> type, customer |-> customer]

Transaction == [amount : DWORD, type : TransactionTypes, customer : QWORD]

\* The IDs a history query collects: from lower_bound(start) upwards, those of
\* the customer, at most count of them.
Collect(log, customer, start, count) ==
  LET own == {i \in DOMAIN log : i >= start /\ log[i].customer = customer}
  IN  {i \in own : Cardinality({j \in own : j < i}) < count}

=============================================================================
