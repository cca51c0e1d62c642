---------------------------- MODULE CNP_Refinement ----------------------------
(***************************************************************************)
(* The threads of CNP_Messaging implement the atomic requests of CNP_Bank  *)
(* as long as no two of them are charging the same account: the promise    *)
(* the comment above incr_Balance and decr_Balance relies on ("No mapped   *)
(* values are accessed") and no lock enforces.  Everything else, duplicate *)
(* client IDs and sessions erased under a handler included, may happen.    *)
(***************************************************************************)
EXTENDS CNP_Properties

ExclusiveAccounts ==
  \A t, u \in Threads :
    t # u /\ stage[t] \in ChargeStages /\ stage[u] \in ChargeStages
      => frame[t].customer # frame[u].customer

ExclusiveSpec == Init /\ [][Next /\ ExclusiveAccounts']_vars

---------------------------------------------------------------------------
(* The refinement mapping.  A transaction takes place when its record is   *)
(* inserted; until then the balance it has stored is not committed yet.    *)

RecordStages == {"transLock", "transSize", "transInsert"}

Unrecorded(c) == {t \in Threads : stage[t] \in RecordStages /\ frame[t].customer = c}

BalanceBefore(t) ==
  IF Type(t) = "DEPOSIT" THEN decr_Balance(Balance(t), Body(t).amount)
  ELSE incr_Balance(Balance(t), Body(t).amount)

Committed ==
  [c \in DOMAIN g_AccountInfo |->
     IF Unrecorded(c) = {} THEN g_AccountInfo[c]
     ELSE BalanceBefore(CHOOSE t \in Unrecorded(c) : TRUE)]

AllCustomers ==
  {GenerateCustomerID(szName, wPIN) : szName \in Names, wPIN \in WORD}
    \cup DOMAIN SavedAccounts

Bank == INSTANCE CNP_Bank WITH
          Customers <- AllCustomers, accounts <- Committed, log <- g_TransactionInfo

\* Every step of the threads is one request of the bank or none: a balance
\* and its record change together, from the balance the request was checked
\* against, under the next ID, whatever else the other threads do.
ImplementsBank == Bank!BankSpec

\* The inductive invariant behind it: what a handler has read of its account
\* is still so, a withdrawal it has checked is still covered (or, once stored,
\* can be undone), and an account is created only for valid credentials.
ChargeOK(t, s, f) ==
  /\ s \in {"incr", "decrWrite"} => f.value = g_AccountInfo[f.customer]
  /\ s \in {"decrRead", "decrWrite"} => f.msg.body.amount <= g_AccountInfo[f.customer]
  /\ s \in {"incr"} => f.msg.hdr.type = "DEPOSIT"
  /\ s \in {"decrRead", "decrWrite"} => f.msg.hdr.type # "DEPOSIT"
  /\ s \in RecordStages /\ f.msg.hdr.type # "DEPOSIT" =>
       g_AccountInfo[f.customer] + f.msg.body.amount < DwordMod
  /\ s \in {"createLock", "createInsert"} =>
       f.customer \in AllCustomers /\ IsValidCustomerID(f.customer)

ExclusiveInv ==
  /\ IInv
  /\ ExclusiveAccounts
  /\ DOMAIN g_AccountInfo \subseteq AllCustomers
  /\ \A t \in Threads : ChargeOK(t, stage[t], frame[t])

\* A session answers on one socket from its connect to its end.  When client
\* IDs are given twice, as happens for good once they have wrapped past
\* INVALID_CLIENT_ID, the later connect does not take the session over.
SocketsKept ==
  [][\A i \in DOMAIN g_SessionInfo \cap DOMAIN g_SessionInfo' :
       g_SessionInfo'[i].m_pSocket = g_SessionInfo[i].m_pSocket]_vars

==============================================================================
