------------------------ MODULE CNP_Refinement_proof ------------------------
(***************************************************************************)
(* Proofs that the threads implement the atomic requests of CNP_Bank, and  *)
(* keep every balance equal to its ledger, as long as no two of them are   *)
(* charging the same account.                                              *)
(***************************************************************************)
EXTENDS CNP_Refinement, CNP_Messaging_proof, CNP_Ledger_proof

\* Stages of which ChargeOK says something.
ChargeOKStages ==
  {"incr", "decrRead", "decrWrite", "createLock", "createInsert"} \cup RecordStages

---------------------------------------------------------------------------
(* One step of one thread                                                  *)

\* Which steps lead into the stages of a charge or of an account creation.
Enters(t) ==
  \/ DepositRead(t) \/ WithdrawCheck(t) \/ WithdrawRead(t)
  \/ DepositWrite(t) \/ WithdrawWrite(t)
  \/ TransactionLock(t) \/ TransactionSize(t)
  \/ CreateFind(t) \/ CreateLock(t)

\* What a step of t leaves of the others, and what it is when t gets, or
\* stays, where ChargeOK says something.
LEMMA StepShape ==
  ASSUME IInv, NEW t \in Threads, ClientStep(t) \/ ServerStep(t)
  PROVE  /\ \A u \in Threads \ {t} :
              /\ stage'[u] = stage[u] /\ frame'[u].msg = frame[u].msg
              /\ frame'[u].customer = frame[u].customer /\ frame'[u].value = frame[u].value
         /\ \/ Enters(t)
            \/ stage'[t] \notin ChargeOKStages
            \/ stage'[t] = stage[t] /\ frame'[t] = frame[t] /\ UNCHANGED tables
  <1> USE DEF At, Goto, Finish, ChargeOKStages, RecordStages
  <1>0. /\ stage \in [Threads -> Stages] /\ frame \in [Threads -> Frame]
        /\ \A u \in Threads : frame[u] \in Frame
    BY DEF IInv, TypeOK, ThreadsOK
  <1>1. CASE ReceiveResponse(t) \/ Close(t)
    BY <1>0, <1>1 DEF ReceiveResponse, Close
  <1>2. CASE SendRequest(t)
    <2>1. \A type : FirstStage(type) \in {"connect", "find"}
      BY DEF FirstStage
    <2> QED
      BY <1>0, <1>2, <2>1 DEF SendRequest
  <1>3. CASE DisconnectErase(t)
    <2>1. /\ stage' = [stage EXCEPT ![t] = "exited"]
          /\ \A u \in Threads : \E b : frame'[u] = [frame[u] EXCEPT !.stale = b]
      BY <1>3 DEF DisconnectErase
    <2>2. \A u \in Threads : /\ frame'[u].msg = frame[u].msg
                             /\ frame'[u].customer = frame[u].customer
                             /\ frame'[u].value = frame[u].value
      BY <1>0, <2>1 DEF Frame
    <2> QED
      BY <1>0, <2>1, <2>2
  <1>4. CASE \/ ReceiveEnd(t) \/ DisconnectLock(t)
             \/ ConnectRead(t) \/ ConnectLock(t) \/ ConnectInsert(t)
    BY <1>0, <1>4 DEF ReceiveEnd, DisconnectLock, ConnectRead, ConnectLock, ConnectInsert
  <1>5. CASE FindSession(t)
    <2>1. AfterFind(Type(t)) \in {"createFind", "logonFind", "logoffRead", "customer"}
      BY DEF AfterFind
    <2> QED
      BY <1>0, <1>5, <2>1 DEF FindSession
  <1>6. CASE MissSession(t) \/ MissAccount(t) \/ ReadCustomer(t)
    BY <1>0, <1>6 DEF MissSession, MissAccount, ReadCustomer
  <1>7. CASE \/ CreateFind(t) \/ CreateLock(t) \/ CreateInsert(t)
             \/ LogonFind(t) \/ LogonWrite(t) \/ LogoffRead(t) \/ LogoffWrite(t)
    BY <1>0, <1>7 DEF CreateFind, CreateLock, CreateInsert, LogonFind, LogonWrite, LogoffRead,
                      LogoffWrite, Enters
  <1>8. CASE \/ DepositRead(t) \/ DepositWrite(t)
             \/ WithdrawCheck(t) \/ WithdrawRead(t) \/ WithdrawWrite(t)
             \/ TransactionLock(t) \/ TransactionSize(t)
    <2>1. Enters(t)
      BY <1>8 DEF Enters
    <2>2. \E s, f : Goto(t, s, f)
      BY <1>0, <1>8 DEF DepositRead, DepositWrite, WithdrawCheck, WithdrawRead, WithdrawWrite,
                        TransactionLock, TransactionSize
    <2> QED
      BY <1>0, <2>1, <2>2
  <1>9. CASE TransactionInsert(t) \/ BalanceRead(t) \/ HistoryRead(t) \/ Respond(t)
    BY <1>0, <1>9 DEF TransactionInsert, BalanceRead, HistoryRead, Respond
  <1> QED
    BY <1>1, <1>2, <1>3, <1>4, <1>5, <1>6, <1>7, <1>8, <1>9 DEF ClientStep, ServerStep

\* While one thread charges an account no step of another changes its balance.
LEMMA BalanceHeld ==
  ASSUME IInv, ExclusiveAccounts, NEW t \in Threads, ClientStep(t) \/ ServerStep(t),
         NEW u \in Threads, u # t, stage[u] \in ChargeStages
  PROVE  /\ frame[u].customer \in DOMAIN g_AccountInfo
         /\ frame[u].customer \in DOMAIN g_AccountInfo'
         /\ g_AccountInfo'[frame[u].customer] = g_AccountInfo[frame[u].customer]
  <1>1. frame[u].customer \in DOMAIN g_AccountInfo
    BY DEF IInv, CustomersHaveAccounts
  <1>2. CASE DepositWrite(t) \/ WithdrawWrite(t)
    <2>1. stage[t] \in ChargeStages
      BY <1>2 DEF DepositWrite, WithdrawWrite, At, ChargeStages
    <2>2. frame[u].customer # frame[t].customer
      BY <2>1 DEF ExclusiveAccounts
    <2> QED
      BY <1>1, <1>2, <2>2 DEF DepositWrite, WithdrawWrite
  <1>3. CASE CreateInsert(t)
    BY <1>1, <1>3 DEF CreateInsert, Insert
  <1> QED
    BY <1>1, <1>2, <1>3, TableWriters

---------------------------------------------------------------------------
(* The inductive invariant                                                 *)

\* A customer ID made from a name and a PIN that are not empty is valid.
LEMMA ValidCustomer ==
  ASSUME IInv, NEW t \in Threads, ValidCredentials(t)
  PROVE  CredentialsID(t) \in AllCustomers /\ IsValidCustomerID(CredentialsID(t))
  <1> DEFINE name == Body(t).name
             pin  == Body(t).pin
  <1>1. name \in Names /\ pin \in WORD /\ pin # 0
    BY ThreadFacts DEF ValidCredentials, IsValidPIN, INVALID_PIN
  <1> HIDE DEF name, pin
  <1>2. NameHash[name] \in Nat
    BY <1>1, NameAssumption, Widths
  <1>3. NameHash[name] * WordMod \in Int
    BY <1>2, Widths
  <1>4. (NameHash[name] * WordMod) % DwordMod \in Nat
    BY <1>3, ModInDword, Widths
  <1>5. \A n \in Nat : n + pin # 0
    BY <1>1, Widths
  <1>6. GenerateCustomerID(name, pin) # 0
    BY <1>4, <1>5 DEF GenerateCustomerID
  <1> QED
    BY <1>1, <1>6 DEF AllCustomers, CredentialsID, IsValidCustomerID, INVALID_CUSTOMER_ID,
                      name, pin

\* The steps into a charge and into an account creation.
LEMMA EntersKeepsChargeOK ==
  ASSUME ExclusiveInv, NEW t \in Threads, Enters(t)
  PROVE  ChargeOK(t, stage[t], frame[t])'
  <1> USE DEF At, Goto, Finish, RecordStages
  <1>0. /\ stage \in [Threads -> Stages] /\ frame \in [Threads -> Frame] /\ frame[t] \in Frame
        /\ stage[t] \in ChargeStages =>
             frame[t].customer \in DOMAIN g_AccountInfo /\ Type(t) \in TransactionTypes
        /\ ChargeOK(t, stage[t], frame[t]) /\ Body(t).amount \in DWORD
    <2>1. IInv
      BY DEF ExclusiveInv
    <2>2. FrameOK(t, stage[t], frame[t]) /\ frame[t] \in Frame /\ Body(t).amount \in DWORD
      BY <2>1, ThreadFacts
    <2> QED
      BY <2>1, <2>2 DEF ExclusiveInv, IInv, TypeOK, ThreadsOK, CustomersHaveAccounts, FrameOK,
                        Type
  <1>1. CASE DepositRead(t)
    <2> DEFINE f == [frame[t] EXCEPT !.value = Balance(t)]
    <2>1. stage'[t] = "incr" /\ frame'[t] = f /\ UNCHANGED g_AccountInfo
      BY <1>0, <1>1 DEF DepositRead, tables
    <2>2. /\ f.msg = frame[t].msg /\ f.customer = frame[t].customer
          /\ f.value = g_AccountInfo[frame[t].customer]
      BY <1>0 DEF Frame, Balance
    <2>3. Type(t) = "DEPOSIT"
      BY <1>1 DEF DepositRead
    <2> HIDE DEF f
    <2> QED
      BY <2>1, <2>2, <2>3 DEF ChargeOK, Type
  <1>2. CASE WithdrawCheck(t)
    <2>1. /\ stage'[t] \in {"decrRead", "respond"} /\ UNCHANGED g_AccountInfo
          /\ stage'[t] = "decrRead" =>
               frame'[t] = frame[t] /\ Body(t).amount <= Balance(t)
      BY <1>0, <1>2 DEF WithdrawCheck, tables
    <2>2. Type(t) # "DEPOSIT"
      BY <1>2 DEF WithdrawCheck
    <2> QED
      BY <2>1, <2>2 DEF ChargeOK, Type, Body, Balance
  <1>3. CASE WithdrawRead(t)
    <2> DEFINE f == [frame[t] EXCEPT !.value = Balance(t)]
    <2>1. stage[t] = "decrRead" /\ stage'[t] = "decrWrite" /\ frame'[t] = f
          /\ UNCHANGED g_AccountInfo
      BY <1>0, <1>3 DEF WithdrawRead, tables
    <2>2. /\ f.msg = frame[t].msg /\ f.customer = frame[t].customer
          /\ f.value = g_AccountInfo[frame[t].customer]
      BY <1>0 DEF Frame, Balance
    <2> HIDE DEF f
    <2> QED
      BY <1>0, <2>1, <2>2 DEF ChargeOK
  <1>4. CASE DepositWrite(t)
    <2>1. stage[t] = "incr" /\ stage'[t] = "transLock" /\ frame'[t] = frame[t]
      BY <1>0, <1>4 DEF DepositWrite
    <2> QED
      BY <1>0, <2>1 DEF ChargeOK
  <1>5. CASE WithdrawWrite(t)
    <2> DEFINE v == frame[t].value
               a == Body(t).amount
    <2>1. /\ stage[t] = "decrWrite" /\ stage'[t] = "transLock" /\ frame'[t] = frame[t]
          /\ g_AccountInfo' = [g_AccountInfo EXCEPT ![frame[t].customer] = decr_Balance(v, a)]
      BY <1>0, <1>5 DEF WithdrawWrite
    <2>2. /\ frame[t].customer \in DOMAIN g_AccountInfo
          /\ v = g_AccountInfo[frame[t].customer] /\ a <= v
      BY <1>0, <2>1 DEF ChargeOK, ChargeStages, Body
    <2>3. v \in DWORD
      BY <2>2 DEF ExclusiveInv, IInv, TypeOK, TablesOK
    <2>4. g_AccountInfo'[frame[t].customer] = v - a
      BY <1>0, <2>1, <2>2, <2>3, BalanceUndo
    <2>5. (v - a) + a < DwordMod
      BY <1>0, <2>3, Widths DEF DWORD
    <2> QED
      BY <2>1, <2>4, <2>5 DEF ChargeOK, Body
  <1>6. CASE TransactionLock(t)
    <2>1. stage[t] = "transLock" /\ stage'[t] = "transSize" /\ frame'[t] = frame[t]
          /\ UNCHANGED g_AccountInfo
      BY <1>0, <1>6 DEF TransactionLock, tables
    <2> QED
      BY <1>0, <2>1 DEF ChargeOK
  <1>7. CASE TransactionSize(t)
    <2> DEFINE f == [frame[t] EXCEPT !.value = Cardinality(DOMAIN g_TransactionInfo) + 1]
    <2>1. stage[t] = "transSize" /\ stage'[t] = "transInsert" /\ frame'[t] = f
          /\ UNCHANGED g_AccountInfo
      BY <1>0, <1>7 DEF TransactionSize, tables
    <2>2. f.msg = frame[t].msg /\ f.customer = frame[t].customer
      BY <1>0 DEF Frame
    <2> HIDE DEF f
    <2> QED
      BY <1>0, <2>1, <2>2 DEF ChargeOK
  <1>8. CASE CreateFind(t)
    <2>1. /\ stage'[t] \in {"createLock", "respond"}
          /\ stage'[t] = "createLock" =>
               ValidCredentials(t) /\ frame'[t] = [frame[t] EXCEPT !.customer = CredentialsID(t)]
      BY <1>0, <1>8 DEF CreateFind
    <2>2. stage'[t] = "createLock" =>
            frame'[t].customer \in AllCustomers /\ IsValidCustomerID(frame'[t].customer)
      BY <1>0, <2>1, ValidCustomer DEF Frame, ExclusiveInv
    <2> QED
      BY <2>1, <2>2 DEF ChargeOK, AllCustomers
  <1>9. CASE CreateLock(t)
    <2>1. stage[t] = "createLock" /\ stage'[t] = "createInsert" /\ frame'[t] = frame[t]
      BY <1>0, <1>9 DEF CreateLock
    <2> QED
      BY <1>0, <2>1 DEF ChargeOK, AllCustomers
  <1> QED
    BY <1>1, <1>2, <1>3, <1>4, <1>5, <1>6, <1>7, <1>8, <1>9 DEF Enters

\* Every step keeps what the handlers have read and checked, if it does not
\* bring two of them to charge one account.
LEMMA ThreadKeepsExclusiveInv ==
  ASSUME ExclusiveInv, NEW t \in Threads, ClientStep(t) \/ ServerStep(t),
         IInv', ExclusiveAccounts'
  PROVE  ExclusiveInv'
  <1>0. IInv /\ ExclusiveAccounts /\ \A u \in Threads : ChargeOK(u, stage[u], frame[u])
    BY DEF ExclusiveInv
  <1>1. DOMAIN g_AccountInfo' \subseteq AllCustomers
    <2>1. CASE CreateInsert(t)
      <3>1. frame[t].customer \in AllCustomers
        BY <1>0, <2>1 DEF CreateInsert, At, ChargeOK
      <3> QED
        BY <2>1, <3>1 DEF CreateInsert, Insert, ExclusiveInv
    <2>2. CASE DepositWrite(t) \/ WithdrawWrite(t)
      BY <2>2 DEF DepositWrite, WithdrawWrite, ExclusiveInv
    <2>3. CASE UNCHANGED g_AccountInfo
      BY <2>3 DEF ExclusiveInv
    <2> QED
      BY <1>0, <2>1, <2>2, <2>3, TableWriters
  <1>2. ASSUME NEW u \in Threads, u # t
        PROVE  ChargeOK(u, stage[u], frame[u])'
    <2>1. /\ stage'[u] = stage[u] /\ frame'[u].msg = frame[u].msg
          /\ frame'[u].customer = frame[u].customer /\ frame'[u].value = frame[u].value
      BY <1>0, <1>2, StepShape
    <2>2. stage[u] \in ChargeStages =>
            g_AccountInfo'[frame[u].customer] = g_AccountInfo[frame[u].customer]
      BY <1>0, <1>2, BalanceHeld
    <2>3. {"incr", "decrRead", "decrWrite"} \cup RecordStages \subseteq ChargeStages
      BY DEF RecordStages, ChargeStages
    <2>4. ChargeOK(u, stage[u], frame[u])
      BY <1>0
    <2> QED
      BY <2>1, <2>2, <2>3, <2>4 DEF ChargeOK, AllCustomers
  <1>3. ChargeOK(t, stage[t], frame[t])'
    <2>1. CASE Enters(t)
      BY <2>1, EntersKeepsChargeOK
    <2>2. CASE stage'[t] \notin ChargeOKStages
      BY <2>2 DEF ChargeOK, ChargeOKStages, RecordStages
    <2>3. CASE stage'[t] = stage[t] /\ frame'[t] = frame[t] /\ UNCHANGED tables
      BY <1>0, <2>3 DEF ChargeOK, AllCustomers, tables
    <2> QED
      BY <1>0, <2>1, <2>2, <2>3, StepShape
  <1>4. (\A u \in Threads : ChargeOK(u, stage[u], frame[u]))'
    BY <1>2, <1>3
  <1>5. (DOMAIN g_AccountInfo \subseteq AllCustomers)'
    BY <1>1 DEF AllCustomers
  <1> QED
    BY <1>4, <1>5 DEF ExclusiveInv

\* The initial state.
LEMMA InitExclusiveInv ==
  ASSUME Init
  PROVE  ExclusiveInv
  <1>1. IInv
    BY InitIInv
  <1>2. ExclusiveAccounts /\ \A t \in Threads : ChargeOK(t, stage[t], frame[t])
    BY DEF Init, ExclusiveAccounts, ChargeOK, ChargeStages, RecordStages
  <1>3. DOMAIN g_AccountInfo \subseteq AllCustomers
    BY DEF Init, AllCustomers
  <1> QED
    BY <1>1, <1>2, <1>3 DEF ExclusiveInv

\* Every step that keeps the accounts exclusive.
LEMMA NextExclusiveInv ==
  ASSUME ExclusiveInv, [Next /\ ExclusiveAccounts']_vars
  PROVE  ExclusiveInv'
  <1>1. IInv'
    BY NextIInv DEF ExclusiveInv
  <1>2. CASE UNCHANGED vars
    BY <1>1, <1>2 DEF vars, tables, mutexes, clients, ExclusiveInv, ExclusiveAccounts, ChargeOK,
                      AllCustomers
  <1>3. CASE Next /\ ExclusiveAccounts'
    <2>1. CASE \E t \in Threads : ClientStep(t) \/ ServerStep(t)
      BY <1>1, <1>3, <2>1, ThreadKeepsExclusiveInv
    <2>2. CASE Terminated
      BY <1>2, <2>2 DEF Terminated
    <2> QED
      BY <1>3, <2>1, <2>2 DEF Next
  <1> QED
    BY <1>2, <1>3

\* In every interleaving that keeps two threads from charging one account,
\* what ProcessDepositRequest, ProcessWithdrawalRequest and
\* ProcessStampPurchaseRequest have read of a balance is still so when they
\* store, and what they have checked is still covered.
THEOREM ChargesUndisturbed == ExclusiveSpec => []ExclusiveInv
  <1>1. Init => ExclusiveInv
    BY InitExclusiveInv
  <1>2. ExclusiveInv /\ [Next /\ ExclusiveAccounts']_vars => ExclusiveInv'
    BY NextExclusiveInv
  <1> QED
    BY <1>1, <1>2, PTL DEF ExclusiveSpec

---------------------------------------------------------------------------
(* The balances the refinement mapping commits to                          *)

\* A balance is as stored, unless a thread has stored it and not recorded that
\* yet; then it is what the thread found.
CommittedShape ==
  /\ DOMAIN Committed = DOMAIN g_AccountInfo
  /\ Committed = [c \in DOMAIN Committed |-> Committed[c]]
  /\ \A c \in DOMAIN g_AccountInfo :
       (\A t \in Threads : stage[t] \in RecordStages => frame[t].customer # c)
         => Committed[c] = g_AccountInfo[c]
  /\ \A t \in Threads : stage[t] \in RecordStages =>
       Committed[frame[t].customer] = BalanceBefore(t)

\* No other thread is at the same account, so the choice the mapping makes is
\* the only one.
LEMMA CommittedValue == ExclusiveInv => CommittedShape
  <1> SUFFICES ASSUME ExclusiveInv
               PROVE  CommittedShape
    OBVIOUS
  <1>1. ASSUME NEW t \in Threads, stage[t] \in RecordStages
        PROVE  Committed[frame[t].customer] = BalanceBefore(t)
    <2> DEFINE c == frame[t].customer
    <2>1. stage[t] \in ChargeStages
      BY <1>1 DEF RecordStages, ChargeStages
    <2>2. c \in DOMAIN g_AccountInfo
      BY <2>1 DEF ExclusiveInv, IInv, CustomersHaveAccounts
    <2>3. Unrecorded(c) = {t}
      <3>1. \A u \in Threads : stage[u] \in RecordStages => stage[u] \in ChargeStages
        BY DEF RecordStages, ChargeStages
      <3> QED
        BY <1>1, <2>1, <3>1 DEF Unrecorded, ExclusiveInv, ExclusiveAccounts
    <2>4. (CHOOSE u \in {t} : TRUE) = t
      OBVIOUS
    <2> HIDE DEF c
    <2>5. Committed[c] = BalanceBefore(t)
      BY <2>2, <2>3, <2>4 DEF Committed
    <2> QED
      BY <2>5 DEF c
  <1>2. ASSUME NEW c \in DOMAIN g_AccountInfo,
               \A t \in Threads : stage[t] \in RecordStages => frame[t].customer # c
        PROVE  Committed[c] = g_AccountInfo[c]
    BY <1>2 DEF Committed, Unrecorded
  <1> QED
    BY <1>1, <1>2 DEF CommittedShape, Committed

\* A balance a step neither stores nor records is committed to as before.
LEMMA CommittedSame ==
  ASSUME ExclusiveInv, ExclusiveInv', NEW t \in Threads, ClientStep(t) \/ ServerStep(t),
         NEW c \in DOMAIN g_AccountInfo, c \in DOMAIN g_AccountInfo',
         g_AccountInfo'[c] = g_AccountInfo[c],
         stage[t] \in RecordStages /\ frame[t].customer = c =>
           /\ stage'[t] \in RecordStages
           /\ frame'[t].customer = c /\ frame'[t].msg = frame[t].msg,
         stage'[t] \in RecordStages /\ frame'[t].customer = c =>
           stage[t] \in RecordStages /\ frame[t].customer = c
  PROVE  Committed'[c] = Committed[c]
  <1>1. CommittedShape /\ CommittedShape'
    BY CommittedValue, PTL
  <1>2. \A u \in Threads \ {t} :
          /\ stage'[u] = stage[u] /\ frame'[u].msg = frame[u].msg
          /\ frame'[u].customer = frame[u].customer
    BY StepShape DEF ExclusiveInv
  <1>3. ASSUME NEW u \in Threads
        PROVE  LET Holds == stage[u] \in RecordStages /\ frame[u].customer = c
               IN  /\ Holds <=> stage'[u] \in RecordStages /\ frame'[u].customer = c
                   /\ Holds => frame'[u].msg = frame[u].msg
    BY <1>2
  <1>4. CASE \A u \in Threads : stage[u] \in RecordStages => frame[u].customer # c
    BY <1>1, <1>3, <1>4 DEF CommittedShape
  <1>5. ASSUME NEW u \in Threads, stage[u] \in RecordStages, frame[u].customer = c
        PROVE  Committed'[c] = Committed[c]
    <2>1. /\ stage'[u] \in RecordStages /\ frame'[u].customer = c
          /\ frame'[u].msg = frame[u].msg
      BY <1>3, <1>5
    <2>2. BalanceBefore(u)' = BalanceBefore(u)
      BY <1>5, <2>1 DEF BalanceBefore, Balance, Type, Body
    <2> QED
      BY <1>1, <1>5, <2>1, <2>2 DEF CommittedShape
  <1> QED
    BY <1>4, <1>5

\* The requests of the bank, on what the mapping commits to.
Stutters == UNCHANGED <<Committed, g_TransactionInfo>>

Opens(c) ==
  /\ IsValidCustomerID(c) /\ c \notin DOMAIN Committed
  /\ Committed' = Insert(Committed, c, 0) /\ UNCHANGED g_TransactionInfo

Charges(c, type, amount) ==
  /\ c \in DOMAIN Committed
  /\ type # "DEPOSIT" => amount <= Committed[c]
  /\ Committed' = [Committed EXCEPT ![c] =
       IF type = "DEPOSIT" THEN incr_Balance(Committed[c], amount)
       ELSE decr_Balance(Committed[c], amount)]
  /\ g_TransactionInfo' = Insert(g_TransactionInfo, Cardinality(DOMAIN g_TransactionInfo) + 1,
                                 TRANSACTION_INFO(amount, type, c))

\* Two functions are equal when their domains and values are.
LEMMA CommittedEqual ==
  ASSUME CommittedShape, CommittedShape', DOMAIN g_AccountInfo' = DOMAIN g_AccountInfo,
         \A c \in DOMAIN g_AccountInfo : Committed'[c] = Committed[c]
  PROVE  Committed' = Committed
  BY DEF CommittedShape

\* A step that writes no balance and does not enter or leave the recording of
\* one changes nothing.
LEMMA OtherStepsStutter ==
  ASSUME ExclusiveInv, ExclusiveInv', NEW t \in Threads, ClientStep(t) \/ ServerStep(t),
         UNCHANGED <<g_AccountInfo, g_TransactionInfo>>,
         stage[t] \in RecordStages <=> stage'[t] \in RecordStages,
         stage[t] \in RecordStages =>
           frame'[t].customer = frame[t].customer /\ frame'[t].msg = frame[t].msg
  PROVE  Stutters
  <1>1. CommittedShape /\ CommittedShape'
    BY CommittedValue, PTL
  <1>2. \A c \in DOMAIN g_AccountInfo : Committed'[c] = Committed[c]
    BY CommittedSame
  <1> QED
    BY <1>1, <1>2, CommittedEqual DEF Stutters

\* Which steps those are.
LEMMA OtherSteps ==
  ASSUME ExclusiveInv, NEW t \in Threads, ClientStep(t) \/ ServerStep(t)
  PROVE  \/ DepositWrite(t) \/ WithdrawWrite(t) \/ CreateInsert(t) \/ TransactionInsert(t)
         \/ /\ UNCHANGED <<g_AccountInfo, g_TransactionInfo>>
            /\ stage[t] \in RecordStages <=> stage'[t] \in RecordStages
            /\ stage[t] \in RecordStages =>
                 frame'[t].customer = frame[t].customer /\ frame'[t].msg = frame[t].msg
  <1> USE DEF At, Goto, Finish, RecordStages
  <1>0. /\ IInv /\ stage \in [Threads -> Stages] /\ frame \in [Threads -> Frame]
        /\ \A u \in Threads : frame[u] \in Frame
    BY DEF ExclusiveInv, IInv, TypeOK, ThreadsOK
  <1>1. CASE TransactionLock(t) \/ TransactionSize(t)
    <2>1. /\ stage[t] \in RecordStages /\ stage'[t] \in RecordStages
          /\ UNCHANGED <<g_AccountInfo, g_TransactionInfo>>
          /\ \E v : frame'[t] = frame[t] \/ frame'[t] = [frame[t] EXCEPT !.value = v]
      BY <1>0, <1>1 DEF TransactionLock, TransactionSize, tables
    <2> QED
      BY <1>0, <2>1 DEF Frame
  <1>2. CASE DepositRead(t) \/ WithdrawCheck(t) \/ WithdrawRead(t) \/ CreateFind(t) \/ CreateLock(t)
    BY <1>0, <1>2 DEF DepositRead, WithdrawCheck, WithdrawRead, CreateFind, CreateLock, tables
  <1>3. CASE /\ ~Enters(t) /\ ~CreateInsert(t) /\ ~TransactionInsert(t)
    <2>1. UNCHANGED <<g_AccountInfo, g_TransactionInfo>>
      BY <1>0, <1>3, TableWriters DEF Enters
    <2>2. stage'[t] \in RecordStages => stage'[t] = stage[t] /\ frame'[t] = frame[t]
      BY <1>0, <1>3, StepShape DEF ChargeOKStages
    <2>3. stage[t] \in RecordStages => stage'[t] = stage[t] /\ frame'[t] = frame[t]
      <3>1. CASE stage'[t] \in RecordStages
        BY <2>2, <3>1
      <3>2. CASE stage[t] \in RecordStages /\ stage'[t] \notin RecordStages
        <4>1. CASE ClientStep(t)
          BY <1>0, <3>2, <4>1 DEF ClientStep, SendRequest, ReceiveResponse, Close
        <4>2. CASE ServerStep(t)
          BY <1>3, <3>2, <4>2
             DEF ServerStep, Enters, ReceiveEnd, DisconnectLock, DisconnectErase, ConnectRead,
                 ConnectLock, ConnectInsert, FindSession, MissSession, LogonFind, LogonWrite,
                 LogoffRead, LogoffWrite, ReadCustomer, MissAccount, BalanceRead, HistoryRead,
                 Respond
        <4> QED
          BY <4>1, <4>2
      <3> QED
        BY <3>1, <3>2
    <2> QED
      BY <2>1, <2>2, <2>3
  <1> QED
    BY <1>1, <1>2, <1>3 DEF Enters

---------------------------------------------------------------------------
(* Each step is one request of the bank, or none                           *)

\* The store of a balance commits to nothing: += and -= can be undone.
LEMMA WritesStutter ==
  ASSUME ExclusiveInv, ExclusiveInv', NEW t \in Threads, ClientStep(t) \/ ServerStep(t),
         DepositWrite(t) \/ WithdrawWrite(t)
  PROVE  Stutters
  <1> DEFINE d == frame[t].customer
             v == frame[t].value
             a == Body(t).amount
             new == IF Type(t) = "DEPOSIT" THEN incr_Balance(v, a) ELSE decr_Balance(v, a)
  <1>0. IInv /\ stage \in [Threads -> Stages] /\ ChargeOK(t, stage[t], frame[t])
        /\ CommittedShape /\ CommittedShape'
    <2>1. CommittedShape /\ CommittedShape'
      BY CommittedValue, PTL
    <2> QED
      BY <2>1 DEF ExclusiveInv, IInv, TypeOK, ThreadsOK
  <1>1. /\ stage[t] \in {"incr", "decrWrite"} /\ stage'[t] = "transLock" /\ frame' = frame
        /\ UNCHANGED g_TransactionInfo
        /\ (stage[t] = "incr") <=> (Type(t) = "DEPOSIT")
        /\ v = g_AccountInfo[d]
    BY <1>0 DEF DepositWrite, WithdrawWrite, At, ChargeOK, Type
  <1>2. g_AccountInfo' = [g_AccountInfo EXCEPT ![d] = new]
    BY <1>1 DEF DepositWrite, WithdrawWrite, At
  <1>3. stage[t] \in ChargeStages /\ d \in DOMAIN g_AccountInfo
    BY <1>0, <1>1 DEF ChargeStages, IInv, CustomersHaveAccounts
  <1>4. v \in DWORD /\ a \in DWORD
    BY <1>0, <1>1, <1>3, ThreadFacts DEF IInv, TypeOK, TablesOK
  <1>5. Committed[d] = v
    <2>1. \A u \in Threads : stage[u] \in RecordStages => frame[u].customer # d
      <3>1. stage[t] \notin RecordStages /\ RecordStages \subseteq ChargeStages
        BY <1>1 DEF RecordStages, ChargeStages
      <3> QED
        BY <1>3, <3>1 DEF ExclusiveInv, ExclusiveAccounts
    <2> QED
      BY <1>0, <1>1, <1>3, <2>1 DEF CommittedShape
  <1>6. Committed'[d] = v
    <2>1. stage'[t] \in RecordStages /\ frame'[t] = frame[t]
      BY <1>1 DEF RecordStages
    <2>2. Committed'[d] = BalanceBefore(t)'
      BY <1>0, <2>1 DEF CommittedShape
    <2>3. BalanceBefore(t)' = IF Type(t) = "DEPOSIT" THEN decr_Balance(new, a)
                              ELSE incr_Balance(new, a)
      BY <1>1, <1>2, <1>3 DEF BalanceBefore, Balance, Type, Body
    <2>4. decr_Balance(incr_Balance(v, a), a) = v /\ incr_Balance(decr_Balance(v, a), a) = v
      BY <1>4, BalanceUndo
    <2> QED
      BY <2>2, <2>3, <2>4
  <1>7. ASSUME NEW c \in DOMAIN g_AccountInfo, c # d
        PROVE  Committed'[c] = Committed[c]
    <2>1. c \in DOMAIN g_AccountInfo' /\ g_AccountInfo'[c] = g_AccountInfo[c]
      BY <1>2, <1>7
    <2>2. frame[t].customer # c /\ frame'[t].customer # c
      BY <1>1, <1>7
    <2> QED
      BY <2>1, <2>2, CommittedSame
  <1> HIDE DEF d, v, a, new
  <1>8. DOMAIN g_AccountInfo' = DOMAIN g_AccountInfo
    BY <1>2
  <1>9. \A c \in DOMAIN g_AccountInfo : Committed'[c] = Committed[c]
    BY <1>5, <1>6, <1>7
  <1>10. Committed' = Committed
    BY <1>0, <1>8, <1>9, CommittedEqual
  <1> QED
    BY <1>1, <1>10 DEF Stutters

\* The insert of an account opens it, if no other thread has been faster.
LEMMA CreateInsertOpens ==
  ASSUME ExclusiveInv, ExclusiveInv', NEW t \in Threads, ClientStep(t) \/ ServerStep(t),
         CreateInsert(t)
  PROVE  Stutters \/ (Opens(frame[t].customer) /\ frame[t].customer \in AllCustomers)
  <1> DEFINE d == frame[t].customer
  <1>0. /\ IInv /\ stage \in [Threads -> Stages] /\ ChargeOK(t, stage[t], frame[t])
        /\ CommittedShape /\ CommittedShape'
    <2>1. CommittedShape /\ CommittedShape'
      BY CommittedValue, PTL
    <2> QED
      BY <2>1 DEF ExclusiveInv, IInv, TypeOK, ThreadsOK
  <1>1. /\ stage[t] = "createInsert" /\ stage'[t] = "respond"
        /\ g_AccountInfo' = Insert(g_AccountInfo, d, 0) /\ UNCHANGED g_TransactionInfo
        /\ d \in AllCustomers /\ IsValidCustomerID(d)
    BY <1>0 DEF CreateInsert, At, Finish, Goto, ChargeOK
  <1>2. /\ DOMAIN g_AccountInfo' = DOMAIN g_AccountInfo \cup {d}
        /\ \A c \in DOMAIN g_AccountInfo : g_AccountInfo'[c] = g_AccountInfo[c]
        /\ d \notin DOMAIN g_AccountInfo => g_AccountInfo'[d] = 0
    BY <1>1 DEF Insert
  <1>3. stage[t] \notin RecordStages /\ stage'[t] \notin RecordStages
    BY <1>1 DEF RecordStages
  <1>4. \A c \in DOMAIN g_AccountInfo : Committed'[c] = Committed[c]
    BY <1>2, <1>3, CommittedSame
  <1>5. CASE d \in DOMAIN g_AccountInfo
    <2>1. DOMAIN g_AccountInfo' = DOMAIN g_AccountInfo
      BY <1>2, <1>5
    <2> QED
      BY <1>0, <1>1, <1>4, <2>1, CommittedEqual DEF Stutters
  <1>6. CASE d \notin DOMAIN g_AccountInfo
    <2>1. ASSUME NEW u \in Threads, stage'[u] \in RecordStages
          PROVE  frame'[u].customer # d
      <3>1. u # t
        BY <1>3, <2>1
      <3>2. stage'[u] = stage[u] /\ frame'[u].customer = frame[u].customer
        BY <1>0, <3>1, StepShape
      <3>3. frame[u].customer \in DOMAIN g_AccountInfo
        BY <1>0, <2>1, <3>2 DEF IInv, CustomersHaveAccounts, RecordStages, ChargeStages
      <3> QED
        BY <1>6, <3>2, <3>3
    <2>2. Committed'[d] = 0
      BY <1>0, <1>2, <1>6, <2>1 DEF CommittedShape
    <2>3. Committed' = Insert(Committed, d, 0)
      <3>1. /\ DOMAIN Committed' = DOMAIN Committed \cup {d}
            /\ Committed' = [c \in DOMAIN Committed' |-> Committed'[c]]
            /\ \A c \in DOMAIN Committed : Committed'[c] = Committed[c]
            /\ d \notin DOMAIN Committed
        BY <1>0, <1>2, <1>4, <1>6 DEF CommittedShape
      <3> QED
        BY <2>2, <3>1 DEF Insert
    <2>4. d \notin DOMAIN Committed
      BY <1>0, <1>6 DEF CommittedShape
    <2> QED
      BY <1>1, <2>3, <2>4 DEF Opens
  <1> QED
    BY <1>5, <1>6

\* The insert of a record is the transaction.
LEMMA TransactionInsertCharges ==
  ASSUME ExclusiveInv, ExclusiveInv', NEW t \in Threads, ClientStep(t) \/ ServerStep(t),
         TransactionInsert(t)
  PROVE  /\ Charges(frame[t].customer, Type(t), Body(t).amount)
         /\ Type(t) \in TransactionTypes /\ Body(t).amount \in DWORD
  <1> DEFINE d == frame[t].customer
             b == g_AccountInfo[d]
             a == Body(t).amount
  <1>0. /\ IInv /\ stage \in [Threads -> Stages] /\ ChargeOK(t, stage[t], frame[t])
        /\ FrameOK(t, stage[t], frame[t]) /\ CommittedShape /\ CommittedShape' /\ a \in DWORD
    <2>1. CommittedShape /\ CommittedShape'
      BY CommittedValue, PTL
    <2>2. IInv
      BY DEF ExclusiveInv
    <2> QED
      BY <2>1, <2>2, ThreadFacts DEF ExclusiveInv, IInv, TypeOK, ThreadsOK
  <1>1. /\ stage[t] = "transInsert" /\ stage'[t] = "respond" /\ UNCHANGED g_AccountInfo
        /\ frame[t].value = Cardinality(DOMAIN g_TransactionInfo) + 1
        /\ g_TransactionInfo' = Insert(g_TransactionInfo, frame[t].value,
                                       TRANSACTION_INFO(a, Type(t), d))
        /\ Type(t) \in TransactionTypes
    BY <1>0 DEF TransactionInsert, At, Finish, Goto, FrameOK, ChargeStages, Type
  <1>2. stage[t] \in ChargeStages /\ stage[t] \in RecordStages /\ stage'[t] \notin RecordStages
    BY <1>1 DEF ChargeStages, RecordStages
  <1>3. d \in DOMAIN g_AccountInfo /\ b \in DWORD
    BY <1>0, <1>2 DEF IInv, CustomersHaveAccounts, TypeOK, TablesOK
  <1>4. Committed[d] = IF Type(t) = "DEPOSIT" THEN decr_Balance(b, a) ELSE incr_Balance(b, a)
    BY <1>0, <1>2 DEF CommittedShape, BalanceBefore, Balance
  <1>5. Committed'[d] = b
    <2>1. ASSUME NEW u \in Threads, stage'[u] \in RecordStages
          PROVE  frame'[u].customer # d
      <3>1. u # t
        BY <1>2, <2>1
      <3>2. stage'[u] = stage[u] /\ frame'[u].customer = frame[u].customer
        BY <1>0, <3>1, StepShape
      <3>3. stage[u] \in ChargeStages
        BY <2>1, <3>2 DEF RecordStages, ChargeStages
      <3> QED
        BY <1>2, <3>1, <3>2, <3>3 DEF ExclusiveInv, ExclusiveAccounts
    <2> QED
      BY <1>0, <1>1, <1>3, <2>1 DEF CommittedShape
  <1>6. ASSUME NEW c \in DOMAIN g_AccountInfo, c # d
        PROVE  Committed'[c] = Committed[c]
    <2>1. c \in DOMAIN g_AccountInfo' /\ g_AccountInfo'[c] = g_AccountInfo[c]
      BY <1>1
    <2> QED
      BY <1>2, <1>6, <2>1, CommittedSame
  <1>7. /\ decr_Balance(incr_Balance(b, a), a) = b /\ incr_Balance(decr_Balance(b, a), a) = b
    BY <1>0, <1>3, BalanceUndo
  <1>8. Type(t) # "DEPOSIT" => a <= Committed[d]
    <2>1. Type(t) # "DEPOSIT" => b + a < DwordMod
      BY <1>0, <1>2 DEF ChargeOK, Type, Body
    <2>2. b + a < DwordMod => incr_Balance(b, a) = b + a
      <3>1. b + a \in Int /\ (b + a < DwordMod => b + a \in DWORD)
        BY <1>0, <1>3, Widths DEF DWORD
      <3> QED
        BY <3>1, ModSum DEF incr_Balance
    <2>3. a <= b + a
      BY <1>0, <1>3 DEF DWORD
    <2> QED
      BY <1>4, <2>1, <2>2, <2>3
  <1> DEFINE next == IF Type(t) = "DEPOSIT" THEN incr_Balance(Committed[d], a)
                     ELSE decr_Balance(Committed[d], a)
  <1>9. next = b
    BY <1>4, <1>7
  <1>10. Committed' = [Committed EXCEPT ![d] = next]
    <2>1. /\ DOMAIN Committed' = DOMAIN Committed /\ DOMAIN Committed = DOMAIN g_AccountInfo
          /\ Committed' = [c \in DOMAIN Committed' |-> Committed'[c]]
      BY <1>0, <1>1 DEF CommittedShape
    <2> HIDE DEF next, b, d
    <2> QED
      BY <1>3, <1>5, <1>6, <1>9, <2>1
  <1>11. d \in DOMAIN Committed
    BY <1>0, <1>3 DEF CommittedShape
  <1> QED
    BY <1>0, <1>1, <1>8, <1>10, <1>11 DEF Charges

\* Every step of the threads.
LEMMA StepsCommit ==
  ASSUME ExclusiveInv, [Next /\ ExclusiveAccounts']_vars
  PROVE  \/ Stutters
         \/ \E c \in AllCustomers : Opens(c)
         \/ \E c \in DOMAIN Committed, type \in TransactionTypes, amount \in DWORD :
              Charges(c, type, amount)
  <1>0. ExclusiveInv'
    BY NextExclusiveInv
  <1>1. ASSUME UNCHANGED vars
        PROVE  Stutters
    BY <1>1 DEF vars, tables, mutexes, clients, Stutters, Committed, Unrecorded, BalanceBefore, Type,
                Body, Balance
  <1>2. ASSUME NEW t \in Threads, ClientStep(t) \/ ServerStep(t)
        PROVE  \/ Stutters
               \/ \E c \in AllCustomers : Opens(c)
               \/ \E c \in DOMAIN Committed, type \in TransactionTypes, amount \in DWORD :
                    Charges(c, type, amount)
    <2>1. CASE DepositWrite(t) \/ WithdrawWrite(t)
      BY <1>0, <1>2, <2>1, WritesStutter
    <2>2. CASE CreateInsert(t)
      BY <1>0, <1>2, <2>2, CreateInsertOpens
    <2>3. CASE TransactionInsert(t)
      <3>1. frame[t].customer \in DOMAIN Committed
        BY <1>0, <1>2, <2>3, TransactionInsertCharges DEF Charges
      <3> QED
        BY <1>0, <1>2, <2>3, <3>1, TransactionInsertCharges
    <2>4. CASE /\ UNCHANGED <<g_AccountInfo, g_TransactionInfo>>
               /\ stage[t] \in RecordStages <=> stage'[t] \in RecordStages
               /\ stage[t] \in RecordStages =>
                    frame'[t].customer = frame[t].customer /\ frame'[t].msg = frame[t].msg
      BY <1>0, <1>2, <2>4, OtherStepsStutter
    <2> QED
      BY <1>2, <2>1, <2>2, <2>3, <2>4, OtherSteps
  <1> QED
    BY <1>1, <1>2 DEF Next, Terminated

---------------------------------------------------------------------------
(* The theorems                                                            *)

\* What the bank's operators are, seen from the threads.
LEMMA BankOperators ==
  /\ Bank!DWORD = DWORD /\ Bank!TransactionTypes = TransactionTypes
  /\ \A m, k, v : Bank!Insert(m, k, v) = Insert(m, k, v)
  /\ \A x, y : Bank!incr_Balance(x, y) = incr_Balance(x, y)
  /\ \A x, y : Bank!decr_Balance(x, y) = decr_Balance(x, y)
  /\ \A x, y, z : Bank!TRANSACTION_INFO(x, y, z) = TRANSACTION_INFO(x, y, z)
  /\ \A c : Bank!IsValidCustomerID(c) <=> IsValidCustomerID(c)
  /\ \A S : Bank!Cardinality(S) = Cardinality(S) /\ (Bank!IsFiniteSet(S) <=> IsFiniteSet(S))
  <1>1. ASSUME NEW S
        PROVE  Bank!Cardinality(S) = Cardinality(S)
    BY DEF Bank!Cardinality, Cardinality
  <1>2. ASSUME NEW S
        PROVE  Bank!IsFiniteSet(S) <=> IsFiniteSet(S)
    BY DEF Bank!IsFiniteSet, IsFiniteSet
  <1> QED
    BY <1>1, <1>2
       DEF Bank!DWORD, DWORD, Bank!TransactionTypes, TransactionTypes, Bank!Insert, Insert,
           Bank!incr_Balance, incr_Balance, Bank!decr_Balance, decr_Balance,
           Bank!TRANSACTION_INFO, TRANSACTION_INFO, Bank!IsValidCustomerID, IsValidCustomerID,
           Bank!INVALID_CUSTOMER_ID, INVALID_CUSTOMER_ID

\* The bank's assumptions hold of what it is instantiated with.
LEMMA BankConstants == Bank!BankAssumption
  <1>1. AllCustomers \subseteq QWORD
    BY CustomerIDType, SavedAssumption DEF AllCustomers
  <1>2. DOMAIN SavedAccounts \subseteq AllCustomers
    BY DEF AllCustomers
  <1>3. Bank!QWORD = QWORD /\ Bank!Transaction = Transaction
    BY BankOperators DEF Bank!QWORD, QWORD, Bank!Transaction, Transaction
  <1> QED
    BY <1>1, <1>2, <1>3, BankOperators, SavedAssumption DEF Bank!BankAssumption

\* A request of the threads is one of the bank.
LEMMA StepImplements ==
  ASSUME ExclusiveInv, [Next /\ ExclusiveAccounts']_vars
  PROVE  [Bank!BankNext]_(Bank!bank)
  <1>1. CASE Stutters
    BY <1>1 DEF Stutters, Bank!bank
  <1>2. ASSUME NEW c \in AllCustomers, Opens(c)
        PROVE  Bank!BankNext
    <2>1. Bank!Open(c)
      BY <1>2, BankOperators DEF Opens, Bank!Open
    <2> QED
      BY <2>1 DEF Bank!BankNext
  <1>3. ASSUME NEW c \in DOMAIN Committed, NEW type \in TransactionTypes, NEW amount \in DWORD,
               Charges(c, type, amount)
        PROVE  Bank!BankNext
    <2>1. CASE type = "DEPOSIT"
      <3>1. Bank!Deposit(c, amount)
        BY <1>3, <2>1, BankOperators DEF Charges, Bank!Deposit, Bank!Record, Bank!NextID
      <3> QED
        BY <3>1, BankOperators DEF Bank!BankNext
    <2>2. CASE type # "DEPOSIT"
      <3>1. Bank!Withdraw(c, type, amount)
        BY <1>3, <2>2, BankOperators DEF Charges, Bank!Withdraw, Bank!Record, Bank!NextID
      <3> QED
        BY <3>1, BankOperators DEF Bank!BankNext
    <2> QED
      BY <2>1, <2>2
  <1> QED
    BY <1>1, <1>2, <1>3, StepsCommit

\* The initial balances are committed.
LEMMA InitCommitted ==
  ASSUME Init
  PROVE  Committed = SavedAccounts /\ g_TransactionInfo = SavedTransactions
  <1>1. CommittedShape
    BY InitExclusiveInv, CommittedValue
  <1>2. \A c \in DOMAIN g_AccountInfo : Committed[c] = g_AccountInfo[c]
    BY <1>1 DEF Init, CommittedShape, RecordStages
  <1> QED
    BY <1>1, <1>2, SavedAssumption DEF Init, CommittedShape

\* The threads implement the bank as long as no two of them are charging one
\* account: a balance and its record change as if in one step, from the
\* balance that was checked and under the next ID, whatever else the threads,
\* the clients and the session table do meanwhile.
THEOREM ThreadsImplementBank == ExclusiveSpec => ImplementsBank
  <1>1. Init => Bank!BankInit
    BY InitCommitted DEF Bank!BankInit
  <1>2. ExclusiveInv /\ [Next /\ ExclusiveAccounts']_vars => [Bank!BankNext]_(Bank!bank)
    BY StepImplements
  <1> QED
    BY <1>1, <1>2, ChargesUndisturbed, PTL DEF ExclusiveSpec, ImplementsBank, Bank!BankSpec

\* If the saved balances are what the saved log says, then the balance of an
\* account is what its log says whenever no thread is between the store of the
\* balance and the insert of its record: nothing is lost and nothing recorded
\* twice, although neither += nor -= is under a lock.
THEOREM LedgerKept ==
  Balanced(SavedAccounts, SavedTransactions) /\ ExclusiveSpec => []BalanceMatchesLedger
  <1> DEFINE Books == Balanced(Committed, g_TransactionInfo)
  <1>1. Balanced(SavedAccounts, SavedTransactions) /\ Init => Books
    BY InitCommitted
  <1>2. ExclusiveInv /\ Books /\ [Next /\ ExclusiveAccounts']_vars => Books'
    <2> SUFFICES ASSUME ExclusiveInv, Books, [Next /\ ExclusiveAccounts']_vars
                 PROVE  Books'
      OBVIOUS
    <2>1. /\ LogOK(g_TransactionInfo) /\ Sequential(g_TransactionInfo)
          /\ \A i \in DOMAIN g_TransactionInfo : g_TransactionInfo[i].customer \in DOMAIN Committed
          /\ DOMAIN Committed \subseteq QWORD
      BY CommittedValue DEF ExclusiveInv, IInv, TypeOK, TablesOK, LogOK, Sequential,
                            TransactionIDsSequential, CustomersHaveAccounts, CommittedShape
    <2>2. BalancesOK(Committed)
      <3>1. CommittedShape
        BY CommittedValue
      <3>2. ASSUME NEW c \in DOMAIN g_AccountInfo
            PROVE  Committed[c] \in DWORD
        <4>1. g_AccountInfo[c] \in DWORD
          BY DEF ExclusiveInv, IInv, TypeOK, TablesOK
        <4>2. ASSUME NEW t \in Threads, stage[t] \in RecordStages, frame[t].customer = c
              PROVE  Committed[c] \in DWORD
          <5>1. Body(t).amount \in DWORD
            BY ThreadFacts DEF ExclusiveInv
          <5>2. BalanceBefore(t) \in DWORD
            BY <4>1, <4>2, <5>1, BalanceUndo DEF BalanceBefore, Balance
          <5> QED
            BY <3>1, <4>2, <5>2 DEF CommittedShape
        <4> QED
          BY <3>1, <4>1, <4>2 DEF CommittedShape
      <3> QED
        BY <3>1, <3>2 DEF BalancesOK, CommittedShape
    <2>3. CASE Stutters
      BY <2>3 DEF Stutters
    <2>4. ASSUME NEW c \in AllCustomers, Opens(c)
          PROVE  Books'
      BY <2>1, <2>4, BalancedOpen DEF Opens
    <2>5. ASSUME NEW c \in DOMAIN Committed, NEW type \in TransactionTypes, NEW amount \in DWORD,
                 Charges(c, type, amount)
          PROVE  Books'
      <3> DEFINE id == Cardinality(DOMAIN g_TransactionInfo) + 1
                 value == IF type = "DEPOSIT" THEN incr_Balance(Committed[c], amount)
                          ELSE decr_Balance(Committed[c], amount)
      <3>1. id \notin DOMAIN g_TransactionInfo /\ c \in QWORD
        <4>1. Cardinality(DOMAIN g_TransactionInfo) \in Nat
          BY <2>1, FS_CardinalityType DEF LogOK
        <4> QED
          BY <2>1, <4>1 DEF Sequential
      <3>2. /\ Committed' = [Committed EXCEPT ![c] = value]
            /\ g_TransactionInfo' =
                 Insert(g_TransactionInfo, id, TRANSACTION_INFO(amount, type, c))
        BY <2>5 DEF Charges
      <3>3. value = IF type = "DEPOSIT" THEN incr_Balance(Committed[c], amount)
                    ELSE decr_Balance(Committed[c], amount)
        OBVIOUS
      <3> HIDE DEF id, value
      <3>4. Balanced([Committed EXCEPT ![c] = value],
                     Insert(g_TransactionInfo, id, TRANSACTION_INFO(amount, type, c)))
        BY <2>1, <2>2, <3>1, <3>3, BalancedCharge
      <3> QED
        BY <3>2, <3>4
    <2> HIDE DEF Books
    <2> QED
      BY <2>3, <2>4, <2>5, StepsCommit
  <1>3. ExclusiveInv /\ Books => BalanceMatchesLedger
    <2> SUFFICES ASSUME ExclusiveInv, Books, NEW c \in DOMAIN g_AccountInfo,
                        \A t \in Threads : frame[t].customer = c =>
                          stage[t] \notin {"transLock", "transSize", "transInsert"}
                 PROVE  g_AccountInfo[c] = LedgerOf(g_TransactionInfo, c) % DwordMod
      BY DEF BalanceMatchesLedger
    <2>1. CommittedShape
      BY CommittedValue
    <2>2. Committed[c] = g_AccountInfo[c] /\ c \in DOMAIN Committed
      BY <2>1 DEF CommittedShape, RecordStages
    <2> QED
      BY <2>2 DEF Balanced
  <1> HIDE DEF Books
  <1> QED
    BY <1>1, <1>2, <1>3, ChargesUndisturbed, PTL DEF ExclusiveSpec

\* A withdrawal or a stamp purchase stores the balance minus its amount, and
\* the balance covers it at that moment.
THEOREM Covered == ExclusiveSpec => NoOverdraft
  <1> DEFINE Act ==
        \A t \in Threads : At(t, "decrWrite") /\ stage'[t] = "transLock" =>
          /\ Body(t).amount <= Balance(t)
          /\ g_AccountInfo'[frame[t].customer] = Balance(t) - Body(t).amount
  <1>1. ExclusiveInv /\ [Next /\ ExclusiveAccounts']_vars => [Act]_vars
    <2> SUFFICES ASSUME ExclusiveInv, Next,
                        NEW t \in Threads, stage[t] = "decrWrite", stage'[t] = "transLock"
                 PROVE  /\ Body(t).amount <= Balance(t)
                        /\ g_AccountInfo'[frame[t].customer] = Balance(t) - Body(t).amount
      BY DEF At
    <2>0. IInv /\ stage \in [Threads -> Stages]
      BY DEF ExclusiveInv, IInv, TypeOK, ThreadsOK
    <2>1. PICK u \in Threads : ClientStep(u) \/ ServerStep(u)
      BY DEF Next, Terminated, vars
    <2>2. u = t
      BY <2>0, <2>1, TableWriters
    <2>3. WithdrawWrite(t)
      <3>1. Enters(t)
        BY <2>0, <2>1, <2>2, StepShape DEF ChargeOKStages, RecordStages
      <3> QED
        BY <3>1 DEF Enters, At, DepositRead, WithdrawCheck, WithdrawRead, DepositWrite,
                    TransactionLock, TransactionSize, CreateFind, CreateLock, Goto, Finish
    <2>4. /\ frame[t].customer \in DOMAIN g_AccountInfo
          /\ frame[t].value = Balance(t) /\ Body(t).amount <= Balance(t)
      BY <2>0 DEF ExclusiveInv, ChargeOK, ChargeStages, IInv, CustomersHaveAccounts, Balance, Body
    <2>5. Balance(t) \in DWORD /\ Body(t).amount \in DWORD
      BY <2>0, <2>4, ThreadFacts DEF Balance, IInv, TypeOK, TablesOK
    <2>6. g_AccountInfo'[frame[t].customer] = decr_Balance(Balance(t), Body(t).amount)
      BY <2>3, <2>4 DEF WithdrawWrite
    <2> QED
      BY <2>4, <2>5, <2>6, BalanceUndo
  <1> QED
    BY <1>1, ChargesUndisturbed, PTL DEF ExclusiveSpec, NoOverdraft

\* No step of any thread moves a session to another socket.  It needs neither
\* unique client IDs nor exclusive accounts.
THEOREM SessionsStayOnTheirSocket == Spec => SocketsKept
  <1> DEFINE Act == \A i \in DOMAIN g_SessionInfo \cap DOMAIN g_SessionInfo' :
                      g_SessionInfo'[i].m_pSocket = g_SessionInfo[i].m_pSocket
  <1>1. IInv /\ [Next]_vars => [Act]_vars
    <2> SUFFICES ASSUME IInv, Next
                 PROVE  Act \/ UNCHANGED vars
      OBVIOUS
    <2>1. ASSUME NEW n, NEW sSet, NEW c
          PROVE  \A i \in DOMAIN g_SessionInfo :
                   /\ set_State(g_SessionInfo, n, sSet)[i].m_pSocket = g_SessionInfo[i].m_pSocket
                   /\ set_State(set_CustomerID(g_SessionInfo, n, c), n, sSet)[i].m_pSocket
                        = g_SessionInfo[i].m_pSocket
      <3>1. \A i \in DOMAIN g_SessionInfo : g_SessionInfo[i] \in SessionRecord
        BY DEF IInv, TypeOK, TablesOK
      <3> QED
        BY <3>1 DEF set_State, set_CustomerID, SessionRecord
    <2>2. ASSUME NEW t \in Threads, ClientStep(t) \/ ServerStep(t)
          PROVE  Act
      <3>1. CASE CreateInsert(t) \/ LogonWrite(t) \/ LogoffWrite(t)
        <4>1. \E n, sSet, c :
                g_SessionInfo' \in {set_State(g_SessionInfo, n, sSet),
                                    set_State(set_CustomerID(g_SessionInfo, n, c), n, sSet)}
          BY <3>1 DEF CreateInsert, LogonWrite, LogoffWrite
        <4> QED
          BY <2>1, <4>1
      <3>2. CASE ConnectInsert(t)
        BY <3>2 DEF ConnectInsert, Insert
      <3>3. CASE DisconnectErase(t)
        BY <3>3 DEF DisconnectErase, Erase
      <3>4. CASE UNCHANGED g_SessionInfo
        BY <3>4
      <3>5. \/ CreateInsert(t) \/ LogonWrite(t) \/ LogoffWrite(t) \/ ConnectInsert(t)
            \/ DisconnectErase(t) \/ UNCHANGED g_SessionInfo
        BY <2>2 DEF ClientStep, ServerStep, tables, SendRequest, ReceiveResponse, Close, ReceiveEnd,
                    DisconnectLock, ConnectRead, ConnectLock, FindSession, MissSession,
                    CreateFind, CreateLock, LogonFind, LogoffRead, ReadCustomer, MissAccount,
                    DepositRead, DepositWrite, WithdrawCheck, WithdrawRead, WithdrawWrite,
                    TransactionLock, TransactionSize, TransactionInsert, BalanceRead, HistoryRead,
                    Respond
      <3> QED
        BY <3>1, <3>2, <3>3, <3>4, <3>5
    <2> QED
      BY <2>2 DEF Next, Terminated
  <1> QED
    BY <1>1, Invariance, PTL DEF Spec, SocketsKept

=============================================================================
