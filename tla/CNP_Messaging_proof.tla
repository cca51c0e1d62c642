------------------------ MODULE CNP_Messaging_proof ------------------------
(***************************************************************************)
(* Proofs that the properties of the first part of CNP_Properties hold of  *)
(* every interleaving, for every value of the constants.                   *)
(***************************************************************************)
EXTENDS CNP_Properties, FiniteSetTheorems, TLAPS

\* The widths, as the backends use them.
LEMMA Widths ==
  /\ WordMod \in Nat /\ DwordMod \in Nat /\ WordMod > 1 /\ DwordMod > 1
  /\ 0 \in WORD /\ 1 \in WORD /\ INVALID_CLIENT_ID \in WORD
  /\ 0 \in DWORD /\ INVALID_BALANCE \in DWORD
  /\ WORD \subseteq Nat /\ DWORD \subseteq Nat
  BY WidthAssumption DEF WORD, DWORD, INVALID_CLIENT_ID, INVALID_BALANCE

\* Arithmetic in DWORD width.
LEMMA ModInDword ==
  ASSUME NEW n \in Int
  PROVE  n % DwordMod \in DWORD
  BY Widths DEF DWORD

\* Arithmetic in WORD width.
LEMMA ModInWord ==
  ASSUME NEW n \in Int
  PROVE  n % WordMod \in WORD
  BY Widths DEF WORD

\* A customer ID is a QWORD.
LEMMA CustomerIDType ==
  ASSUME NEW name \in Names, NEW pin \in WORD
  PROVE  GenerateCustomerID(name, pin) \in QWORD
  <1>1. NameHash[name] \in Nat
    BY NameAssumption, Widths
  <1>2. NameHash[name] * WordMod \in Int
    BY <1>1, Widths
  <1>3. (NameHash[name] * WordMod) % DwordMod \in Nat
    BY <1>2, ModInDword, Widths
  <1> QED
    BY <1>3, Widths DEF GenerateCustomerID, QWORD

\* The locals a handler starts with, and those of a thread with no message.
LEMMA IdleFrameType ==
  ASSUME NEW msg \in Request, NEW p \in Threads \cup {NONE}
  PROVE  NewFrame(msg, p) \in Frame /\ IdleFrame \in Frame
  <1>1. "" \in Names /\ NONE \in Threads \cup {NONE}
    BY NameAssumption
  <1>2. EmptyPayload \in Payload(Names)
    BY <1>1, Widths DEF EmptyPayload, Payload, INVALID_PIN
  <1>3. STD_HDR("CONNECT", INVALID_CLIENT_ID, 0, 0) \in Header
    BY Widths DEF STD_HDR, Header, MSG_TYPE
  <1>4. ASSUME NEW m \in Request, NEW q \in Threads \cup {NONE}
        PROVE  NewFrame(m, q) \in Frame
    BY Widths DEF NewFrame, Frame, INVALID_CUSTOMER_ID, QWORD, CER_TYPE
  <1>5. [hdr |-> STD_HDR("CONNECT", INVALID_CLIENT_ID, 0, 0), body |-> EmptyPayload] \in Request
    BY <1>2, <1>3 DEF Request
  <1> QED
    BY <1>1, <1>4, <1>5 DEF IdleFrame

---------------------------------------------------------------------------
(* What most steps have in common                                          *)

\* A step of t that moves its handler to stage s with locals f, leaves the
\* log alone and takes no session and no account away keeps the invariant,
\* if the new stage and locals fit together and the tables it writes keep
\* their type.
LEMMA HandlerStep ==
  ASSUME IInv, NEW t \in Threads, NEW s \in Stages, NEW f \in Frame,
         Goto(t, s, f),
         UNCHANGED <<g_TransactionInfo, g_TransactionMutex>>,
         g_SessionMutex' \in Threads \cup {NONE},
         g_AccountMutex' \in Threads \cup {NONE},
         wClientID' \in [Threads -> WORD],
         TablesOK', ClientsOK',
         DOMAIN g_SessionInfo \subseteq DOMAIN g_SessionInfo',
         DOMAIN g_AccountInfo \subseteq DOMAIN g_AccountInfo',
         \A i \in DOMAIN g_SessionInfo' :
           IsValidCustomerID(g_SessionInfo'[i].m_qwCustomerID) =>
             g_SessionInfo'[i].m_qwCustomerID \in DOMAIN g_AccountInfo',
         FrameOK(t, s, f),
         s \in ChargeStages => f.customer \in DOMAIN g_AccountInfo
  PROVE  IInv'
  <1>1. ThreadsOK'
    BY DEF IInv, TypeOK, ThreadsOK, Goto
  <1>2. IsFiniteSet(DOMAIN g_TransactionInfo)' /\ TransactionIDsSequential'
    BY DEF IInv, TransactionIDsSequential
  <1>3. ASSUME NEW u \in Threads
        PROVE  /\ u = t => stage'[u] = s /\ frame'[u] = f
               /\ u # t => stage'[u] = stage[u] /\ frame'[u] = frame[u]
    BY DEF IInv, TypeOK, ThreadsOK, Goto
  <1>4. CustomersHaveAccounts'
    BY <1>3 DEF IInv, CustomersHaveAccounts
  <1>5. ASSUME NEW u \in Threads
        PROVE  FrameOK(u, stage[u], frame[u])'
    BY <1>3 DEF IInv, FrameOK
  <1> QED
    BY <1>1, <1>2, <1>4, <1>5 DEF IInv, TypeOK

\* The same for a step that writes nothing but the handler's own stage and
\* locals.
LEMMA GotoKeepsIInv ==
  ASSUME IInv, NEW t \in Threads, NEW s \in Stages, NEW f \in Frame,
         Goto(t, s, f), UNCHANGED <<tables, mutexes, wClientID, clients>>,
         FrameOK(t, s, f),
         s \in ChargeStages => f.customer \in DOMAIN g_AccountInfo
  PROVE  IInv'
  <1> USE DEF tables, mutexes, clients
  <1>1. TablesOK' /\ ClientsOK'
    BY DEF IInv, TypeOK, TablesOK, ClientsOK
  <1>2. /\ g_SessionMutex' \in Threads \cup {NONE}
        /\ g_AccountMutex' \in Threads \cup {NONE}
        /\ wClientID' \in [Threads -> WORD]
    BY DEF IInv, TypeOK, ThreadsOK
  <1>3. \A i \in DOMAIN g_SessionInfo' :
          IsValidCustomerID(g_SessionInfo'[i].m_qwCustomerID) =>
            g_SessionInfo'[i].m_qwCustomerID \in DOMAIN g_AccountInfo'
    BY DEF IInv, CustomersHaveAccounts
  <1> QED
    BY <1>1, <1>2, <1>3, HandlerStep

\* A step that changes the stage and leaves the locals is a Goto.
LEMMA StageIsGoto ==
  ASSUME IInv, NEW t \in Threads, NEW s \in Stages,
         stage' = [stage EXCEPT ![t] = s], UNCHANGED frame
  PROVE  Goto(t, s, frame[t])
  BY DEF IInv, TypeOK, ThreadsOK, Goto

\* What the invariant says of one thread.
LEMMA ThreadFacts ==
  ASSUME IInv, NEW t \in Threads
  PROVE  /\ stage[t] \in Stages /\ frame[t] \in Frame /\ wClientID[t] \in WORD
         /\ frame[t].msg \in Request
         /\ frame[t].msg.hdr \in Header /\ Type(t) \in MSG_TYPE
         /\ Body(t) \in Payload(Names) /\ Body(t).amount \in DWORD
         /\ Body(t).name \in Names /\ Body(t).pin \in WORD
         /\ FrameOK(t, stage[t], frame[t])
  <1>1. frame[t] \in Frame /\ stage[t] \in Stages /\ wClientID[t] \in WORD
    BY DEF IInv, TypeOK, ThreadsOK
  <1>2. frame[t].msg \in Request
    BY <1>1 DEF Frame
  <1>3. frame[t].msg.hdr \in Header /\ frame[t].msg.body \in Payload(Names)
    BY <1>2 DEF Request
  <1> QED
    BY <1>1, <1>2, <1>3 DEF IInv, Header, Payload, Type, Body

\* The locals keep their type when one of them is assigned.
LEMMA FrameAssign ==
  ASSUME NEW f \in Frame
  PROVE  /\ \A r \in CER_TYPE : [f EXCEPT !.cerRR = r] \in Frame
         /\ \A c \in QWORD : [f EXCEPT !.customer = c] \in Frame
         /\ \A v \in Nat : [f EXCEPT !.value = v] \in Frame
         /\ \A b \in BOOLEAN : [f EXCEPT !.stale = b] \in Frame
  BY DEF Frame

\* A step that only moves the stage, and may take the session or the account
\* mutex.
LEMMA StageKeepsIInv ==
  ASSUME IInv, NEW t \in Threads, NEW s \in Stages,
         stage' = [stage EXCEPT ![t] = s],
         UNCHANGED <<tables, g_TransactionMutex, frame, wClientID, clients>>,
         g_SessionMutex' \in Threads \cup {NONE},
         g_AccountMutex' \in Threads \cup {NONE},
         FrameOK(t, s, frame[t]), s \notin ChargeStages
  PROVE  IInv'
  <1> USE DEF tables, clients
  <1>1. Goto(t, s, frame[t]) /\ frame[t] \in Frame
    BY StageIsGoto, ThreadFacts
  <1>2. TablesOK' /\ ClientsOK' /\ wClientID' \in [Threads -> WORD]
    BY DEF IInv, TypeOK, TablesOK, ClientsOK, ThreadsOK
  <1> QED
    BY <1>1, <1>2, HandlerStep DEF IInv, CustomersHaveAccounts

\* Leaving a handler's body with an error, or with success where no balance is
\* reported.
LEMMA FinishKeepsIInv ==
  ASSUME IInv, NEW t \in Threads, NEW r \in CER_TYPE, Finish(t, r),
         UNCHANGED <<tables, mutexes, wClientID, clients>>,
         Succeeded(r) => Type(t) # "BALANCE_QUERY"
  PROVE  IInv'
  <1> DEFINE f == [frame[t] EXCEPT !.cerRR = r]
  <1>1. f \in Frame /\ "respond" \in Stages /\ Goto(t, "respond", f)
    BY ThreadFacts, FrameAssign DEF Finish, Stages
  <1>2. f.msg = frame[t].msg /\ f.value = frame[t].value /\ f.cerRR = r
    BY ThreadFacts DEF Frame
  <1>3. FrameOK(t, "respond", f)
    <2>1. f.msg.hdr.type = "CONNECT" => f.value \in WORD
      BY <1>2, ThreadFacts DEF FrameOK
    <2> QED
      BY <1>2, <2>1 DEF FrameOK, Type, SessionStages, ChargeStages
  <1>4. "respond" \notin ChargeStages
    BY DEF ChargeStages
  <1> HIDE DEF f
  <1> QED
    BY <1>1, <1>3, <1>4, GotoKeepsIInv

---------------------------------------------------------------------------
(* ProcessConnectRequest and ProcessDisconnect                             *)

\* Whatever the newest key is, the client ID computed from it is a WORD.
LEMMA ConnectReadStep ==
  ASSUME IInv, NEW t \in Threads, ConnectRead(t)
  PROVE  IInv'
  <1>1. \A id \in NewClientIDs : id \in WORD
    <2> SUFFICES ASSUME NEW id \in NewClientIDs, id # 1, id \notin WORD
                 PROVE  FALSE
      BY Widths
    <2>1. PICK i \in DOMAIN g_SessionInfo : id = (i + 1) % WordMod
      BY DEF NewClientIDs
    <2>2. i + 1 \in Int
      BY Widths DEF IInv, TypeOK, TablesOK
    <2> QED
      BY <2>1, <2>2, ModInWord
  <1>2. CASE \E r \in {"CER_AUTHENICATION_FAILED", "CER_UNSUPPORTED_PROTOCOL"} : Finish(t, r)
    BY <1>2, FinishKeepsIInv DEF ConnectRead, CER_TYPE, Succeeded
  <1>3. CASE \E id \in NewClientIDs :
               Goto(t, "connectLock", [frame[t] EXCEPT !.value = id])
    <2>1. PICK id \in NewClientIDs : Goto(t, "connectLock", [frame[t] EXCEPT !.value = id])
      BY <1>3
    <2> DEFINE f == [frame[t] EXCEPT !.value = id]
    <2>2. f \in Frame /\ "connectLock" \in Stages
      BY <1>1, Widths, ThreadFacts, FrameAssign DEF Stages
    <2>3. f.msg = frame[t].msg /\ f.value = id
      BY ThreadFacts DEF Frame
    <2>4. Type(t) = "CONNECT"
      BY ThreadFacts DEF ConnectRead, At, FrameOK, Type
    <2>5. FrameOK(t, "connectLock", f)
      BY <2>3, <2>4, <1>1 DEF FrameOK, Type, SessionStages, ChargeStages
    <2>6. "connectLock" \notin ChargeStages /\ Goto(t, "connectLock", f)
      BY <2>1 DEF ChargeStages
    <2>7. UNCHANGED <<tables, mutexes, wClientID, clients>>
      BY DEF ConnectRead
    <2> HIDE DEF f
    <2> QED
      BY <2>2, <2>5, <2>6, <2>7, GotoKeepsIInv
  <1> QED
    BY <1>2, <1>3 DEF ConnectRead

\* The four steps that only wait for a mutex, or for the receive loop to see
\* the end of the connection.
LEMMA LockSteps ==
  ASSUME IInv, NEW t \in Threads,
         ConnectLock(t) \/ DisconnectLock(t) \/ CreateLock(t) \/ ReceiveEnd(t)
  PROVE  IInv'
  <1>1. g_SessionMutex \in Threads \cup {NONE} /\ g_AccountMutex \in Threads \cup {NONE}
    BY DEF IInv, TypeOK, ThreadsOK
  <1>2. FrameOK(t, stage[t], frame[t])
    BY ThreadFacts
  <1>3. CASE ConnectLock(t)
    <2>1. FrameOK(t, "connectInsert", frame[t])
      BY <1>2, <1>3 DEF ConnectLock, At, FrameOK, SessionStages, ChargeStages
    <2> QED
      BY <1>1, <1>3, <2>1, StageKeepsIInv DEF ConnectLock, tables, Stages, ChargeStages
  <1>4. CASE DisconnectLock(t)
    <2>1. FrameOK(t, "disconnectErase", frame[t])
      BY <1>2, <1>4 DEF DisconnectLock, At, FrameOK, SessionStages, ChargeStages
    <2> QED
      BY <1>1, <1>4, <2>1, StageKeepsIInv DEF DisconnectLock, tables, Stages, ChargeStages
  <1>5. CASE CreateLock(t)
    <2>1. FrameOK(t, "createInsert", frame[t])
      BY <1>2, <1>5 DEF CreateLock, At, FrameOK, SessionStages, ChargeStages
    <2> QED
      BY <1>1, <1>5, <2>1, StageKeepsIInv DEF CreateLock, tables, Stages, SessionStages, ChargeStages
  <1>6. CASE ReceiveEnd(t)
    <2>1. FrameOK(t, "disconnectLock", frame[t])
      BY <1>2, <1>6 DEF ReceiveEnd, At, FrameOK, SessionStages, ChargeStages
    <2> QED
      BY <1>1, <1>6, <2>1, StageKeepsIInv DEF ReceiveEnd, tables, mutexes, Stages, ChargeStages
  <1> QED
    BY <1>3, <1>4, <1>5, <1>6

\* The insert adds a session that is not logged on, or finds the key taken.
LEMMA ConnectInsertStep ==
  ASSUME IInv, NEW t \in Threads, ConnectInsert(t)
  PROVE  IInv'
  <1> DEFINE f == [frame[t] EXCEPT !.cerRR = "CER_SUCCESS"]
  <1>1. f \in Frame /\ "respond" \in Stages /\ Goto(t, "respond", f)
    BY ThreadFacts, FrameAssign DEF ConnectInsert, Finish, Stages, CER_TYPE
  <1>2. f.msg = frame[t].msg /\ f.value = frame[t].value
    BY ThreadFacts DEF Frame
  <1>3. frame[t].value \in WORD /\ Type(t) = "CONNECT"
    BY ThreadFacts DEF ConnectInsert, At, FrameOK, Type
  <1>4. FrameOK(t, "respond", f) /\ "respond" \notin ChargeStages
    BY <1>2, <1>3 DEF FrameOK, Type, SessionStages, ChargeStages
  <1>5. SESSION_INFO("SS_CONNECTED", t) \in SessionRecord
        /\ ~IsValidCustomerID(SESSION_INFO("SS_CONNECTED", t).m_qwCustomerID)
    BY DEF SESSION_INFO, SessionRecord, SESSION_STATE, QWORD, INVALID_CUSTOMER_ID,
           IsValidCustomerID
  <1>6. /\ DOMAIN g_SessionInfo' = DOMAIN g_SessionInfo \cup {frame[t].value}
        /\ \A i \in DOMAIN g_SessionInfo' :
             g_SessionInfo'[i] = IF i \in DOMAIN g_SessionInfo THEN g_SessionInfo[i]
                                 ELSE SESSION_INFO("SS_CONNECTED", t)
        /\ g_SessionInfo' = [i \in DOMAIN g_SessionInfo' |-> g_SessionInfo'[i]]
    BY DEF ConnectInsert, Insert
  <1> HIDE DEF f
  <1>7. TablesOK'
    BY <1>3, <1>5, <1>6 DEF ConnectInsert, IInv, TypeOK, TablesOK
  <1>8. ClientsOK' /\ wClientID' \in [Threads -> WORD]
        /\ g_SessionMutex' \in Threads \cup {NONE} /\ g_AccountMutex' \in Threads \cup {NONE}
        /\ UNCHANGED <<g_AccountInfo, g_TransactionInfo, g_TransactionMutex>>
    BY DEF ConnectInsert, IInv, TypeOK, ClientsOK, ThreadsOK, clients
  <1>9. \A i \in DOMAIN g_SessionInfo' :
          IsValidCustomerID(g_SessionInfo'[i].m_qwCustomerID) =>
            g_SessionInfo'[i].m_qwCustomerID \in DOMAIN g_AccountInfo'
    BY <1>5, <1>6, <1>8 DEF IInv, CustomersHaveAccounts
  <1> QED
    BY <1>1, <1>4, <1>6, <1>7, <1>8, <1>9, HandlerStep

---------------------------------------------------------------------------
(* Finding the session, the account and the customer                       *)

\* The iterator is good, and the next stage fits the type of the message.
LEMMA FindSessionStep ==
  ASSUME IInv, NEW t \in Threads, FindSession(t)
  PROVE  IInv'
  <1> DEFINE cid == frame[t].msg.hdr.cid
             s == AfterFind(Type(t))
             f == [frame[t] EXCEPT !.itS = cid, !.stale = FALSE,
                                   !.pSocket = g_SessionInfo[cid].m_pSocket]
  <1>1. cid \in DOMAIN g_SessionInfo /\ Goto(t, s, f)
    BY DEF FindSession, MayFind
  <1>2. cid \in WORD /\ g_SessionInfo[cid].m_pSocket \in Threads
    BY <1>1 DEF IInv, TypeOK, TablesOK, SessionRecord
  <1>3. f \in Frame
    BY <1>2, ThreadFacts DEF Frame
  <1>4. f.msg = frame[t].msg /\ f.value = frame[t].value /\ f.itS = cid
    BY ThreadFacts DEF Frame
  <1>5. s \in {"createFind", "logonFind", "logoffRead", "customer"}
    BY DEF AfterFind
  <1>6. FrameOK(t, s, f)
    <2>1. s # "customer" => Type(t) \in {"CREATE_ACCOUNT", "LOGON", "LOGOFF"}
      BY DEF AfterFind
    <2> QED
      BY <1>1, <1>4, <1>5, <2>1, ThreadFacts DEF FrameOK, ChargeStages, Type
  <1>7. s \in Stages /\ s \notin ChargeStages
    BY <1>5 DEF Stages, SessionStages, ChargeStages
  <1>8. UNCHANGED <<tables, mutexes, wClientID, clients>>
    BY DEF FindSession
  <1> HIDE DEF s, f
  <1> QED
    BY <1>1, <1>3, <1>6, <1>7, <1>8, GotoKeepsIInv

\* The two failed lookups.
LEMMA MissSteps ==
  ASSUME IInv, NEW t \in Threads, MissSession(t) \/ MissAccount(t)
  PROVE  IInv'
  BY FinishKeepsIInv DEF MissSession, MissAccount, CER_TYPE, Succeeded

\* The customer ID a handler computes or reads has its type.
LEMMA CustomerTypes ==
  ASSUME IInv, NEW t \in Threads
  PROVE  /\ CredentialsID(t) \in QWORD
         /\ stage[t] \in SessionStages => CustomersRead(t) \subseteq QWORD
         /\ stage[t] \in SessionStages =>
              \A c \in CustomersRead(t) :
                IsValidCustomerID(c) /\ ~frame[t].stale => c \in DOMAIN g_AccountInfo
  <1>1. CredentialsID(t) \in QWORD
    BY ThreadFacts, CustomerIDType DEF CredentialsID
  <1>2. ASSUME stage[t] \in SessionStages, ~frame[t].stale
        PROVE  frame[t].itS \in DOMAIN g_SessionInfo
    BY <1>2, ThreadFacts DEF FrameOK
  <1>3. ASSUME NEW i \in DOMAIN g_SessionInfo
        PROVE  g_SessionInfo[i].m_qwCustomerID \in QWORD
    BY DEF IInv, TypeOK, TablesOK, SessionRecord
  <1> QED
    BY <1>1, <1>2, <1>3, Widths
       DEF CustomersRead, QWORD, IInv, CustomersHaveAccounts

\* Moving on with a customer ID.
LEMMA CustomerKeepsIInv ==
  ASSUME IInv, NEW t \in Threads, NEW c \in QWORD,
         stage[t] \in SessionStages,
         NEW s \in {"createLock", "logonWrite", "logoffWrite", "account"},
         Goto(t, s, [frame[t] EXCEPT !.customer = c]),
         UNCHANGED <<tables, mutexes, wClientID, clients>>,
         s # "account" => stage[t] # "customer",
         s = "logonWrite" => c \in DOMAIN g_AccountInfo
  PROVE  IInv'
  <1> DEFINE f == [frame[t] EXCEPT !.customer = c]
  <1>1. f \in Frame /\ s \in Stages /\ s \notin ChargeStages
    BY ThreadFacts, FrameAssign DEF Stages, SessionStages, ChargeStages
  <1>2. /\ f.msg = frame[t].msg /\ f.value = frame[t].value /\ f.itS = frame[t].itS
        /\ f.stale = frame[t].stale /\ f.customer = c
    BY ThreadFacts DEF Frame
  <1>3. FrameOK(t, s, f)
    <2>1. s # "account" => f.msg.hdr.type \in {"CREATE_ACCOUNT", "LOGON", "LOGOFF"}
      BY <1>2, ThreadFacts DEF FrameOK
    <2>2. f.msg.hdr.type = "CONNECT" => f.value \in WORD
      BY <1>2, ThreadFacts DEF FrameOK
    <2>3. ~f.stale => f.itS \in DOMAIN g_SessionInfo
      BY <1>2, ThreadFacts DEF FrameOK
    <2> QED
      BY <1>1, <1>2, <2>1, <2>2, <2>3 DEF FrameOK, SessionStages
  <1>4. Goto(t, s, f)
    OBVIOUS
  <1> HIDE DEF f
  <1> QED
    BY <1>1, <1>3, <1>4, GotoKeepsIInv

\* ProcessCreateAccountRequest up to its lock.
LEMMA CreateFindStep ==
  ASSUME IInv, NEW t \in Threads, CreateFind(t)
  PROVE  IInv'
  <1>1. CASE \E r \in {"CER_INVALID_NAME_PIN", "CER_ACCOUNT_EXISTS"} : Finish(t, r)
    BY <1>1, FinishKeepsIInv DEF CreateFind, CER_TYPE, Succeeded
  <1>2. CASE Goto(t, "createLock", [frame[t] EXCEPT !.customer = CredentialsID(t)])
    BY <1>2, CustomerTypes, CustomerKeepsIInv DEF CreateFind, At, SessionStages
  <1> QED
    BY <1>1, <1>2 DEF CreateFind

\* ProcessLogonRequest goes on only with an account that is there.
LEMMA LogonFindStep ==
  ASSUME IInv, NEW t \in Threads, LogonFind(t)
  PROVE  IInv'
  <1>1. CASE \E r \in {"CER_INVALID_NAME_PIN", "CER_ACCOUNT_NOT_FOUND"} : Finish(t, r)
    BY <1>1, FinishKeepsIInv DEF LogonFind, CER_TYPE, Succeeded
  <1>2. CASE /\ MayFind(g_AccountInfo, CredentialsID(t))
             /\ Goto(t, "logonWrite", [frame[t] EXCEPT !.customer = CredentialsID(t)])
    BY <1>2, CustomerTypes, CustomerKeepsIInv DEF LogonFind, At, SessionStages, MayFind
  <1> QED
    BY <1>1, <1>2 DEF LogonFind

\* ProcessLogoffRequest reads its session.
LEMMA LogoffReadStep ==
  ASSUME IInv, NEW t \in Threads, LogoffRead(t)
  PROVE  IInv'
  BY CustomerTypes, CustomerKeepsIInv DEF LogoffRead, At, SessionStages

\* The handlers that work on an account read their session.
LEMMA ReadCustomerStep ==
  ASSUME IInv, NEW t \in Threads, ReadCustomer(t)
  PROVE  IInv'
  <1>1. PICK c \in CustomersRead(t) :
          IF IsValidCustomerID(c)
          THEN Goto(t, "account", [frame[t] EXCEPT !.customer = c])
          ELSE Finish(t, NotLoggedOn(Type(t)))
    BY DEF ReadCustomer
  <1>2. stage[t] \in SessionStages /\ c \in QWORD
    BY CustomerTypes DEF ReadCustomer, At, SessionStages
  <1>3. UNCHANGED <<tables, mutexes, wClientID, clients>>
    BY DEF ReadCustomer
  <1>4. CASE IsValidCustomerID(c)
    BY <1>1, <1>2, <1>3, <1>4, CustomerKeepsIInv
  <1>5. CASE ~IsValidCustomerID(c)
    BY <1>1, <1>3, <1>5, FinishKeepsIInv DEF NotLoggedOn, CER_TYPE, Succeeded
  <1> QED
    BY <1>4, <1>5

---------------------------------------------------------------------------
(* Writing an account and a session                                        *)

\* set_State and set_CustomerID keep the table's keys, its types, and the
\* customers but for the one written.
LEMMA SessionWrites ==
  ASSUME IInv, NEW n, NEW sSet \in SESSION_STATE, NEW c \in QWORD
  PROVE  LET tbl == set_CustomerID(g_SessionInfo, n, c)
         IN  /\ set_State(g_SessionInfo, n, sSet) \in [DOMAIN g_SessionInfo -> SessionRecord]
             /\ set_State(tbl, n, sSet) \in [DOMAIN g_SessionInfo -> SessionRecord]
             /\ \A i \in DOMAIN g_SessionInfo :
                  /\ set_State(g_SessionInfo, n, sSet)[i].m_qwCustomerID
                       = g_SessionInfo[i].m_qwCustomerID
                  /\ set_State(tbl, n, sSet)[i].m_qwCustomerID
                       \in {c, g_SessionInfo[i].m_qwCustomerID}
  <1> DEFINE tbl == set_CustomerID(g_SessionInfo, n, c)
  <1>1. \A i \in DOMAIN g_SessionInfo : g_SessionInfo[i] \in SessionRecord
    BY DEF IInv, TypeOK, TablesOK
  <1>2. tbl \in [DOMAIN g_SessionInfo -> SessionRecord]
    BY <1>1 DEF set_CustomerID, SessionRecord
  <1>3. \A i \in DOMAIN g_SessionInfo :
          tbl[i].m_qwCustomerID \in {c, g_SessionInfo[i].m_qwCustomerID}
    BY <1>1 DEF set_CustomerID, SessionRecord
  <1>4. ASSUME NEW u \in [DOMAIN g_SessionInfo -> SessionRecord]
        PROVE  /\ set_State(u, n, sSet) \in [DOMAIN g_SessionInfo -> SessionRecord]
               /\ \A i \in DOMAIN g_SessionInfo :
                    set_State(u, n, sSet)[i].m_qwCustomerID = u[i].m_qwCustomerID
    BY DEF set_State, SessionRecord
  <1>5. g_SessionInfo \in [DOMAIN g_SessionInfo -> SessionRecord]
    BY DEF IInv, TypeOK, TablesOK
  <1> HIDE DEF tbl
  <1>6. QED
    BY <1>2, <1>3, <1>4, <1>5 DEF tbl

\* The end of the handlers that write their session and report no balance.
LEMMA SessionWriteKeepsIInv ==
  ASSUME IInv, NEW t \in Threads, NEW r \in CER_TYPE, Finish(t, r),
         Succeeded(r) => Type(t) # "BALANCE_QUERY",
         TablesOK', UNCHANGED <<g_TransactionInfo, g_TransactionMutex, wClientID, clients>>,
         g_SessionMutex' \in Threads \cup {NONE},
         g_AccountMutex' \in Threads \cup {NONE},
         DOMAIN g_SessionInfo \subseteq DOMAIN g_SessionInfo',
         DOMAIN g_AccountInfo \subseteq DOMAIN g_AccountInfo',
         \A i \in DOMAIN g_SessionInfo' :
           IsValidCustomerID(g_SessionInfo'[i].m_qwCustomerID) =>
             g_SessionInfo'[i].m_qwCustomerID \in DOMAIN g_AccountInfo'
  PROVE  IInv'
  <1> DEFINE f == [frame[t] EXCEPT !.cerRR = r]
  <1>1. f \in Frame /\ "respond" \in Stages /\ Goto(t, "respond", f)
    BY ThreadFacts, FrameAssign DEF Finish, Stages
  <1>2. f.msg = frame[t].msg /\ f.value = frame[t].value /\ f.cerRR = r
    BY ThreadFacts DEF Frame
  <1>3. FrameOK(t, "respond", f)
    <2>1. f.msg.hdr.type = "CONNECT" => f.value \in WORD
      BY <1>2, ThreadFacts DEF FrameOK
    <2> QED
      BY <1>2, <2>1 DEF FrameOK, Type, SessionStages, ChargeStages
  <1>4. "respond" \notin ChargeStages
    BY DEF ChargeStages
  <1>5. ClientsOK' /\ wClientID' \in [Threads -> WORD]
    BY DEF clients, IInv, TypeOK, ClientsOK, ThreadsOK
  <1> HIDE DEF f
  <1> QED
    BY <1>1, <1>3, <1>4, <1>5, HandlerStep

\* The new account and the write to the session, or to a freed node.
LEMMA CreateInsertStep ==
  ASSUME IInv, NEW t \in Threads, CreateInsert(t)
  PROVE  IInv'
  <1>1. PICK n \in NodesWritten(t) :
          g_SessionInfo' = set_State(g_SessionInfo, n, "SS_ACCOUNT_CREATED")
    BY DEF CreateInsert
  <1>2. /\ g_SessionInfo' \in [DOMAIN g_SessionInfo -> SessionRecord]
        /\ \A i \in DOMAIN g_SessionInfo :
             g_SessionInfo'[i].m_qwCustomerID = g_SessionInfo[i].m_qwCustomerID
    BY <1>1, SessionWrites DEF SESSION_STATE, QWORD
  <1>3. frame[t].customer \in QWORD
    BY ThreadFacts DEF Frame
  <1>4. /\ g_AccountInfo' = [k \in DOMAIN g_AccountInfo' |-> g_AccountInfo'[k]]
        /\ DOMAIN g_AccountInfo' = DOMAIN g_AccountInfo \cup {frame[t].customer}
        /\ \A k \in DOMAIN g_AccountInfo' :
             g_AccountInfo'[k] = IF k \in DOMAIN g_AccountInfo THEN g_AccountInfo[k] ELSE 0
    BY DEF CreateInsert, Insert
  <1>5. TablesOK'
    BY <1>2, <1>3, <1>4, Widths DEF CreateInsert, IInv, TypeOK, TablesOK
  <1>6. Type(t) # "BALANCE_QUERY"
    BY ThreadFacts DEF CreateInsert, At, FrameOK, SessionStages, Type
  <1>7. /\ UNCHANGED <<g_TransactionInfo, g_TransactionMutex, wClientID, clients>>
        /\ g_SessionMutex' \in Threads \cup {NONE} /\ g_AccountMutex' \in Threads \cup {NONE}
        /\ Finish(t, "CER_SUCCESS") /\ "CER_SUCCESS" \in CER_TYPE
    BY DEF CreateInsert, IInv, TypeOK, ThreadsOK, CER_TYPE
  <1> QED
    BY <1>2, <1>4, <1>5, <1>6, <1>7, SessionWriteKeepsIInv DEF IInv, CustomersHaveAccounts

\* The customer a logon writes has an account.
LEMMA LogonWriteStep ==
  ASSUME IInv, NEW t \in Threads, LogonWrite(t)
  PROVE  IInv'
  <1> DEFINE c == frame[t].customer
  <1>1. PICK n \in NodesWritten(t) :
          g_SessionInfo' = set_State(set_CustomerID(g_SessionInfo, n, c), n, "SS_LOGGED_ON")
    BY DEF LogonWrite
  <1>2. c \in QWORD /\ c \in DOMAIN g_AccountInfo /\ Type(t) # "BALANCE_QUERY"
    BY ThreadFacts DEF LogonWrite, At, FrameOK, SessionStages, Type, Frame
  <1>3. /\ g_SessionInfo' \in [DOMAIN g_SessionInfo -> SessionRecord]
        /\ \A i \in DOMAIN g_SessionInfo :
             g_SessionInfo'[i].m_qwCustomerID \in {c, g_SessionInfo[i].m_qwCustomerID}
    BY <1>1, <1>2, SessionWrites DEF SESSION_STATE
  <1>4. TablesOK'
    BY <1>3 DEF LogonWrite, IInv, TypeOK, TablesOK
  <1>5. /\ UNCHANGED <<g_AccountInfo, g_TransactionInfo, g_TransactionMutex, wClientID, clients>>
        /\ g_SessionMutex' \in Threads \cup {NONE} /\ g_AccountMutex' \in Threads \cup {NONE}
        /\ Finish(t, "CER_SUCCESS") /\ "CER_SUCCESS" \in CER_TYPE
    BY DEF LogonWrite, mutexes, IInv, TypeOK, ThreadsOK, CER_TYPE
  <1> QED
    BY <1>2, <1>3, <1>4, <1>5, SessionWriteKeepsIInv DEF IInv, CustomersHaveAccounts

\* A logoff writes no customer or leaves the one there.
LEMMA LogoffWriteStep ==
  ASSUME IInv, NEW t \in Threads, LogoffWrite(t)
  PROVE  IInv'
  <1> DEFINE on == IsValidCustomerID(frame[t].customer)
             r  == IF on THEN "CER_SUCCESS" ELSE "CER_CLIENT_NOT_LOGGEDON"
  <1>1. PICK n \in NodesWritten(t) :
          g_SessionInfo' =
            set_State(IF on THEN set_CustomerID(g_SessionInfo, n, INVALID_CUSTOMER_ID)
                      ELSE g_SessionInfo, n, "SS_LOGGED_OFF")
    BY DEF LogoffWrite
  <1>2. Type(t) # "BALANCE_QUERY"
    BY ThreadFacts DEF LogoffWrite, At, FrameOK, SessionStages, Type
  <1>3. /\ g_SessionInfo' \in [DOMAIN g_SessionInfo -> SessionRecord]
        /\ \A i \in DOMAIN g_SessionInfo :
             g_SessionInfo'[i].m_qwCustomerID
               \in {INVALID_CUSTOMER_ID, g_SessionInfo[i].m_qwCustomerID}
    <2>1. INVALID_CUSTOMER_ID \in QWORD /\ "SS_LOGGED_OFF" \in SESSION_STATE
      BY DEF INVALID_CUSTOMER_ID, QWORD, SESSION_STATE
    <2>2. CASE on
      BY <1>1, <2>1, <2>2, SessionWrites
    <2>3. CASE ~on
      BY <1>1, <2>1, <2>3, SessionWrites
    <2> QED
      BY <2>2, <2>3
  <1>4. TablesOK'
    BY <1>3 DEF LogoffWrite, IInv, TypeOK, TablesOK
  <1>5. /\ UNCHANGED <<g_AccountInfo, g_TransactionInfo, g_TransactionMutex, wClientID, clients>>
        /\ g_SessionMutex' \in Threads \cup {NONE} /\ g_AccountMutex' \in Threads \cup {NONE}
        /\ Finish(t, r) /\ r \in CER_TYPE
    BY DEF LogoffWrite, mutexes, IInv, TypeOK, ThreadsOK, CER_TYPE
  <1> HIDE DEF r
  <1>6. \A i \in DOMAIN g_SessionInfo' :
          IsValidCustomerID(g_SessionInfo'[i].m_qwCustomerID) =>
            g_SessionInfo'[i].m_qwCustomerID \in DOMAIN g_AccountInfo'
    BY <1>3, <1>5 DEF IInv, CustomersHaveAccounts, IsValidCustomerID
  <1> QED
    BY <1>2, <1>3, <1>4, <1>5, <1>6, SessionWriteKeepsIInv

---------------------------------------------------------------------------
(* Working on an account                                                   *)

\* A thread that found its account reads a DWORD from it.
LEMMA BalanceType ==
  ASSUME IInv, NEW t \in Threads, frame[t].customer \in DOMAIN g_AccountInfo
  PROVE  Balance(t) \in DWORD /\ Balance(t) \in Nat
  BY Widths DEF IInv, TypeOK, TablesOK, Balance

\* The load of +=.
LEMMA DepositReadStep ==
  ASSUME IInv, NEW t \in Threads, DepositRead(t)
  PROVE  IInv'
  <1> DEFINE f == [frame[t] EXCEPT !.value = Balance(t)]
  <1>1. frame[t].customer \in DOMAIN g_AccountInfo /\ Type(t) = "DEPOSIT"
    BY DEF DepositRead, MayFind
  <1>2. f \in Frame /\ "incr" \in Stages
    BY <1>1, BalanceType, ThreadFacts, FrameAssign DEF Stages
  <1>3. f.msg = frame[t].msg /\ f.customer = frame[t].customer
    BY ThreadFacts DEF Frame
  <1>4. FrameOK(t, "incr", f)
    BY <1>1, <1>3 DEF FrameOK, Type, SessionStages, TransactionTypes
  <1>5. Goto(t, "incr", f) /\ UNCHANGED <<tables, mutexes, wClientID, clients>>
    BY DEF DepositRead
  <1> HIDE DEF f
  <1> QED
    BY <1>1, <1>2, <1>3, <1>4, <1>5, GotoKeepsIInv

\* The check of the funds.
LEMMA WithdrawCheckStep ==
  ASSUME IInv, NEW t \in Threads, WithdrawCheck(t)
  PROVE  IInv'
  <1>1. /\ frame[t].customer \in DOMAIN g_AccountInfo
        /\ Type(t) \in {"WITHDRAWAL", "STAMP_PURCHASE"}
        /\ UNCHANGED <<tables, mutexes, wClientID, clients>>
    BY DEF WithdrawCheck, MayFind
  <1>2. CASE Goto(t, "decrRead", frame[t])
    <2>1. FrameOK(t, "decrRead", frame[t])
      BY <1>1 DEF FrameOK, Type, SessionStages, TransactionTypes
    <2> QED
      BY <1>1, <1>2, <2>1, ThreadFacts, GotoKeepsIInv DEF Stages
  <1>3. CASE Finish(t, "CER_INSUFFICIENT_FUNDS")
    BY <1>1, <1>3, FinishKeepsIInv DEF CER_TYPE, Succeeded
  <1> QED
    BY <1>2, <1>3 DEF WithdrawCheck

\* The load of -=.
LEMMA WithdrawReadStep ==
  ASSUME IInv, NEW t \in Threads, WithdrawRead(t)
  PROVE  IInv'
  <1> DEFINE f == [frame[t] EXCEPT !.value = Balance(t)]
  <1>1. frame[t].customer \in DOMAIN g_AccountInfo /\ Type(t) \in TransactionTypes
    BY ThreadFacts
       DEF WithdrawRead, At, IInv, CustomersHaveAccounts, ChargeStages, FrameOK, Type
  <1>2. f \in Frame /\ "decrWrite" \in Stages
    BY <1>1, BalanceType, ThreadFacts, FrameAssign DEF Stages
  <1>3. f.msg = frame[t].msg /\ f.customer = frame[t].customer
    BY ThreadFacts DEF Frame
  <1>4. FrameOK(t, "decrWrite", f)
    BY <1>1, <1>3 DEF FrameOK, Type, SessionStages, TransactionTypes
  <1>5. Goto(t, "decrWrite", f) /\ UNCHANGED <<tables, mutexes, wClientID, clients>>
    BY DEF WithdrawRead
  <1> HIDE DEF f
  <1> QED
    BY <1>1, <1>2, <1>3, <1>4, <1>5, GotoKeepsIInv

\* The store of += or -= keeps the tables typed, whatever was loaded.
LEMMA BalanceWriteKeepsIInv ==
  ASSUME IInv, NEW t \in Threads, NEW v \in DWORD,
         stage[t] \in {"incr", "decrWrite"},
         g_AccountInfo' = [g_AccountInfo EXCEPT ![frame[t].customer] = v],
         stage' = [stage EXCEPT ![t] = "transLock"],
         UNCHANGED <<g_SessionInfo, g_TransactionInfo, mutexes, frame, wClientID, clients>>
  PROVE  IInv'
  <1>1. frame[t].customer \in DOMAIN g_AccountInfo
    BY DEF IInv, CustomersHaveAccounts, ChargeStages
  <1>2. frame[t] \in Frame /\ "transLock" \in Stages /\ Goto(t, "transLock", frame[t])
    BY ThreadFacts, StageIsGoto DEF Stages
  <1>3. FrameOK(t, "transLock", frame[t])
    BY ThreadFacts DEF FrameOK, SessionStages, ChargeStages
  <1>4. /\ DOMAIN g_AccountInfo' = DOMAIN g_AccountInfo
        /\ g_AccountInfo' \in [DOMAIN g_AccountInfo -> DWORD]
    BY DEF IInv, TypeOK, TablesOK
  <1>5. TablesOK'
    BY <1>4 DEF IInv, TypeOK, TablesOK
  <1>6. /\ ClientsOK' /\ wClientID' \in [Threads -> WORD]
        /\ g_SessionMutex' \in Threads \cup {NONE} /\ g_AccountMutex' \in Threads \cup {NONE}
        /\ UNCHANGED <<g_TransactionInfo, g_TransactionMutex, g_SessionInfo>>
    BY DEF IInv, TypeOK, ClientsOK, ThreadsOK, clients, mutexes
  <1>7. \A i \in DOMAIN g_SessionInfo' :
          IsValidCustomerID(g_SessionInfo'[i].m_qwCustomerID) =>
            g_SessionInfo'[i].m_qwCustomerID \in DOMAIN g_AccountInfo'
    BY <1>4, <1>6 DEF IInv, CustomersHaveAccounts
  <1> QED
    BY <1>1, <1>2, <1>3, <1>4, <1>5, <1>6, <1>7, HandlerStep

\* Balance arithmetic stays in DWORD width.
LEMMA BalanceArithmetic ==
  ASSUME NEW balance \in Nat, NEW amount \in DWORD
  PROVE  incr_Balance(balance, amount) \in DWORD /\ decr_Balance(balance, amount) \in DWORD
  <1>1. balance + amount \in Int /\ balance - amount \in Int
    BY DEF DWORD
  <1> QED
    BY <1>1, ModInDword DEF incr_Balance, decr_Balance

\* The stores of += and -=.
LEMMA BalanceWriteSteps ==
  ASSUME IInv, NEW t \in Threads, DepositWrite(t) \/ WithdrawWrite(t)
  PROVE  IInv'
  <1>1. frame[t].value \in Nat /\ Body(t).amount \in DWORD
    BY ThreadFacts DEF Frame
  <1>2. /\ incr_Balance(frame[t].value, Body(t).amount) \in DWORD
        /\ decr_Balance(frame[t].value, Body(t).amount) \in DWORD
    BY <1>1, BalanceArithmetic
  <1> QED
    BY <1>2, BalanceWriteKeepsIInv DEF DepositWrite, WithdrawWrite, At

\* A balance query reads a DWORD.
LEMMA BalanceReadStep ==
  ASSUME IInv, NEW t \in Threads, BalanceRead(t)
  PROVE  IInv'
  <1> DEFINE f == [frame[t] EXCEPT !.value = Balance(t), !.cerRR = "CER_SUCCESS"]
  <1>1. frame[t].customer \in DOMAIN g_AccountInfo /\ Type(t) = "BALANCE_QUERY"
    BY DEF BalanceRead, MayFind
  <1>2. f \in Frame /\ "respond" \in Stages
    BY <1>1, BalanceType, ThreadFacts DEF Frame, CER_TYPE, Stages
  <1>3. f.msg = frame[t].msg /\ f.value = Balance(t)
    BY ThreadFacts DEF Frame
  <1>4. FrameOK(t, "respond", f) /\ "respond" \notin ChargeStages
    BY <1>1, <1>3, BalanceType DEF FrameOK, Type, SessionStages, ChargeStages
  <1>5. Goto(t, "respond", f) /\ UNCHANGED <<tables, mutexes, wClientID, clients>>
    BY DEF BalanceRead
  <1> HIDE DEF f
  <1> QED
    BY <1>2, <1>4, <1>5, GotoKeepsIInv

\* A history query reads some of the log.
LEMMA HistoryReadStep ==
  ASSUME IInv, NEW t \in Threads, HistoryRead(t)
  PROVE  IInv'
  <1>1. PICK seen \in SUBSET DOMAIN g_TransactionInfo :
          Goto(t, "respond",
               [frame[t] EXCEPT
                  !.list = Collect([i \in seen |-> g_TransactionInfo[i]],
                                   frame[t].customer, Body(t).start, Body(t).count),
                  !.cerRR = "CER_SUCCESS"])
    BY DEF HistoryRead
  <1> DEFINE ids == Collect([i \in seen |-> g_TransactionInfo[i]],
                            frame[t].customer, Body(t).start, Body(t).count)
             f == [frame[t] EXCEPT !.list = ids, !.cerRR = "CER_SUCCESS"]
  <1>2. ids \in SUBSET Nat
    BY DEF Collect, IInv, TypeOK, TablesOK
  <1>3. Goto(t, "respond", f)
    BY <1>1
  <1> HIDE DEF ids
  <1>4. f \in Frame /\ "respond" \in Stages /\ f.msg = frame[t].msg
    BY <1>2, ThreadFacts DEF Frame, CER_TYPE, Stages
  <1>5. Type(t) = "TRANSACTION_QUERY" /\ UNCHANGED <<tables, mutexes, wClientID, clients>>
    BY DEF HistoryRead
  <1>6. FrameOK(t, "respond", f) /\ "respond" \notin ChargeStages
    BY <1>4, <1>5 DEF FrameOK, Type, SessionStages, ChargeStages
  <1> HIDE DEF f
  <1> QED
    BY <1>3, <1>4, <1>5, <1>6, GotoKeepsIInv

---------------------------------------------------------------------------
(* The log: one handler at a time between its lock and its unlock          *)

\* The lock lets one handler in: no other one is past its own.
LEMMA TransactionLockStep ==
  ASSUME IInv, NEW t \in Threads, TransactionLock(t)
  PROVE  IInv'
  <1> USE DEF tables, clients
  <1>1. TablesOK' /\ ClientsOK'
    BY DEF TransactionLock, IInv, TypeOK, TablesOK, ClientsOK
  <1>2. ThreadsOK'
    BY DEF TransactionLock, IInv, TypeOK, ThreadsOK, Stages
  <1>3. IsFiniteSet(DOMAIN g_TransactionInfo)' /\ TransactionIDsSequential'
    BY DEF TransactionLock, IInv, TransactionIDsSequential
  <1>4. ASSUME NEW u \in Threads
        PROVE  /\ u = t => stage'[u] = "transSize"
               /\ u # t => stage'[u] = stage[u]
               /\ stage[t] = "transLock"
    BY DEF TransactionLock, At, IInv, TypeOK, ThreadsOK
  <1>5. CustomersHaveAccounts'
    BY <1>4 DEF TransactionLock, IInv, CustomersHaveAccounts, ChargeStages
  <1>6. ASSUME NEW u \in Threads
        PROVE  FrameOK(u, stage[u], frame[u])'
    <2>1. frame'[u] = frame[u] /\ UNCHANGED <<g_SessionInfo, g_AccountInfo, g_TransactionInfo>>
      BY DEF TransactionLock
    <2>2. FrameOK(u, stage[u], frame[u])
      BY DEF IInv
    <2>3. CASE u = t
      <3>1. stage'[u] = "transSize" /\ stage[u] = "transLock" /\ g_TransactionMutex' = u
        BY <1>4, <2>3 DEF TransactionLock
      <3> QED
        BY <2>1, <2>2, <3>1 DEF FrameOK, SessionStages, ChargeStages
    <2>4. CASE u # t
      <3>1. stage'[u] = stage[u] /\ stage[u] \notin {"transSize", "transInsert"}
        BY <1>4, <2>2, <2>4, MessagingAssumption DEF TransactionLock, FrameOK
      <3> QED
        BY <2>1, <2>2, <3>1 DEF FrameOK
    <2> QED
      BY <2>3, <2>4
  <1> QED
    BY <1>1, <1>2, <1>3, <1>5, <1>6 DEF IInv, TypeOK

\* The ID is computed under the lock.
LEMMA TransactionSizeStep ==
  ASSUME IInv, NEW t \in Threads, TransactionSize(t)
  PROVE  IInv'
  <1> DEFINE n == Cardinality(DOMAIN g_TransactionInfo) + 1
             f == [frame[t] EXCEPT !.value = n]
  <1>1. n \in Nat
    BY FS_CardinalityType DEF IInv
  <1>2. f \in Frame /\ "transInsert" \in Stages
    BY <1>1, ThreadFacts, FrameAssign DEF Stages
  <1>3. f.msg = frame[t].msg /\ f.customer = frame[t].customer /\ f.value = n
    BY ThreadFacts DEF Frame
  <1>4. g_TransactionMutex = t /\ Type(t) \in TransactionTypes
    BY ThreadFacts DEF TransactionSize, At, FrameOK, ChargeStages, Type
  <1>5. FrameOK(t, "transInsert", f)
    BY <1>3, <1>4 DEF FrameOK, Type, SessionStages, TransactionTypes
  <1>6. frame[t].customer \in DOMAIN g_AccountInfo
    BY DEF TransactionSize, At, IInv, CustomersHaveAccounts, ChargeStages
  <1>7. Goto(t, "transInsert", f) /\ UNCHANGED <<tables, mutexes, wClientID, clients>>
    BY DEF TransactionSize
  <1> HIDE DEF f, n
  <1> QED
    BY <1>2, <1>3, <1>5, <1>6, <1>7, GotoKeepsIInv

\* What the insert adds to the log.
LEMMA TransactionInsertFacts ==
  ASSUME IInv, NEW t \in Threads, TransactionInsert(t)
  PROVE  LET id  == Cardinality(DOMAIN g_TransactionInfo) + 1
             rec == TRANSACTION_INFO(Body(t).amount, Type(t), frame[t].customer)
         IN  /\ id \in Nat /\ id \notin DOMAIN g_TransactionInfo
             /\ DOMAIN g_TransactionInfo' = DOMAIN g_TransactionInfo \cup {id}
             /\ g_TransactionInfo' = [i \in DOMAIN g_TransactionInfo' |-> g_TransactionInfo'[i]]
             /\ \A i \in DOMAIN g_TransactionInfo : g_TransactionInfo'[i] = g_TransactionInfo[i]
             /\ g_TransactionInfo'[id] = rec /\ rec \in Transaction
             /\ rec.customer \in DOMAIN g_AccountInfo
             /\ \A u \in Threads \ {t} : stage[u] \notin {"transSize", "transInsert"}
  <1> DEFINE n   == Cardinality(DOMAIN g_TransactionInfo)
             rec == TRANSACTION_INFO(Body(t).amount, Type(t), frame[t].customer)
  <1>1. n \in Nat /\ DOMAIN g_TransactionInfo = 1 .. n
    BY FS_CardinalityType DEF IInv, TransactionIDsSequential
  <1>2. /\ frame[t].value = n + 1 /\ g_TransactionMutex = t
        /\ Type(t) \in TransactionTypes
    BY ThreadFacts DEF TransactionInsert, At, FrameOK, ChargeStages, Type
  <1>3. \A u \in Threads \ {t} : stage[u] \notin {"transSize", "transInsert"}
    BY <1>2, ThreadFacts DEF FrameOK
  <1>4. frame[t].customer \in DOMAIN g_AccountInfo /\ frame[t].customer \in QWORD
    BY ThreadFacts
       DEF TransactionInsert, At, IInv, CustomersHaveAccounts, ChargeStages, Frame
  <1>5. rec \in Transaction /\ rec.customer = frame[t].customer
    BY <1>2, <1>4, ThreadFacts DEF TRANSACTION_INFO, Transaction
  <1>6. g_TransactionInfo' = Insert(g_TransactionInfo, n + 1, rec)
    BY <1>2 DEF TransactionInsert
  <1>7. n + 1 \in Nat /\ n + 1 \notin DOMAIN g_TransactionInfo
    BY <1>1
  <1> HIDE DEF n, rec
  <1>8. /\ DOMAIN g_TransactionInfo' = DOMAIN g_TransactionInfo \cup {n + 1}
        /\ g_TransactionInfo' = [i \in DOMAIN g_TransactionInfo' |-> g_TransactionInfo'[i]]
        /\ \A i \in DOMAIN g_TransactionInfo : g_TransactionInfo'[i] = g_TransactionInfo[i]
        /\ g_TransactionInfo'[n + 1] = rec
    BY <1>6, <1>7 DEF Insert
  <1> QED
    BY <1>3, <1>4, <1>5, <1>7, <1>8 DEF n, rec

\* The insert takes the next key and lets the lock go.
LEMMA TransactionInsertStep ==
  ASSUME IInv, NEW t \in Threads, TransactionInsert(t)
  PROVE  IInv'
  <1> DEFINE n == Cardinality(DOMAIN g_TransactionInfo)
             f == [frame[t] EXCEPT !.cerRR = "CER_SUCCESS"]
  <1>1. UNCHANGED <<g_SessionInfo, g_AccountInfo, g_SessionMutex, g_AccountMutex,
                    wClientID, clients>>
    BY DEF TransactionInsert
  <1>2. f \in Frame /\ f.msg = frame[t].msg /\ f.value = frame[t].value
    <2>1. frame[t] \in Frame /\ "CER_SUCCESS" \in CER_TYPE
      BY ThreadFacts DEF CER_TYPE
    <2>2. f \in Frame
      BY <2>1, FrameAssign
    <2> QED
      BY <2>1, <2>2 DEF Frame
  <1>3. stage' = [stage EXCEPT ![t] = "respond"] /\ frame' = [frame EXCEPT ![t] = f]
    BY DEF TransactionInsert, Finish, Goto
  <1>4. Type(t) \in TransactionTypes
    BY ThreadFacts DEF TransactionInsert, At, FrameOK, ChargeStages, Type
  <1> HIDE DEF f
  <1>5. ASSUME NEW u \in Threads
        PROVE  /\ u = t => stage'[u] = "respond" /\ frame'[u] = f
               /\ u # t => stage'[u] = stage[u] /\ frame'[u] = frame[u]
    BY <1>3 DEF IInv, TypeOK, ThreadsOK
  <1>6. TablesOK'
    BY <1>1, TransactionInsertFacts DEF IInv, TypeOK, TablesOK
  <1>7. ThreadsOK'
    <2>1. stage' \in [Threads -> Stages] /\ frame' \in [Threads -> Frame]
      BY <1>2, <1>3 DEF IInv, TypeOK, ThreadsOK, Stages
    <2>2. g_TransactionMutex' = NONE
      BY DEF TransactionInsert
    <2> QED
      BY <1>1, <2>1, <2>2 DEF IInv, TypeOK, ThreadsOK
  <1>8. ClientsOK'
    BY <1>1 DEF IInv, TypeOK, ClientsOK, clients
  <1>9. /\ IsFiniteSet(DOMAIN g_TransactionInfo')
        /\ Cardinality(DOMAIN g_TransactionInfo') = n + 1
        /\ DOMAIN g_TransactionInfo' = 1 .. (n + 1)
    <2>1. IsFiniteSet(DOMAIN g_TransactionInfo) /\ n \in Nat
          /\ DOMAIN g_TransactionInfo = 1 .. n
      BY FS_CardinalityType DEF IInv, TransactionIDsSequential
    <2>2. DOMAIN g_TransactionInfo' = DOMAIN g_TransactionInfo \cup {n + 1}
          /\ n + 1 \notin DOMAIN g_TransactionInfo
      BY TransactionInsertFacts
    <2>3. DOMAIN g_TransactionInfo' = 1 .. (n + 1)
      <3> HIDE DEF n
      <3> QED
        BY <2>1, <2>2
    <2> QED
      BY <2>1, <2>2, <2>3, FS_AddElement
  <1>10. CustomersHaveAccounts'
    <2>1. \A i \in DOMAIN g_TransactionInfo' :
            g_TransactionInfo'[i].customer \in DOMAIN g_AccountInfo
      BY TransactionInsertFacts DEF IInv, CustomersHaveAccounts
    <2>2. ASSUME NEW u \in Threads, stage'[u] \in ChargeStages
          PROVE  frame'[u].customer \in DOMAIN g_AccountInfo
      BY <1>5, <2>2 DEF IInv, CustomersHaveAccounts, ChargeStages
    <2> QED
      BY <1>1, <2>1, <2>2 DEF IInv, CustomersHaveAccounts
  <1>11. ASSUME NEW u \in Threads
         PROVE  FrameOK(u, stage[u], frame[u])'
    <2>1. FrameOK(u, stage[u], frame[u])
      BY DEF IInv
    <2>2. CASE u = t
      BY <1>2, <1>4, <1>5, <2>2 DEF FrameOK, SessionStages, ChargeStages, TransactionTypes, Type
    <2>3. CASE u # t
      <3>1. stage'[u] = stage[u] /\ frame'[u] = frame[u]
            /\ stage[u] \notin {"transSize", "transInsert"}
        BY <1>5, <2>3, TransactionInsertFacts
      <3> QED
        BY <1>1, <2>1, <3>1 DEF FrameOK
    <2> QED
      BY <2>2, <2>3
  <1>12. TransactionIDsSequential'
    BY <1>9 DEF TransactionIDsSequential
  <1> QED
    BY <1>6, <1>7, <1>8, <1>9, <1>10, <1>11, <1>12 DEF IInv, TypeOK

---------------------------------------------------------------------------
(* Requests and responses                                                  *)

\* The response a handler builds is one of the protocol's.
LEMMA ResponseType ==
  ASSUME IInv, NEW t \in Threads, At(t, "respond")
  PROVE  ResponseOf(frame[t]) \in Response
  <1> DEFINE f   == frame[t]
             hdr == f.msg.hdr
  <1>1. /\ hdr.type \in MSG_TYPE /\ hdr.cid \in WORD /\ hdr.seq \in DWORD /\ hdr.ctx \in DWORD
        /\ f.cerRR \in CER_TYPE /\ f.list \in SUBSET Nat
    BY ThreadFacts DEF Header, Frame
  <1>2. /\ hdr.type = "CONNECT" => f.value \in WORD
        /\ hdr.type = "BALANCE_QUERY" /\ Succeeded(f.cerRR) => f.value \in DWORD
    BY ThreadFacts DEF At, FrameOK
  <1>3. ASSUME NEW type \in MSG_TYPE, NEW cer \in CER_TYPE, NEW cid \in WORD,
               NEW seq \in DWORD, NEW ctx \in DWORD, NEW bal \in DWORD,
               NEW ids \in SUBSET Nat
        PROVE  /\ PlainResponse(type, cer, cid, seq, ctx) \in Response
               /\ BALANCE_QUERY_RESPONSE(cer, cid, bal, ctx, seq) \in Response
               /\ TRANSACTION_QUERY_RESPONSE(cer, cid, ids, seq, ctx) \in Response
    BY Widths DEF PlainResponse, BALANCE_QUERY_RESPONSE, TRANSACTION_QUERY_RESPONSE, STD_HDR,
                  Response, Header, MSG_TYPE, AccountTypes
  <1> HIDE DEF f, hdr
  <1>4. CASE hdr.type = "CONNECT"
    BY <1>1, <1>2, <1>3, <1>4, Widths DEF ResponseOf, CONNECT_RESPONSE, f, hdr
  <1>5. CASE hdr.type = "BALANCE_QUERY"
    <2>1. (IF Succeeded(f.cerRR) THEN f.value ELSE INVALID_BALANCE) \in DWORD
      BY <1>2, <1>5, Widths
    <2> QED
      BY <1>1, <1>3, <1>5, <2>1 DEF ResponseOf, f, hdr
  <1>6. CASE hdr.type = "TRANSACTION_QUERY"
    BY <1>1, <1>3, <1>6, Widths DEF ResponseOf, f, hdr
  <1>7. CASE hdr.type \notin {"CONNECT", "BALANCE_QUERY", "TRANSACTION_QUERY"}
    BY <1>1, <1>3, <1>7, Widths DEF ResponseOf, f, hdr
  <1> QED
    BY <1>4, <1>5, <1>6, <1>7

\* The response, the thread's client ID and the return to the receive loop.
LEMMA RespondStep ==
  ASSUME IInv, NEW t \in Threads, Respond(t)
  PROVE  IInv'
  <1>1. IdleFrame \in Frame /\ "receive" \in Stages /\ Goto(t, "receive", IdleFrame)
    BY ThreadFacts, IdleFrameType DEF Respond, Stages
  <1>2. IdleFrame.msg.hdr.type = "CONNECT" /\ IdleFrame.value = INVALID_CLIENT_ID
    BY DEF IdleFrame, NewFrame, STD_HDR
  <1>3. FrameOK(t, "receive", IdleFrame) /\ "receive" \notin ChargeStages
    BY <1>2, Widths DEF FrameOK, SessionStages, ChargeStages
  <1>4. wClientID' \in [Threads -> WORD]
    <2>1. Type(t) = "CONNECT" => frame[t].value \in WORD
      BY ThreadFacts DEF FrameOK, Type
    <2> QED
      BY <2>1 DEF Respond, IInv, TypeOK, ThreadsOK
  <1>5. inbox' \in [Threads -> Seq(Response)]
    <2>1. ResponseOf(frame[t]) \in Response
      BY ResponseType DEF Respond
    <2>2. inbox \in [Threads -> Seq(Response)] /\ frame[t].pSocket \in Threads \cup {NONE}
      BY ThreadFacts DEF IInv, TypeOK, ClientsOK, Frame
    <2>3. ASSUME NEW u \in Threads
          PROVE  [inbox EXCEPT ![u] = Append(@, ResponseOf(frame[t]))]
                   \in [Threads -> Seq(Response)]
      BY <2>1, <2>2
    <2> QED
      BY <2>2, <2>3 DEF Respond
  <1>6. ClientsOK'
    BY <1>5 DEF Respond, IInv, TypeOK, ClientsOK
  <1>7. /\ UNCHANGED <<tables, g_TransactionMutex>> /\ TablesOK'
        /\ g_SessionMutex' \in Threads \cup {NONE} /\ g_AccountMutex' \in Threads \cup {NONE}
    BY DEF Respond, IInv, TypeOK, TablesOK, ThreadsOK, mutexes, tables
  <1>8. \A i \in DOMAIN g_SessionInfo' :
          IsValidCustomerID(g_SessionInfo'[i].m_qwCustomerID) =>
            g_SessionInfo'[i].m_qwCustomerID \in DOMAIN g_AccountInfo'
    BY <1>7 DEF tables, IInv, CustomersHaveAccounts
  <1> QED
    BY <1>1, <1>3, <1>4, <1>6, <1>7, <1>8, HandlerStep DEF tables

\* A request starts a handler with fresh locals.
LEMMA SendRequestStep ==
  ASSUME IInv, NEW t \in Threads, SendRequest(t)
  PROVE  IInv'
  <1>1. sent \in [Threads -> Nat] /\ held \in [Threads -> WORD]
    BY DEF IInv, TypeOK, ClientsOK
  <1>2. /\ Menu[t] \in Seq(SUBSET [type : MSG_TYPE, body : Payload(Names)])
        /\ sent[t] \in Nat /\ sent[t] < Len(Menu[t])
    BY <1>1, MessagingAssumption DEF SendRequest
  <1>3. Menu[t][sent[t] + 1] \in SUBSET [type : MSG_TYPE, body : Payload(Names)]
    <2> HIDE DEF Payload, MSG_TYPE
    <2> QED
      BY <1>2
  <1>4. PICK m \in Menu[t][sent[t] + 1] :
          LET cid == IF m.type = "CONNECT" THEN 0 ELSE held[t]
              hdr == STD_HDR(m.type, cid, sent[t] % DwordMod, 0)
          IN /\ asked' = [asked EXCEPT ![t] = hdr]
             /\ Goto(t, FirstStage(m.type),
                     NewFrame([hdr |-> hdr, body |-> m.body],
                              IF m.type = "CONNECT" THEN t ELSE NONE))
    BY DEF SendRequest
  <1> DEFINE cid == IF m.type = "CONNECT" THEN 0 ELSE held[t]
             hdr == STD_HDR(m.type, cid, sent[t] % DwordMod, 0)
             s == FirstStage(m.type)
             p == IF m.type = "CONNECT" THEN t ELSE NONE
             f == NewFrame([hdr |-> hdr, body |-> m.body], p)
  <1>5. m \in [type : MSG_TYPE, body : Payload(Names)]
    BY <1>3
  <1>6. m.type \in MSG_TYPE /\ m.body \in Payload(Names)
    BY <1>5
  <1>7. cid \in WORD /\ sent[t] % DwordMod \in DWORD
    BY <1>1, <1>2, ModInDword, Widths
  <1>8. hdr \in Header /\ hdr.type = m.type
    BY <1>6, <1>7, Widths DEF STD_HDR, Header
  <1>9. [hdr |-> hdr, body |-> m.body] \in Request
    BY <1>6, <1>8 DEF Request
  <1>10. f \in Frame
    BY <1>9, IdleFrameType
  <1>11. f.msg.hdr.type = m.type /\ f.value = INVALID_CLIENT_ID
    BY <1>8 DEF NewFrame
  <1>12. FrameOK(t, s, f) /\ s \in Stages /\ s \notin ChargeStages
    BY <1>11, Widths DEF FrameOK, FirstStage, SessionStages, ChargeStages, Stages
  <1>13. Goto(t, s, f)
    BY <1>4
  <1>14. asked' = [asked EXCEPT ![t] = hdr]
    BY <1>4
  <1> HIDE DEF hdr, s, f
  <1>15. ClientsOK'
    <2>1. sent' = [sent EXCEPT ![t] = @ + 1] /\ UNCHANGED <<held, inbox, open>>
      BY DEF SendRequest
    <2> QED
      BY <1>8, <1>14, <2>1 DEF IInv, TypeOK, ClientsOK
  <1>16. /\ UNCHANGED <<tables, g_TransactionMutex>> /\ TablesOK'
         /\ wClientID' \in [Threads -> WORD]
         /\ g_SessionMutex' \in Threads \cup {NONE} /\ g_AccountMutex' \in Threads \cup {NONE}
    BY DEF SendRequest, IInv, TypeOK, TablesOK, ThreadsOK, mutexes, tables
  <1>17. \A i \in DOMAIN g_SessionInfo' :
           IsValidCustomerID(g_SessionInfo'[i].m_qwCustomerID) =>
             g_SessionInfo'[i].m_qwCustomerID \in DOMAIN g_AccountInfo'
    BY <1>16 DEF tables, IInv, CustomersHaveAccounts
  <1> QED
    BY <1>10, <1>12, <1>13, <1>15, <1>16, <1>17, HandlerStep DEF tables

\* Nothing of the server changes: stuttering, and the steps of a client alone.
LEMMA ServerUntouched ==
  ASSUME IInv, ClientsOK', UNCHANGED <<tables, mutexes, stage, frame, wClientID>>
  PROVE  IInv'
  BY DEF IInv, TypeOK, TablesOK, ThreadsOK, tables, mutexes, TransactionIDsSequential,
         CustomersHaveAccounts, FrameOK

\* The client takes what is in its socket.
LEMMA ReceiveResponseStep ==
  ASSUME IInv, NEW t \in Threads, ReceiveResponse(t)
  PROVE  IInv'
  <1>1. /\ held \in [Threads -> WORD] /\ asked \in [Threads -> Header \cup {NONE}]
        /\ inbox \in [Threads -> Seq(Response)] /\ inbox[t] # <<>>
    BY DEF ReceiveResponse, IInv, TypeOK, ClientsOK
  <1>2. Head(inbox[t]) \in Response /\ Tail(inbox[t]) \in Seq(Response)
    <2>1. inbox[t] \in Seq(Response) /\ inbox[t] # <<>>
      BY <1>1
    <2> QED
      BY <2>1
  <1>3. Head(inbox[t]).cid \in WORD
    BY <1>2 DEF Response
  <1>4. held' \in [Threads -> WORD]
    <2>1. ASSUME NEW c \in WORD
          PROVE  [held EXCEPT ![t] = c] \in [Threads -> WORD]
      BY <1>1
    <2>2. UNCHANGED held \/ \E c \in WORD : held' = [held EXCEPT ![t] = c]
      BY <1>3 DEF ReceiveResponse
    <2> QED
      BY <1>1, <2>1, <2>2
  <1>5. inbox' \in [Threads -> Seq(Response)] /\ asked' \in [Threads -> Header \cup {NONE}]
    BY <1>1, <1>2 DEF ReceiveResponse
  <1>6. ClientsOK'
    BY <1>4, <1>5 DEF ReceiveResponse, IInv, TypeOK, ClientsOK
  <1> QED
    BY <1>6, ServerUntouched DEF ReceiveResponse

\* The client goes.
LEMMA CloseStep ==
  ASSUME IInv, NEW t \in Threads, Close(t)
  PROVE  IInv'
  <1>1. <<>> \in Seq(Response)
    OBVIOUS
  <1>2. ClientsOK'
    BY <1>1, Widths DEF Close, IInv, TypeOK, ClientsOK
  <1> QED
    BY <1>2, ServerUntouched DEF Close

\* The erased session leaves no iterator that is still taken for good.
LEMMA DisconnectEraseStep ==
  ASSUME IInv, NEW t \in Threads, DisconnectErase(t)
  PROVE  IInv'
  <1>1. /\ UNCHANGED <<g_AccountInfo, g_TransactionInfo, g_AccountMutex, g_TransactionMutex,
                       wClientID, clients>>
        /\ stage' = [stage EXCEPT ![t] = "exited"] /\ stage[t] = "disconnectErase"
        /\ g_SessionMutex' = NONE
    BY DEF DisconnectErase, At
  <1>2. /\ DOMAIN g_SessionInfo' = DOMAIN g_SessionInfo \ {wClientID[t]}
        /\ \A i \in DOMAIN g_SessionInfo' : g_SessionInfo'[i] = g_SessionInfo[i]
        /\ g_SessionInfo' = [i \in DOMAIN g_SessionInfo' |-> g_SessionInfo'[i]]
    BY DEF DisconnectErase, Erase
  <1>3. ASSUME NEW u \in Threads
        PROVE  /\ frame'[u] \in Frame
               /\ frame'[u].msg = frame[u].msg /\ frame'[u].value = frame[u].value
               /\ frame'[u].cerRR = frame[u].cerRR /\ frame'[u].customer = frame[u].customer
               /\ frame'[u].itS = frame[u].itS
               /\ stage[u] \in SessionStages /\ ~frame'[u].stale =>
                    ~frame[u].stale /\ frame[u].itS # wClientID[t]
               /\ stage'[u] = IF u = t THEN "exited" ELSE stage[u]
    <2>1. frame[u] \in Frame /\ frame[u].stale \in BOOLEAN
      BY ThreadFacts DEF Frame
    <2> DEFINE b == frame[u].stale \/ (stage[u] \in SessionStages
                                         /\ frame[u].itS = wClientID[t])
    <2>2. frame'[u] = [frame[u] EXCEPT !.stale = b] /\ b \in BOOLEAN
      BY <2>1 DEF DisconnectErase
    <2>3. stage'[u] = IF u = t THEN "exited" ELSE stage[u]
      BY <1>1 DEF IInv, TypeOK, ThreadsOK
    <2>4. stage[u] \in SessionStages /\ ~b => ~frame[u].stale /\ frame[u].itS # wClientID[t]
      OBVIOUS
    <2> HIDE DEF b
    <2>5. frame'[u] \in Frame /\ frame'[u].stale = b
      BY <2>1, <2>2 DEF Frame
    <2> QED
      BY <2>1, <2>2, <2>3, <2>4, <2>5 DEF Frame
  <1>4. TablesOK'
    BY <1>1, <1>2 DEF IInv, TypeOK, TablesOK
  <1>5. ThreadsOK'
    <2>1. frame' = [u \in Threads |-> frame'[u]]
      BY DEF DisconnectErase
    <2>2. frame' \in [Threads -> Frame]
      BY <1>3, <2>1
    <2>3. stage' \in [Threads -> Stages]
      BY <1>1 DEF IInv, TypeOK, ThreadsOK, Stages
    <2> QED
      BY <1>1, <2>2, <2>3 DEF IInv, TypeOK, ThreadsOK
  <1>6. ClientsOK'
    BY <1>1 DEF IInv, TypeOK, ClientsOK, clients
  <1>7. IsFiniteSet(DOMAIN g_TransactionInfo)' /\ TransactionIDsSequential'
    BY <1>1 DEF IInv, TransactionIDsSequential
  <1>8. CustomersHaveAccounts'
    BY <1>1, <1>2, <1>3 DEF IInv, CustomersHaveAccounts, ChargeStages
  <1>9. ASSUME NEW u \in Threads
        PROVE  FrameOK(u, stage[u], frame[u])'
    <2>1. FrameOK(u, stage[u], frame[u])
      BY DEF IInv
    <2>2. CASE u = t
      BY <1>1, <1>3, <2>1, <2>2 DEF FrameOK, SessionStages, ChargeStages
    <2>3. CASE u # t
      <3>1. stage'[u] = stage[u]
        BY <1>3, <2>3
      <3>2. stage[u] \in SessionStages /\ ~frame'[u].stale =>
              frame'[u].itS \in DOMAIN g_SessionInfo'
        BY <1>2, <1>3, <2>1 DEF FrameOK
      <3> QED
        BY <1>1, <1>3, <2>1, <3>1, <3>2 DEF FrameOK
    <2> QED
      BY <2>2, <2>3
  <1> QED
    BY <1>4, <1>5, <1>6, <1>7, <1>8, <1>9 DEF IInv, TypeOK

---------------------------------------------------------------------------
(* The invariant                                                           *)

\* The saved tables and an empty session table.
LEMMA InitIInv ==
  ASSUME Init
  PROVE  IInv
  <1>1. TablesOK
    <2>1. EmptyMap \in [{} -> SessionRecord] /\ DOMAIN EmptyMap = {}
      BY DEF EmptyMap
    <2>2. Cardinality(DOMAIN SavedTransactions) \in Nat
      BY SavedAssumption, FS_CardinalityType
    <2>3. DOMAIN SavedTransactions \subseteq Nat
      BY <2>2, SavedAssumption
    <2> QED
      BY <2>1, <2>3, SavedAssumption DEF Init, TablesOK
  <1>2. ThreadsOK
    <2>1. IdleFrame \in Frame
      BY NameAssumption, Widths
         DEF IdleFrame, NewFrame, Frame, Request, EmptyPayload, Payload, INVALID_PIN, STD_HDR,
             Header, MSG_TYPE, INVALID_CUSTOMER_ID, QWORD, CER_TYPE
    <2> QED
      BY <2>1, Widths DEF Init, ThreadsOK, Stages
  <1>3. ClientsOK
    <2>1. <<>> \in Seq(Response)
      OBVIOUS
    <2> QED
      BY <2>1, Widths DEF Init, ClientsOK
  <1>4. CustomersHaveAccounts
    BY SavedAssumption DEF Init, EmptyMap, CustomersHaveAccounts, ChargeStages
  <1>5. IdleFrame.msg.hdr.type = "CONNECT" /\ IdleFrame.value = INVALID_CLIENT_ID
    BY DEF IdleFrame, NewFrame, STD_HDR
  <1>6. ASSUME NEW t \in Threads
        PROVE  FrameOK(t, stage[t], frame[t])
    BY <1>5, Widths DEF Init, FrameOK, SessionStages, ChargeStages
  <1>7. IsFiniteSet(DOMAIN g_TransactionInfo) /\ TransactionIDsSequential
    BY SavedAssumption DEF Init, TransactionIDsSequential
  <1> QED
    BY <1>1, <1>2, <1>3, <1>4, <1>6, <1>7 DEF IInv, TypeOK

\* Every step keeps the invariant.
LEMMA NextIInv ==
  ASSUME IInv, [Next]_vars
  PROVE  IInv'
  <1>1. CASE UNCHANGED vars
    <2>1. ClientsOK'
      BY <1>1 DEF vars, clients, IInv, TypeOK, ClientsOK
    <2> QED
      BY <1>1, <2>1, ServerUntouched DEF vars
  <1>2. ASSUME NEW t \in Threads, ClientStep(t)
        PROVE  IInv'
    BY <1>2, SendRequestStep, ReceiveResponseStep, CloseStep DEF ClientStep
  <1>3. ASSUME NEW t \in Threads, ServerStep(t)
        PROVE  IInv'
    <2>1. CASE \/ ReceiveEnd(t) \/ DisconnectLock(t) \/ DisconnectErase(t)
               \/ ConnectRead(t) \/ ConnectLock(t) \/ ConnectInsert(t)
               \/ FindSession(t) \/ MissSession(t) \/ MissAccount(t) \/ ReadCustomer(t)
      BY <2>1, LockSteps, DisconnectEraseStep, ConnectReadStep, ConnectInsertStep,
         FindSessionStep, MissSteps, ReadCustomerStep
    <2>2. CASE \/ CreateFind(t) \/ CreateLock(t) \/ CreateInsert(t)
               \/ LogonFind(t) \/ LogonWrite(t) \/ LogoffRead(t) \/ LogoffWrite(t)
      BY <2>2, LockSteps, CreateFindStep, CreateInsertStep, LogonFindStep, LogonWriteStep,
         LogoffReadStep, LogoffWriteStep
    <2>3. CASE \/ DepositRead(t) \/ DepositWrite(t)
               \/ WithdrawCheck(t) \/ WithdrawRead(t) \/ WithdrawWrite(t)
               \/ TransactionLock(t) \/ TransactionSize(t) \/ TransactionInsert(t)
      BY <2>3, DepositReadStep, BalanceWriteSteps, WithdrawCheckStep, WithdrawReadStep,
         TransactionLockStep, TransactionSizeStep, TransactionInsertStep
    <2>4. CASE BalanceRead(t) \/ HistoryRead(t) \/ Respond(t)
      BY <2>4, BalanceReadStep, HistoryReadStep, RespondStep
    <2> QED
      BY <1>3, <2>1, <2>2, <2>3, <2>4 DEF ServerStep
  <1>4. CASE Terminated
    BY <1>1, <1>4 DEF Terminated
  <1> QED
    BY <1>1, <1>2, <1>3, <1>4 DEF Next

\* The invariant holds in every state of every interleaving of the threads.
THEOREM Invariance == Spec => []IInv
  <1>1. Init => IInv
    BY InitIInv
  <1>2. IInv /\ [Next]_vars => IInv'
    BY NextIInv
  <1> QED
    BY <1>1, <1>2, PTL DEF Spec

\* The types of the tables, the handlers and the clients: whatever the threads
\* and the clients do, keys and balances stay in their widths and a handler at
\* one of its steps.
THEOREM TypeCorrect == Spec => []TypeOK
  <1>1. IInv => TypeOK
    BY DEF IInv
  <1> QED
    BY <1>1, Invariance, PTL

\* Transaction IDs are sequential however deposits and withdrawals
\* interleave, because ProcessDepositRequest and its two siblings compute and
\* use them under the same lock.
THEOREM IDsSequential == Spec => []TransactionIDsSequential
  <1>1. IInv => TransactionIDsSequential
    BY DEF IInv
  <1> QED
    BY <1>1, Invariance, PTL

\* No session, no record of the log and no handler that is about to change a
\* balance names a customer without an account, even when ProcessDisconnect
\* erases the session in between: operator[] never makes an account up.
THEOREM CustomersKnown == Spec => []CustomersHaveAccounts
  <1>1. IInv => CustomersHaveAccounts
    BY DEF IInv
  <1> QED
    BY <1>1, Invariance, PTL

---------------------------------------------------------------------------
(* What a step may never do                                                *)

\* Which steps write the log and the accounts, and whose stage they move.
LEMMA TableWriters ==
  ASSUME IInv, NEW t \in Threads, ClientStep(t) \/ ServerStep(t)
  PROVE  /\ \/ TransactionInsert(t)
            \/ UNCHANGED g_TransactionInfo /\ (At(t, "transInsert") => UNCHANGED stage)
         /\ \/ CreateInsert(t) \/ DepositWrite(t) \/ WithdrawWrite(t)
            \/ UNCHANGED g_AccountInfo
         /\ \A u \in Threads \ {t} : stage'[u] = stage[u]
  <1> USE DEF At, Goto, Finish, tables
  <1>0. stage \in [Threads -> Stages]
    BY DEF IInv, TypeOK, ThreadsOK
  <1>1. CASE SendRequest(t) \/ ReceiveResponse(t) \/ Close(t)
    BY <1>0, <1>1 DEF SendRequest, ReceiveResponse, Close
  <1>2. CASE \/ ReceiveEnd(t) \/ DisconnectLock(t) \/ DisconnectErase(t)
             \/ ConnectRead(t) \/ ConnectLock(t) \/ ConnectInsert(t)
    BY <1>0, <1>2 DEF ReceiveEnd, DisconnectLock, DisconnectErase, ConnectRead, ConnectLock,
                      ConnectInsert
  <1>3. CASE \/ FindSession(t) \/ MissSession(t) \/ MissAccount(t) \/ ReadCustomer(t)
             \/ CreateFind(t) \/ CreateLock(t) \/ CreateInsert(t)
    BY <1>0, <1>3 DEF FindSession, MissSession, MissAccount, ReadCustomer, CreateFind,
                      CreateLock, CreateInsert
  <1>4. CASE LogonFind(t) \/ LogonWrite(t) \/ LogoffRead(t) \/ LogoffWrite(t)
    BY <1>0, <1>4 DEF LogonFind, LogonWrite, LogoffRead, LogoffWrite
  <1>5. CASE \/ DepositRead(t) \/ DepositWrite(t)
             \/ WithdrawCheck(t) \/ WithdrawRead(t) \/ WithdrawWrite(t)
    BY <1>0, <1>5 DEF DepositRead, DepositWrite, WithdrawCheck, WithdrawRead, WithdrawWrite
  <1>6. CASE TransactionLock(t) \/ TransactionSize(t) \/ TransactionInsert(t)
    BY <1>0, <1>6 DEF TransactionLock, TransactionSize, TransactionInsert
  <1>7. CASE BalanceRead(t) \/ HistoryRead(t) \/ Respond(t)
    BY <1>0, <1>7 DEF BalanceRead, HistoryRead, Respond
  <1> QED
    BY <1>1, <1>2, <1>3, <1>4, <1>5, <1>6, <1>7 DEF ClientStep, ServerStep

\* The log only grows, and a handler that finishes its insert has put its own
\* record into it, in every interleaving.
THEOREM LogKept == Spec => NoTransactionLost
  <1> DEFINE Kept ==
        /\ \A i \in DOMAIN g_TransactionInfo :
             i \in DOMAIN g_TransactionInfo' /\ g_TransactionInfo'[i] = g_TransactionInfo[i]
        /\ \A t \in Threads : At(t, "transInsert") /\ stage'[t] = "respond" =>
             \E i \in (DOMAIN g_TransactionInfo') \ DOMAIN g_TransactionInfo :
               g_TransactionInfo'[i] =
                 TRANSACTION_INFO(Body(t).amount, Type(t), frame[t].customer)
  <1>1. IInv /\ [Next]_vars => [Kept]_vars
    <2> SUFFICES ASSUME IInv, Next
                 PROVE  Kept \/ UNCHANGED vars
      OBVIOUS
    <2>1. ASSUME NEW t \in Threads, ClientStep(t) \/ ServerStep(t)
          PROVE  Kept
      <3>1. CASE TransactionInsert(t)
        <4>1. ASSUME NEW u \in Threads, At(u, "transInsert")
              PROVE  u = t
          BY <3>1, <4>1, TransactionInsertFacts DEF At
        <4> QED
          BY <3>1, <4>1, TransactionInsertFacts
      <3>2. CASE ~TransactionInsert(t)
        BY <2>1, <3>2, TableWriters DEF At
      <3> QED
        BY <3>1, <3>2
    <2> QED
      BY <2>1 DEF Next, Terminated
  <1> QED
    BY <1>1, Invariance, PTL DEF Spec, NoTransactionLost

\* No account goes, and no balance moves but by the store of a deposit, a
\* withdrawal or a stamp purchase on it: a second account creation for the
\* same name and PIN cannot reset it.
THEOREM AccountsOnlyCharged == Spec => AccountsKept
  <1> DEFINE Kept ==
        \A c \in DOMAIN g_AccountInfo :
          /\ c \in DOMAIN g_AccountInfo'
          /\ g_AccountInfo'[c] # g_AccountInfo[c] =>
               \E t \in Threads : /\ stage[t] \in {"incr", "decrWrite"}
                                  /\ stage'[t] = "transLock"
                                  /\ frame[t].customer = c
  <1>1. IInv /\ [Next]_vars => [Kept]_vars
    <2> SUFFICES ASSUME IInv, Next
                 PROVE  Kept \/ UNCHANGED vars
      OBVIOUS
    <2>1. ASSUME NEW t \in Threads, ClientStep(t) \/ ServerStep(t)
          PROVE  Kept
      <3>1. CASE CreateInsert(t)
        BY <3>1 DEF CreateInsert, Insert
      <3>2. CASE DepositWrite(t) \/ WithdrawWrite(t)
        <4>1. stage[t] \in {"incr", "decrWrite"} /\ stage'[t] = "transLock"
          BY <3>2 DEF DepositWrite, WithdrawWrite, At, IInv, TypeOK, ThreadsOK
        <4>2. /\ DOMAIN g_AccountInfo' = DOMAIN g_AccountInfo
              /\ \A c \in DOMAIN g_AccountInfo :
                   c # frame[t].customer => g_AccountInfo'[c] = g_AccountInfo[c]
          BY <3>2 DEF DepositWrite, WithdrawWrite
        <4> QED
          BY <4>1, <4>2
      <3>3. CASE UNCHANGED g_AccountInfo
        BY <3>3
      <3> QED
        BY <2>1, <3>1, <3>2, <3>3, TableWriters
    <2> QED
      BY <2>1 DEF Next, Terminated
  <1> QED
    BY <1>1, Invariance, PTL DEF Spec, AccountsKept

=============================================================================
