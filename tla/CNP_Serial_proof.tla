-------------------------- MODULE CNP_Serial_proof --------------------------
(***************************************************************************)
(* Proofs that client IDs are unique, sessions stay with their clients,    *)
(* answers with their requests and accounts with their owners when         *)
(* connections are opened and closed one at a time and there are more      *)
(* client IDs than connects.                                               *)
(***************************************************************************)
EXTENDS CNP_Serial, CNP_Refinement_proof, SequenceTheorems

\* What a thread and its client keep to themselves.
Private(t) == <<stage[t], frame[t], wClientID[t], held[t], asked[t], inbox[t], open[t]>>

\* What RepliesAnswerRequests says of one client.
Answered(t) ==
  inbox[t] # <<>> =>
    /\ asked[t] # NONE /\ Len(inbox[t]) = 1
    /\ LET hdr == inbox[t][1].hdr
       IN /\ hdr.type = asked[t].type
          /\ hdr.type # "CONNECT" => hdr.cid = asked[t].cid
          /\ hdr.type # "BALANCE_QUERY" => hdr.seq = asked[t].seq /\ hdr.ctx = asked[t].ctx

OwnsFor(t) == \A i \in WORD : ReliesOn(t, i) /\ i # INVALID_CLIENT_ID => Owns(t, i)

\* The invariant, one connection at a time.
LEMMA SerialInvParts ==
  ASSUME SerialInv, NEW t \in Threads
  PROVE  IInv /\ IDsLeft /\ OwnsFor(t) /\ Answered(t) /\ Conversation(t) /\ ForItsClient(t)
  BY DEF SerialInv, OwnsWhatItReliesOn, OwnsFor, RepliesAnswerRequests, Answered

\* A step of t that touches nothing private of the others and takes no session
\* away from them keeps the invariant if it keeps what it says of t.
LEMMA StepKeepsSerialInv ==
  ASSUME SerialInv, IInv', IDsLeft', ConnectsSerial', NEW t \in Threads,
         \A u \in Threads \ {t} : Private(u)' = Private(u),
         \A u \in Threads \ {t} : \A i \in WORD : Owns(u, i) => Owns(u, i)',
         \A u \in Threads \ {t} : stage[u] \in {"connectLock", "connectInsert"} =>
           DOMAIN g_SessionInfo' \subseteq DOMAIN g_SessionInfo,
         SessionsForTheirClients',
         OwnsFor(t)', Answered(t)', Conversation(t)', ForItsClient(t)'
  PROVE  SerialInv'
  <1>1. ASSUME NEW u \in Threads, u # t
        PROVE  OwnsFor(u)' /\ Answered(u)' /\ Conversation(u)' /\ ForItsClient(u)'
    <2>1. OwnsFor(u) /\ Answered(u) /\ Conversation(u) /\ ForItsClient(u)
      BY SerialInvParts
    <2>2. /\ stage'[u] = stage[u] /\ frame'[u] = frame[u] /\ wClientID'[u] = wClientID[u]
          /\ held'[u] = held[u] /\ asked'[u] = asked[u] /\ inbox'[u] = inbox[u]
          /\ open'[u] = open[u]
      BY <1>1 DEF Private
    <2>3. OwnsFor(u)'
      <3>1. ASSUME NEW i \in WORD, ReliesOn(u, i)', i # INVALID_CLIENT_ID
            PROVE  Owns(u, i)'
        <4>1. ReliesOn(u, i)
          BY <2>2, <3>1 DEF ReliesOn, Type
        <4> QED
          BY <1>1, <2>1, <3>1, <4>1 DEF OwnsFor
      <3> QED
        BY <3>1 DEF OwnsFor, WORD, INVALID_CLIENT_ID
    <2>4. Answered(u)'
      BY <2>1, <2>2 DEF Answered
    <2>5. Conversation(u)'
      BY <1>1, <2>1, <2>2 DEF Conversation, INVALID_CLIENT_ID, Type
    <2>6. ForItsClient(u)'
      BY <2>1, <2>2 DEF ForItsClient, Type, Body, AsksOf, CustomersOf
    <2> QED
      BY <2>3, <2>4, <2>5, <2>6
  <1>2. \A u \in Threads :
          OwnsFor(u)' /\ Answered(u)' /\ Conversation(u)' /\ ForItsClient(u)'
    BY <1>1
  <1> QED
    BY <1>2 DEF SerialInv, OwnsWhatItReliesOn, OwnsFor, RepliesAnswerRequests, Answered

\* A step of t's handler that keeps every session where it is.
LEMMA HandlerKeepsSerialInv ==
  ASSUME SerialInv, IInv', IDsLeft', ConnectsSerial', NEW t \in Threads,
         stage[t] \notin EndStages \cup {"receive"},
         NEW s \in Stages \ (EndStages \cup {"receive", "find", "connect"}), NEW f \in Frame,
         Goto(t, s, f), UNCHANGED <<wClientID, clients>>,
         \A i \in DOMAIN g_SessionInfo :
           i \in DOMAIN g_SessionInfo' /\ g_SessionInfo'[i].m_pSocket = g_SessionInfo[i].m_pSocket,
         \A u \in Threads \ {t} : stage[u] \in {"connectLock", "connectInsert"} =>
           DOMAIN g_SessionInfo' \subseteq DOMAIN g_SessionInfo,
         SessionsForTheirClients',
         f.msg = frame[t].msg, f.pSocket \in {NONE, t}, ~f.stale,
         s \in SessionStages => f.itS \in DOMAIN g_SessionInfo'
                                /\ g_SessionInfo'[f.itS].m_pSocket = t,
         s = "respond" /\ Type(t) = "CONNECT" /\ f.value # INVALID_CLIENT_ID =>
           f.value \in DOMAIN g_SessionInfo' /\ g_SessionInfo'[f.value].m_pSocket = t,
         Type(t) = "CONNECT" => s \in {"connectLock", "connectInsert", "respond"},
         s \in {"connectLock", "connectInsert"} => f.value \notin DOMAIN g_SessionInfo',
         s = "logonFind" => Type(t) = "LOGON",
         s \in AccountStages \cup {"logonWrite"} => f.customer \in CustomersOf(t)
  PROVE  SerialInv'
  <1>0. /\ stage \in [Threads -> Stages] /\ frame \in [Threads -> Frame]
        /\ OwnsFor(t) /\ Answered(t) /\ Conversation(t) /\ ForItsClient(t)
    BY SerialInvParts DEF SerialInv, IInv, TypeOK, ThreadsOK
  <1>1. stage'[t] = s /\ frame'[t] = f
    BY <1>0 DEF Goto
  <1>2. /\ wClientID'[t] = wClientID[t] /\ held'[t] = held[t] /\ asked'[t] = asked[t]
        /\ inbox'[t] = inbox[t] /\ open'[t] = open[t]
    BY DEF clients
  <1>3. \A u \in Threads \ {t} : Private(u)' = Private(u)
    BY <1>0 DEF Goto, Private, clients
  <1>4. \A u \in Threads : \A i \in WORD : Owns(u, i) => Owns(u, i)'
    BY DEF Owns
  <1>5. OwnsFor(t)'
    <2>1. ASSUME NEW i \in WORD, ReliesOn(t, i)', i # INVALID_CLIENT_ID
          PROVE  Owns(t, i)'
      <3>1. s # "find" /\ s # "exited" /\ stage[t] # "exited"
        BY DEF EndStages
      <3>2. CASE ReliesOn(t, i)
        BY <1>0, <1>4, <2>1, <3>2 DEF OwnsFor
      <3>3. CASE s \in SessionStages /\ i = f.itS
        BY <3>3 DEF Owns
      <3>4. CASE s = "respond" /\ Type(t) = "CONNECT" /\ i = f.value
        BY <2>1, <3>4 DEF Owns
      <3> QED
        BY <1>1, <1>2, <2>1, <3>1, <3>2, <3>3, <3>4 DEF ReliesOn, Type
    <2> QED
      BY <2>1 DEF OwnsFor, WORD, INVALID_CLIENT_ID
  <1>6. Answered(t)'
    BY <1>0, <1>2 DEF Answered
  <1>7. Conversation(t)'
    BY <1>0, <1>1, <1>2 DEF Conversation, INVALID_CLIENT_ID, ConnectStages, EndStages, Type
  <1>8. ForItsClient(t)'
    BY <1>0, <1>1 DEF ForItsClient, Type, Body, AsksOf, CustomersOf
  <1> QED
    BY <1>3, <1>4, <1>5, <1>6, <1>7, <1>8, StepKeepsSerialInv

\* A step that leaves the session table alone.
LEMMA SessionsUntouched ==
  ASSUME SerialInv, UNCHANGED g_SessionInfo
  PROVE  SessionsForTheirClients'
  BY DEF SerialInv, SessionsForTheirClients, CustomersOf

\* A step of t's handler that leaves the sessions as they are.
LEMMA ReadKeepsSerialInv ==
  ASSUME SerialInv, IInv', IDsLeft', ConnectsSerial', NEW t \in Threads,
         stage[t] \notin EndStages \cup {"receive"},
         NEW s \in Stages \ (EndStages \cup {"receive", "find", "connect"}), NEW f \in Frame,
         Goto(t, s, f), UNCHANGED <<g_SessionInfo, wClientID, clients>>,
         f.msg = frame[t].msg, f.pSocket \in {NONE, t}, ~f.stale,
         s \in SessionStages => Owns(t, f.itS),
         Type(t) = "CONNECT" =>
           \/ s \in {"connectLock", "connectInsert"} /\ f.value \notin DOMAIN g_SessionInfo
           \/ s = "respond" /\ f.value = INVALID_CLIENT_ID,
         s \in {"connectLock", "connectInsert"} => Type(t) = "CONNECT",
         s = "logonFind" => Type(t) = "LOGON",
         s \in AccountStages \cup {"logonWrite"} => f.customer \in CustomersOf(t)
  PROVE  SerialInv'
  <1>1. SessionsForTheirClients'
    BY DEF SerialInv, SessionsForTheirClients, CustomersOf
  <1>2. /\ \A i \in DOMAIN g_SessionInfo :
             i \in DOMAIN g_SessionInfo' /\ g_SessionInfo'[i].m_pSocket = g_SessionInfo[i].m_pSocket
        /\ DOMAIN g_SessionInfo' \subseteq DOMAIN g_SessionInfo
    OBVIOUS
  <1>3. s \in SessionStages => f.itS \in DOMAIN g_SessionInfo'
                               /\ g_SessionInfo'[f.itS].m_pSocket = t
    BY DEF Owns
  <1> QED
    BY <1>1, <1>2, <1>3, HandlerKeepsSerialInv

\* A handler that has found its session holds it.
LEMMA SessionHeld ==
  ASSUME SerialInv, NEW t \in Threads, stage[t] \in SessionStages
  PROVE  Owns(t, frame[t].itS) /\ frame[t].itS # INVALID_CLIENT_ID /\ Type(t) # "CONNECT"
  <1>1. ~frame[t].stale /\ OwnsFor(t) /\ Type(t) # "CONNECT"
    BY SerialInvParts DEF Conversation, SessionStages, ConnectStages, EndStages
  <1>2. frame[t].itS \in DOMAIN g_SessionInfo /\ frame[t].itS \in WORD
    BY <1>1, ThreadFacts DEF FrameOK, SerialInv, Frame
  <1>3. frame[t].itS # INVALID_CLIENT_ID
    BY <1>2 DEF SerialInv, IDsLeft
  <1> QED
    BY <1>1, <1>2, <1>3 DEF OwnsFor, ReliesOn

---------------------------------------------------------------------------
(* ProcessConnectRequest                                                   *)

\* Away from a disconnect, and as long as the last ID is left, the new ID is
\* one that no session has.
LEMMA NewClientIDFree ==
  ASSUME SerialInv, NEW t \in Threads, stage[t] = "connect", NEW id \in NewClientIDs
  PROVE  id \notin DOMAIN g_SessionInfo
  <1> DEFINE keys == DOMAIN g_SessionInfo
             last == {i \in keys : \A j \in keys : j <= i}
  <1>1. \A u \in Threads : ~At(u, "disconnectErase")
    <2>1. ASSUME NEW u \in Threads, stage[u] = "disconnectErase"
          PROVE  FALSE
      BY <2>1 DEF SerialInv, ConnectsSerial, InSessionTable
    <2> QED
      BY <2>1 DEF At
  <1>2. keys = {} \/ id \in {(i + 1) % WordMod : i \in last}
    BY <1>1 DEF NewClientIDs
  <1>3. ASSUME NEW i \in last, id = (i + 1) % WordMod
        PROVE  id \notin keys
    <2>1. /\ i \in 0 .. (WordMod - 1) /\ i # WordMod - 1
          /\ \A j \in keys : j <= i /\ j \in 0 .. (WordMod - 1)
      BY DEF SerialInv, IDsLeft, INVALID_CLIENT_ID, IInv, TypeOK, TablesOK, WORD
    <2> HIDE DEF keys, last
    <2>2. (i + 1) % WordMod = i + 1
      BY <2>1, Widths
    <2> QED
      BY <1>3, <2>1, <2>2
  <1> QED
    BY <1>2, <1>3

\* The connect is refused, or gets an ID that is free.
LEMMA SerialConnectRead ==
  ASSUME SerialInv, IInv', IDsLeft', ConnectsSerial', NEW t \in Threads, ConnectRead(t)
  PROVE  SerialInv'
  <1>0. /\ stage[t] = "connect" /\ IInv /\ frame[t] \in Frame /\ Type(t) = "CONNECT"
        /\ frame[t].value = INVALID_CLIENT_ID /\ frame[t].pSocket \in {NONE, t}
        /\ ~frame[t].stale
    BY ThreadFacts, SerialInvParts DEF ConnectRead, At, Conversation, FrameOK, Type
  <1>1. UNCHANGED <<g_SessionInfo, wClientID, clients>>
    BY DEF ConnectRead, tables
  <1>2. ASSUME NEW r \in CER_TYPE, Finish(t, r)
        PROVE  SerialInv'
    <2> DEFINE f == [frame[t] EXCEPT !.cerRR = r]
    <2>1. /\ f \in Frame /\ f.msg = frame[t].msg /\ f.pSocket = frame[t].pSocket
          /\ f.stale = frame[t].stale /\ f.value = frame[t].value /\ Goto(t, "respond", f)
      BY <1>0, <1>2 DEF Frame, Finish
    <2> HIDE DEF f
    <2> QED
      BY <1>0, <1>1, <2>1, ReadKeepsSerialInv
         DEF Stages, EndStages, SessionStages, AccountStages, ChargeStages
  <1>3. ASSUME NEW id \in NewClientIDs, Goto(t, "connectLock", [frame[t] EXCEPT !.value = id])
        PROVE  SerialInv'
    <2> DEFINE f == [frame[t] EXCEPT !.value = id]
    <2>1. id \notin DOMAIN g_SessionInfo
      BY <1>0, NewClientIDFree
    <2>2. frame'[t] = f /\ stage'[t] = "connectLock"
      BY <1>0, <1>3 DEF IInv, TypeOK, ThreadsOK, Goto
    <2>3. /\ f \in Frame /\ f.msg = frame[t].msg /\ f.pSocket = frame[t].pSocket
          /\ f.stale = frame[t].stale /\ f.value = id /\ Goto(t, "connectLock", f)
      BY <1>0, <1>3, <2>2 DEF IInv, TypeOK, ThreadsOK, Frame
    <2> HIDE DEF f
    <2> QED
      BY <1>0, <1>1, <2>1, <2>3, ReadKeepsSerialInv
         DEF Stages, EndStages, SessionStages, AccountStages, ChargeStages
  <1>4. "CER_AUTHENICATION_FAILED" \in CER_TYPE /\ "CER_UNSUPPORTED_PROTOCOL" \in CER_TYPE
    BY DEF CER_TYPE
  <1> QED
    BY <1>2, <1>3, <1>4 DEF ConnectRead

\* Taking the session mutex.
LEMMA SerialConnectLock ==
  ASSUME SerialInv, IInv', IDsLeft', ConnectsSerial', NEW t \in Threads, ConnectLock(t)
  PROVE  SerialInv'
  <1>0. /\ stage[t] = "connectLock" /\ IInv /\ frame[t] \in Frame /\ Type(t) = "CONNECT"
        /\ frame[t].value \notin DOMAIN g_SessionInfo /\ frame[t].pSocket \in {NONE, t}
        /\ ~frame[t].stale
    BY ThreadFacts, SerialInvParts DEF ConnectLock, At, Conversation, FrameOK, Type
  <1>1. "connectInsert" \in Stages
    BY DEF Stages
  <1>2. Goto(t, "connectInsert", frame[t]) /\ UNCHANGED <<g_SessionInfo, wClientID, clients>>
    BY <1>0, <1>1, StageIsGoto DEF ConnectLock, tables
  <1> QED
    BY <1>0, <1>1, <1>2, ReadKeepsSerialInv
       DEF EndStages, SessionStages, AccountStages, ChargeStages

\* The new session is the client's own, and nobody else's.
LEMMA SerialConnectInsert ==
  ASSUME SerialInv, IInv', IDsLeft', ConnectsSerial', NEW t \in Threads, ConnectInsert(t)
  PROVE  SerialInv'
  <1> DEFINE id == frame[t].value
             f  == [frame[t] EXCEPT !.cerRR = "CER_SUCCESS"]
  <1>0. /\ stage[t] = "connectInsert" /\ IInv /\ frame[t] \in Frame /\ Type(t) = "CONNECT"
        /\ id \notin DOMAIN g_SessionInfo /\ frame[t].pSocket \in {NONE, t}
        /\ ~frame[t].stale
    BY ThreadFacts, SerialInvParts DEF ConnectInsert, At, Conversation, FrameOK, Type
  <1>1. /\ UNCHANGED <<wClientID, clients>> /\ Goto(t, "respond", f)
        /\ g_SessionInfo' = Insert(g_SessionInfo, id, SESSION_INFO("SS_CONNECTED", t))
    BY DEF ConnectInsert, Finish
  <1>2. /\ f \in Frame /\ f.msg = frame[t].msg /\ f.pSocket = frame[t].pSocket
        /\ f.stale = frame[t].stale /\ f.value = id
    BY <1>0 DEF Frame, CER_TYPE
  <1> HIDE DEF f, id
  <1>3. /\ DOMAIN g_SessionInfo' = DOMAIN g_SessionInfo \cup {id}
        /\ \A i \in DOMAIN g_SessionInfo : g_SessionInfo'[i] = g_SessionInfo[i]
        /\ g_SessionInfo'[id].m_pSocket = t
        /\ g_SessionInfo'[id].m_qwCustomerID = INVALID_CUSTOMER_ID
    BY <1>0, <1>1 DEF Insert, SESSION_INFO
  <1>4. SessionsForTheirClients'
    BY <1>3 DEF SerialInv, SessionsForTheirClients, CustomersOf, IsValidCustomerID,
                INVALID_CUSTOMER_ID
  <1>5. \A u \in Threads \ {t} : stage[u] \notin {"connectLock", "connectInsert"}
    BY <1>0 DEF SerialInv, ConnectsSerial, InSessionTable
  <1> QED
    BY <1>0, <1>1, <1>2, <1>3, <1>4, <1>5, HandlerKeepsSerialInv
       DEF Stages, EndStages, SessionStages, AccountStages, ChargeStages

---------------------------------------------------------------------------
(* The handlers that look the session up, and those that write it          *)

\* Leaving a handler that has found no reply for its client to keep.
LEMMA SerialFinish ==
  ASSUME SerialInv, IInv', IDsLeft', ConnectsSerial', NEW t \in Threads,
         stage[t] \notin EndStages \cup {"receive"}, Type(t) # "CONNECT",
         NEW r \in CER_TYPE, Finish(t, r), UNCHANGED <<g_SessionInfo, wClientID, clients>>
  PROVE  SerialInv'
  <1> DEFINE f == [frame[t] EXCEPT !.cerRR = r]
  <1>1. frame[t] \in Frame /\ frame[t].pSocket \in {NONE, t} /\ ~frame[t].stale
    BY ThreadFacts, SerialInvParts DEF Conversation
  <1>2. /\ f \in Frame /\ f.msg = frame[t].msg /\ f.pSocket = frame[t].pSocket
        /\ f.stale = frame[t].stale /\ Goto(t, "respond", f)
    BY <1>1 DEF Frame, Finish
  <1> HIDE DEF f
  <1> QED
    BY <1>1, <1>2, ReadKeepsSerialInv
       DEF Stages, EndStages, SessionStages, AccountStages, ChargeStages

\* The session a handler finds by the client ID of the message is its client's.
LEMMA SerialFind ==
  ASSUME SerialInv, IInv', IDsLeft', ConnectsSerial', NEW t \in Threads,
         FindSession(t) \/ MissSession(t)
  PROVE  SerialInv'
  <1> DEFINE cid == frame[t].msg.hdr.cid
  <1>0. /\ stage[t] = "find" /\ frame[t] \in Frame /\ cid \in WORD
        /\ Type(t) # "CONNECT" /\ OwnsFor(t)
    BY ThreadFacts, SerialInvParts
       DEF FindSession, MissSession, At, Conversation, ConnectStages, EndStages, Header
  <1>1. UNCHANGED <<g_SessionInfo, wClientID, clients>>
    BY DEF FindSession, MissSession, tables
  <1>2. CASE FindSession(t)
    <2> DEFINE s == AfterFind(Type(t))
               f == [frame[t] EXCEPT !.itS = cid, !.stale = FALSE,
                                     !.pSocket = g_SessionInfo[cid].m_pSocket]
    <2>1. cid \in DOMAIN g_SessionInfo /\ Goto(t, s, f)
      BY <1>2 DEF FindSession, MayFind
    <2>2. Owns(t, cid)
      <3>1. cid # INVALID_CLIENT_ID
        BY <2>1 DEF SerialInv, IDsLeft
      <3> QED
        BY <1>0, <3>1 DEF OwnsFor, ReliesOn
    <2>3. /\ f \in Frame /\ f.msg = frame[t].msg /\ f.pSocket = t /\ ~f.stale /\ f.itS = cid
      BY <1>0, <2>2 DEF Frame, Owns
    <2>4. /\ s \in {"createFind", "logonFind", "logoffRead", "customer"}
          /\ s = "logonFind" => Type(t) = "LOGON"
      BY DEF AfterFind
    <2> HIDE DEF s, f, cid
    <2> QED
      BY <1>0, <1>1, <2>1, <2>2, <2>3, <2>4, ReadKeepsSerialInv
         DEF Stages, EndStages, SessionStages, AccountStages, ChargeStages
  <1>3. CASE MissSession(t)
    BY <1>0, <1>1, <1>3, SerialFinish DEF MissSession, EndStages, CER_TYPE
  <1> QED
    BY <1>2, <1>3

\* A customer a client logs on as is its customer.
LEMMA LogonCustomer ==
  ASSUME SerialInv, NEW t \in Threads, stage[t] \notin EndStages \cup {"receive"},
         Type(t) = "LOGON"
  PROVE  CredentialsID(t) \in CustomersOf(t)
  <1> DEFINE m == [type |-> Type(t), body |-> Body(t)]
  <1>1. m \in AsksOf(t)
    BY SerialInvParts DEF ForItsClient
  <1>2. m.type = "LOGON" /\ m.body = Body(t)
    OBVIOUS
  <1> HIDE DEF m
  <1> QED
    BY <1>1, <1>2 DEF AsksOf, CustomersOf, CredentialsID

\* The steps that read the session or the credentials and write nothing.
LEMMA SerialCustomer ==
  ASSUME SerialInv, IInv', IDsLeft', ConnectsSerial', NEW t \in Threads,
         CreateFind(t) \/ LogonFind(t) \/ LogoffRead(t) \/ ReadCustomer(t)
  PROVE  SerialInv'
  <1> USE DEF At
  <1>0. /\ stage[t] \in SessionStages /\ frame[t] \in Frame /\ ~frame[t].stale
        /\ frame[t].pSocket \in {NONE, t} /\ OwnsFor(t) /\ ForItsClient(t)
    BY ThreadFacts, SerialInvParts
       DEF CreateFind, LogonFind, LogoffRead, ReadCustomer, SessionStages, Conversation
  <1>1. Owns(t, frame[t].itS) /\ Type(t) # "CONNECT"
    BY <1>0, SessionHeld
  <1>2. UNCHANGED <<g_SessionInfo, wClientID, clients>>
    BY DEF CreateFind, LogonFind, LogoffRead, ReadCustomer, tables
  <1>3. stage[t] \notin EndStages \cup {"receive"}
    BY <1>0 DEF SessionStages, EndStages
  <1>4. ASSUME NEW c \in QWORD, NEW s \in {"createLock", "logonWrite", "logoffWrite", "account"},
               s \in {"logonWrite", "account"} => c \in CustomersOf(t),
               Goto(t, s, [frame[t] EXCEPT !.customer = c])
        PROVE  SerialInv'
    <2> DEFINE f == [frame[t] EXCEPT !.customer = c]
    <2>1. /\ f \in Frame /\ f.msg = frame[t].msg /\ f.pSocket = frame[t].pSocket
          /\ f.stale = frame[t].stale /\ f.itS = frame[t].itS /\ f.customer = c
          /\ Goto(t, s, f)
      BY <1>0, <1>4 DEF Frame
    <2>2. s \in Stages \ (EndStages \cup {"receive", "find", "connect"})
      BY DEF Stages, SessionStages, EndStages
    <2>3. s \in AccountStages \cup {"logonWrite"} => f.customer \in CustomersOf(t)
      BY <1>4, <2>1 DEF AccountStages, ChargeStages
    <2> HIDE DEF f
    <2> QED
      BY <1>0, <1>1, <1>2, <1>3, <2>1, <2>2, <2>3, ReadKeepsSerialInv
  <1>5. ASSUME NEW r \in CER_TYPE, Finish(t, r)
        PROVE  SerialInv'
    BY <1>1, <1>2, <1>3, <1>5, SerialFinish
  <1>6. CredentialsID(t) \in QWORD
    BY ThreadFacts, CustomerIDType DEF CredentialsID, SerialInv
  <1>7. CASE CreateFind(t)
    <2>1. "CER_INVALID_NAME_PIN" \in CER_TYPE /\ "CER_ACCOUNT_EXISTS" \in CER_TYPE
      BY DEF CER_TYPE
    <2> QED
      BY <1>4, <1>5, <1>6, <1>7, <2>1 DEF CreateFind
  <1>8. CASE LogonFind(t)
    <2>1. "CER_INVALID_NAME_PIN" \in CER_TYPE /\ "CER_ACCOUNT_NOT_FOUND" \in CER_TYPE
      BY DEF CER_TYPE
    <2>2. Type(t) = "LOGON"
      BY <1>0, <1>8 DEF LogonFind, ForItsClient
    <2>3. CredentialsID(t) \in CustomersOf(t)
      BY <1>3, <2>2, LogonCustomer
    <2> QED
      BY <1>4, <1>5, <1>6, <1>8, <2>1, <2>3 DEF LogonFind
  <1>9. ASSUME NEW c \in CustomersRead(t)
        PROVE  /\ c \in QWORD
               /\ IsValidCustomerID(c) => c \in CustomersOf(t)
    <2>1. c = g_SessionInfo[frame[t].itS].m_qwCustomerID
      BY <1>0, <1>9 DEF CustomersRead
    <2> QED
      BY <1>1, <2>1 DEF SerialInv, SessionsForTheirClients, Owns, IInv, TypeOK, TablesOK,
                        SessionRecord
  <1>10. CASE LogoffRead(t)
    BY <1>4, <1>9, <1>10 DEF LogoffRead
  <1>11. CASE ReadCustomer(t)
    <2>1. NotLoggedOn(Type(t)) \in CER_TYPE
      BY DEF NotLoggedOn, CER_TYPE
    <2> QED
      BY <1>4, <1>5, <1>9, <1>11, <2>1 DEF ReadCustomer
  <1> QED
    BY <1>7, <1>8, <1>10, <1>11

\* Waiting for the account mutex.
LEMMA SerialCreateLock ==
  ASSUME SerialInv, IInv', IDsLeft', ConnectsSerial', NEW t \in Threads, CreateLock(t)
  PROVE  SerialInv'
  <1>0. /\ stage[t] = "createLock" /\ IInv /\ frame[t] \in Frame /\ ~frame[t].stale
        /\ frame[t].pSocket \in {NONE, t}
    BY ThreadFacts, SerialInvParts DEF CreateLock, At, Conversation
  <1>1. Owns(t, frame[t].itS) /\ Type(t) # "CONNECT"
    BY <1>0, SessionHeld DEF SessionStages
  <1>2. "createInsert" \in Stages
    BY DEF Stages, SessionStages
  <1>3. Goto(t, "createInsert", frame[t]) /\ UNCHANGED <<g_SessionInfo, wClientID, clients>>
    BY <1>0, <1>2, StageIsGoto DEF CreateLock, tables
  <1> QED
    BY <1>0, <1>1, <1>2, <1>3, ReadKeepsSerialInv
       DEF EndStages, AccountStages, ChargeStages

\* Leaving a handler that has written its session and nobody else's, and put
\* there no customer but its client's.
LEMMA SessionWriteKeepsSerialInv ==
  ASSUME SerialInv, IInv', IDsLeft', ConnectsSerial', NEW t \in Threads,
         stage[t] \in SessionStages, NEW r \in CER_TYPE, Finish(t, r),
         UNCHANGED <<wClientID, clients>>,
         DOMAIN g_SessionInfo' = DOMAIN g_SessionInfo,
         \A i \in DOMAIN g_SessionInfo :
           /\ g_SessionInfo'[i].m_pSocket = g_SessionInfo[i].m_pSocket
           /\ \/ g_SessionInfo'[i].m_qwCustomerID = g_SessionInfo[i].m_qwCustomerID
              \/ i = frame[t].itS /\ (IsValidCustomerID(g_SessionInfo'[i].m_qwCustomerID) =>
                                        g_SessionInfo'[i].m_qwCustomerID \in CustomersOf(t))
  PROVE  SerialInv'
  <1> DEFINE f == [frame[t] EXCEPT !.cerRR = r]
  <1>1. frame[t] \in Frame /\ frame[t].pSocket \in {NONE, t} /\ ~frame[t].stale
    BY ThreadFacts, SerialInvParts DEF Conversation
  <1>2. /\ f \in Frame /\ f.msg = frame[t].msg /\ f.pSocket = frame[t].pSocket
        /\ f.stale = frame[t].stale /\ Goto(t, "respond", f)
    BY <1>1 DEF Frame, Finish
  <1>3. Owns(t, frame[t].itS) /\ Type(t) # "CONNECT"
    BY SessionHeld
  <1>4. SessionsForTheirClients'
    <2>1. ASSUME NEW i \in DOMAIN g_SessionInfo,
                 IsValidCustomerID(g_SessionInfo'[i].m_qwCustomerID)
          PROVE  g_SessionInfo'[i].m_qwCustomerID \in CustomersOf(g_SessionInfo'[i].m_pSocket)
      BY <1>3, <2>1 DEF SerialInv, SessionsForTheirClients, Owns
    <2> QED
      BY <2>1 DEF SessionsForTheirClients, CustomersOf
  <1>5. stage[t] \notin EndStages \cup {"receive"}
    BY DEF SessionStages, EndStages
  <1> HIDE DEF f
  <1> QED
    BY <1>1, <1>2, <1>3, <1>4, <1>5, HandlerKeepsSerialInv
       DEF Stages, EndStages, SessionStages, AccountStages, ChargeStages

\* Creating an account, logging on and logging off.
LEMMA SerialSessionWrites ==
  ASSUME SerialInv, IInv', IDsLeft', ConnectsSerial', NEW t \in Threads,
         CreateInsert(t) \/ LogonWrite(t) \/ LogoffWrite(t)
  PROVE  SerialInv'
  <1> USE DEF At
  <1>0. /\ stage[t] \in SessionStages /\ ~frame[t].stale /\ ForItsClient(t)
        /\ UNCHANGED <<wClientID, clients>>
        /\ g_SessionInfo \in [DOMAIN g_SessionInfo -> SessionRecord]
    BY SerialInvParts DEF CreateInsert, LogonWrite, LogoffWrite, SessionStages, Conversation,
                          IInv, TypeOK, TablesOK
  <1>1. NodesWritten(t) = {frame[t].itS}
    BY <1>0 DEF NodesWritten
  <1>2. CASE CreateInsert(t)
    <2>1. /\ Finish(t, "CER_SUCCESS") /\ "CER_SUCCESS" \in CER_TYPE
          /\ g_SessionInfo' = set_State(g_SessionInfo, frame[t].itS, "SS_ACCOUNT_CREATED")
      BY <1>1, <1>2 DEF CreateInsert, CER_TYPE
    <2>2. /\ DOMAIN g_SessionInfo' = DOMAIN g_SessionInfo
          /\ \A i \in DOMAIN g_SessionInfo :
               /\ g_SessionInfo'[i].m_pSocket = g_SessionInfo[i].m_pSocket
               /\ g_SessionInfo'[i].m_qwCustomerID = g_SessionInfo[i].m_qwCustomerID
      BY <1>0, <2>1 DEF set_State, SessionRecord
    <2> QED
      BY <1>0, <2>1, <2>2, SessionWriteKeepsSerialInv
  <1>3. CASE LogonWrite(t)
    <2>1. /\ Finish(t, "CER_SUCCESS") /\ "CER_SUCCESS" \in CER_TYPE
          /\ stage[t] = "logonWrite"
          /\ g_SessionInfo' =
               set_State(set_CustomerID(g_SessionInfo, frame[t].itS, frame[t].customer),
                         frame[t].itS, "SS_LOGGED_ON")
      BY <1>1, <1>3 DEF LogonWrite, CER_TYPE
    <2>2. /\ DOMAIN g_SessionInfo' = DOMAIN g_SessionInfo
          /\ \A i \in DOMAIN g_SessionInfo :
               /\ g_SessionInfo'[i].m_pSocket = g_SessionInfo[i].m_pSocket
               /\ i # frame[t].itS =>
                    g_SessionInfo'[i].m_qwCustomerID = g_SessionInfo[i].m_qwCustomerID
               /\ i = frame[t].itS => g_SessionInfo'[i].m_qwCustomerID = frame[t].customer
      BY <1>0, <2>1 DEF set_State, set_CustomerID, SessionRecord
    <2>3. frame[t].customer \in CustomersOf(t)
      BY <1>0, <2>1 DEF ForItsClient
    <2> QED
      BY <1>0, <2>1, <2>2, <2>3, SessionWriteKeepsSerialInv
  <1>4. CASE LogoffWrite(t)
    <2> DEFINE on == IsValidCustomerID(frame[t].customer)
               r  == IF on THEN "CER_SUCCESS" ELSE "CER_CLIENT_NOT_LOGGEDON"
    <2>1. /\ Finish(t, r) /\ r \in CER_TYPE
          /\ g_SessionInfo' =
               set_State(IF on
                         THEN set_CustomerID(g_SessionInfo, frame[t].itS, INVALID_CUSTOMER_ID)
                         ELSE g_SessionInfo, frame[t].itS, "SS_LOGGED_OFF")
      BY <1>1, <1>4 DEF LogoffWrite, CER_TYPE
    <2> HIDE DEF r, on
    <2>2. /\ DOMAIN g_SessionInfo' = DOMAIN g_SessionInfo
          /\ \A i \in DOMAIN g_SessionInfo :
               /\ g_SessionInfo'[i].m_pSocket = g_SessionInfo[i].m_pSocket
               /\ \/ g_SessionInfo'[i].m_qwCustomerID = g_SessionInfo[i].m_qwCustomerID
                  \/ i = frame[t].itS
                     /\ g_SessionInfo'[i].m_qwCustomerID = INVALID_CUSTOMER_ID
      BY <1>0, <2>1 DEF set_State, set_CustomerID, SessionRecord
    <2> QED
      BY <1>0, <2>1, <2>2, SessionWriteKeepsSerialInv DEF IsValidCustomerID
  <1> QED
    BY <1>2, <1>3, <1>4

---------------------------------------------------------------------------
(* The handlers that work on an account                                    *)

\* Wherever such a handler goes, it keeps the message and the customer.
LEMMA WithinAccount ==
  ASSUME SerialInv, IInv', IDsLeft', ConnectsSerial', NEW t \in Threads,
         stage[t] \in AccountStages, NEW s \in ChargeStages \cup {"respond"},
         NEW f \in Frame, Goto(t, s, f),
         f.msg = frame[t].msg, f.customer = frame[t].customer,
         f.pSocket = frame[t].pSocket, f.stale = frame[t].stale,
         UNCHANGED <<g_SessionInfo, wClientID, clients>>
  PROVE  SerialInv'
  <1>1. stage[t] \notin EndStages \cup {"receive"}
    BY DEF AccountStages, ChargeStages, EndStages
  <1>2. /\ Type(t) # "CONNECT" /\ frame[t].pSocket \in {NONE, t} /\ ~frame[t].stale
        /\ frame[t].customer \in CustomersOf(t)
    BY SerialInvParts
       DEF Conversation, ForItsClient, AccountStages, ChargeStages, EndStages, ConnectStages
  <1>3. /\ s \in Stages \ (EndStages \cup {"receive", "find", "connect"})
        /\ s \notin SessionStages /\ s \notin {"connectLock", "connectInsert"}
    BY DEF ChargeStages, Stages, EndStages, SessionStages
  <1> QED
    BY <1>1, <1>2, <1>3, ReadKeepsSerialInv DEF SessionStages

\* The lookups, the loads and stores of a balance and the record of a
\* transaction.
LEMMA SerialAccount ==
  ASSUME SerialInv, IInv', IDsLeft', ConnectsSerial', NEW t \in Threads,
         \/ MissAccount(t) \/ DepositRead(t) \/ DepositWrite(t)
         \/ WithdrawCheck(t) \/ WithdrawRead(t) \/ WithdrawWrite(t)
         \/ TransactionLock(t) \/ TransactionSize(t) \/ TransactionInsert(t)
         \/ BalanceRead(t) \/ HistoryRead(t)
  PROVE  SerialInv'
  <1> USE DEF At
  <1>0. IInv /\ frame[t] \in Frame /\ stage \in [Threads -> Stages]
        /\ frame \in [Threads -> Frame]
    BY ThreadFacts DEF SerialInv, IInv, TypeOK, ThreadsOK
  <1>1. /\ stage[t] \in AccountStages
        /\ UNCHANGED <<g_SessionInfo, wClientID, clients>>
    BY DEF MissAccount, DepositRead, DepositWrite, WithdrawCheck, WithdrawRead, WithdrawWrite,
           TransactionLock, TransactionSize, TransactionInsert, BalanceRead, HistoryRead,
           AccountStages, ChargeStages, tables
  <1>2. frame' \in [Threads -> Frame] /\ frame'[t] \in Frame
    BY DEF IInv, TypeOK, ThreadsOK
  <1>3. ASSUME NEW s \in ChargeStages \cup {"respond"}, NEW g,
               Goto(t, s, g), g.msg = frame[t].msg, g.customer = frame[t].customer,
               g.pSocket = frame[t].pSocket, g.stale = frame[t].stale
        PROVE  SerialInv'
    <2>1. g \in Frame
      BY <1>0, <1>2, <1>3 DEF Goto
    <2> QED
      BY <1>1, <1>3, <2>1, WithinAccount
  <1>4. \A r : LET g == [frame[t] EXCEPT !.cerRR = r]
               IN /\ g.msg = frame[t].msg /\ g.customer = frame[t].customer
                  /\ g.pSocket = frame[t].pSocket /\ g.stale = frame[t].stale
    BY <1>0 DEF Frame
  <1>5. \A v : LET g == [frame[t] EXCEPT !.value = v]
               IN /\ g.msg = frame[t].msg /\ g.customer = frame[t].customer
                  /\ g.pSocket = frame[t].pSocket /\ g.stale = frame[t].stale
    BY <1>0 DEF Frame
  <1>6. CASE MissAccount(t) \/ WithdrawCheck(t) \/ TransactionInsert(t)
    <2>1. \/ \E r : Finish(t, r)
          \/ Goto(t, "decrRead", frame[t])
      BY <1>6 DEF MissAccount, WithdrawCheck, TransactionInsert
    <2>2. "decrRead" \in ChargeStages
      BY DEF ChargeStages
    <2> QED
      BY <1>3, <1>4, <2>1, <2>2 DEF Finish
  <1>7. CASE DepositRead(t) \/ WithdrawRead(t) \/ TransactionSize(t)
    <2>1. \E s \in ChargeStages : \E v : Goto(t, s, [frame[t] EXCEPT !.value = v])
      BY <1>7 DEF DepositRead, WithdrawRead, TransactionSize, ChargeStages
    <2> QED
      BY <1>3, <1>5, <2>1
  <1>8. CASE DepositWrite(t) \/ WithdrawWrite(t) \/ TransactionLock(t)
    <2>1. \E s \in ChargeStages : Goto(t, s, frame[t])
      BY <1>0, <1>8 DEF DepositWrite, WithdrawWrite, TransactionLock, ChargeStages, Goto
    <2> QED
      BY <1>3, <2>1
  <1>9. CASE BalanceRead(t)
    <2> DEFINE g == [frame[t] EXCEPT !.value = Balance(t), !.cerRR = "CER_SUCCESS"]
    <2>1. Goto(t, "respond", g)
      BY <1>9 DEF BalanceRead
    <2>2. /\ g.msg = frame[t].msg /\ g.customer = frame[t].customer
          /\ g.pSocket = frame[t].pSocket /\ g.stale = frame[t].stale
      BY <1>0 DEF Frame
    <2> HIDE DEF g
    <2> QED
      BY <1>3, <2>1, <2>2
  <1>10. CASE HistoryRead(t)
    <2>1. PICK ids :
            Goto(t, "respond", [frame[t] EXCEPT !.list = ids, !.cerRR = "CER_SUCCESS"])
      BY <1>10 DEF HistoryRead
    <2> DEFINE g == [frame[t] EXCEPT !.list = ids, !.cerRR = "CER_SUCCESS"]
    <2>2. /\ g.msg = frame[t].msg /\ g.customer = frame[t].customer
          /\ g.pSocket = frame[t].pSocket /\ g.stale = frame[t].stale
      BY <1>0 DEF Frame
    <2>3. Goto(t, "respond", g)
      BY <2>1
    <2> HIDE DEF g
    <2> QED
      BY <1>3, <2>2, <2>3
  <1> QED
    BY <1>6, <1>7, <1>8, <1>9, <1>10

---------------------------------------------------------------------------
(* The end of a connection                                                 *)

\* The thread whose client has gone leaves the receive loop and takes the
\* session mutex.
LEMMA SerialEnd ==
  ASSUME SerialInv, IInv', IDsLeft', ConnectsSerial', NEW t \in Threads,
         ReceiveEnd(t) \/ DisconnectLock(t)
  PROVE  SerialInv'
  <1>0. /\ stage \in [Threads -> Stages] /\ OwnsFor(t) /\ Answered(t) /\ Conversation(t)
        /\ stage[t] \in {"receive", "disconnectLock"}
        /\ UNCHANGED <<g_SessionInfo, frame, wClientID, clients>>
        /\ \E s \in {"disconnectLock", "disconnectErase"} : stage' = [stage EXCEPT ![t] = s]
    BY SerialInvParts DEF SerialInv, IInv, TypeOK, ThreadsOK, ReceiveEnd, DisconnectLock, At,
                          tables
  <1>1. PICK s \in {"disconnectLock", "disconnectErase"} : stage' = [stage EXCEPT ![t] = s]
    BY <1>0
  <1>2. stage'[t] = s /\ ~open[t]
    BY <1>0, <1>1 DEF Conversation, EndStages, ReceiveEnd, DisconnectLock, At
  <1>3. \A u \in Threads \ {t} : Private(u)' = Private(u)
    BY <1>0, <1>1 DEF Private, clients
  <1>4. \A u \in Threads : \A i \in WORD : Owns(u, i) => Owns(u, i)'
    BY <1>0 DEF Owns
  <1>5. OwnsFor(t)'
    <2>1. ASSUME NEW i \in WORD, ReliesOn(t, i)', i # INVALID_CLIENT_ID
          PROVE  Owns(t, i)'
      <3>1. ReliesOn(t, i)
        BY <1>0, <1>2, <2>1 DEF ReliesOn, clients, SessionStages, Type
      <3> QED
        BY <1>0, <1>4, <2>1, <3>1 DEF OwnsFor
    <2> QED
      BY <2>1 DEF OwnsFor, WORD, INVALID_CLIENT_ID
  <1>6. Answered(t)'
    BY <1>0 DEF Answered, clients
  <1>7. Conversation(t)'
    BY <1>0, <1>2 DEF Conversation, clients, INVALID_CLIENT_ID, Type, EndStages
  <1>8. ForItsClient(t)'
    BY <1>2 DEF ForItsClient, EndStages, AccountStages, ChargeStages
  <1>9. SessionsForTheirClients'
    BY <1>0, SessionsUntouched
  <1> QED
    BY <1>0, <1>3, <1>4, <1>5, <1>6, <1>7, <1>8, <1>9, StepKeepsSerialInv

\* ProcessDisconnect erases the client's own session: no other handler holds
\* an iterator to it.
LEMMA SerialErase ==
  ASSUME SerialInv, IInv', IDsLeft', ConnectsSerial', NEW t \in Threads, DisconnectErase(t)
  PROVE  SerialInv'
  <1> DEFINE id == wClientID[t]
  <1>0. /\ stage \in [Threads -> Stages] /\ frame \in [Threads -> Frame] /\ id \in WORD
        /\ OwnsFor(t) /\ Conversation(t)
        /\ stage[t] = "disconnectErase" /\ stage' = [stage EXCEPT ![t] = "exited"]
        /\ UNCHANGED <<wClientID, clients>>
        /\ g_SessionInfo' = Erase(g_SessionInfo, id)
    BY SerialInvParts DEF SerialInv, IInv, TypeOK, ThreadsOK, DisconnectErase, At
  <1> HIDE DEF id
  <1>1. id \in DOMAIN g_SessionInfo => g_SessionInfo[id].m_pSocket = t
    <2>1. id \in DOMAIN g_SessionInfo => id # INVALID_CLIENT_ID
      BY DEF SerialInv, IDsLeft
    <2> QED
      BY <1>0, <2>1 DEF OwnsFor, ReliesOn, Owns, id
  <1>2. ASSUME NEW u \in Threads
        PROVE  frame'[u] = frame[u]
    <2>1. ~(stage[u] \in SessionStages /\ frame[u].itS = id)
      <3>1. ASSUME stage[u] \in SessionStages, frame[u].itS = id
            PROVE  FALSE
        <4>1. u = t
          BY <1>1, <3>1, SessionHeld DEF Owns
        <4> QED
          BY <1>0, <3>1, <4>1 DEF SessionStages
      <3> QED
        BY <3>1
    <2>2. ~frame[u].stale /\ frame[u] \in Frame
      BY <1>0, SerialInvParts DEF Conversation
    <2>3. frame'[u] = [frame[u] EXCEPT !.stale = FALSE]
      BY <2>1, <2>2 DEF DisconnectErase, id
    <2> QED
      BY <2>2, <2>3 DEF Frame
  <1>3. /\ DOMAIN g_SessionInfo' = DOMAIN g_SessionInfo \ {id}
        /\ \A i \in DOMAIN g_SessionInfo' : g_SessionInfo'[i] = g_SessionInfo[i]
    BY <1>0 DEF Erase
  <1>4. stage'[t] = "exited" /\ ~open[t]
    BY <1>0 DEF Conversation, EndStages
  <1>5. \A u \in Threads \ {t} : Private(u)' = Private(u)
    BY <1>0, <1>2 DEF Private, clients
  <1>6. \A u \in Threads \ {t} : \A i \in WORD : Owns(u, i) => Owns(u, i)'
    BY <1>1, <1>3 DEF Owns
  <1>7. held[t] = INVALID_CLIENT_ID /\ inbox[t] = <<>>
    BY <1>0, <1>4 DEF Conversation
  <1>8. OwnsFor(t)'
    <2>1. ASSUME NEW i \in WORD, ReliesOn(t, i)'
          PROVE  i = INVALID_CLIENT_ID
      BY <1>0, <1>4, <1>7, <2>1 DEF ReliesOn, clients, SessionStages
    <2> QED
      BY <2>1 DEF OwnsFor, WORD, INVALID_CLIENT_ID
  <1>9. Answered(t)'
    BY <1>0, <1>7 DEF Answered, clients
  <1>10. Conversation(t)'
    BY <1>0, <1>2, <1>4 DEF Conversation, clients, INVALID_CLIENT_ID, Type, EndStages
  <1>11. ForItsClient(t)'
    BY <1>4 DEF ForItsClient, EndStages, AccountStages, ChargeStages
  <1>12. SessionsForTheirClients'
    BY <1>3 DEF SerialInv, SessionsForTheirClients, CustomersOf
  <1> QED
    BY <1>3, <1>5, <1>6, <1>8, <1>9, <1>10, <1>11, <1>12, StepKeepsSerialInv

---------------------------------------------------------------------------
(* The conversation of a client and its thread                             *)

\* A client sends when its socket is empty and its thread waits.
LEMMA SerialSend ==
  ASSUME SerialInv, IInv', IDsLeft', ConnectsSerial', NEW t \in Threads, SendRequest(t)
  PROVE  SerialInv'
  <1>0. /\ stage \in [Threads -> Stages] /\ frame \in [Threads -> Frame]
        /\ asked \in [Threads -> Header \cup {NONE}] /\ sent[t] \in Nat
        /\ OwnsFor(t) /\ Answered(t) /\ Conversation(t) /\ stage[t] = "receive"
        /\ open[t] /\ asked[t] = NONE /\ sent[t] < Len(Menu[t])
        /\ UNCHANGED <<g_SessionInfo, wClientID, held, inbox, open>>
    BY SerialInvParts DEF SerialInv, IInv, TypeOK, ThreadsOK, ClientsOK, SendRequest, At, tables
  <1>1. inbox[t] = <<>>
    BY <1>0 DEF Answered
  <1>2. PICK m \in Menu[t][sent[t] + 1] :
          LET hdr == STD_HDR(m.type, IF m.type = "CONNECT" THEN 0 ELSE held[t],
                             sent[t] % DwordMod, 0)
          IN /\ asked' = [asked EXCEPT ![t] = hdr]
             /\ Goto(t, FirstStage(m.type),
                     NewFrame([hdr |-> hdr, body |-> m.body],
                              IF m.type = "CONNECT" THEN t ELSE NONE))
    BY DEF SendRequest
  <1> DEFINE hdr == STD_HDR(m.type, IF m.type = "CONNECT" THEN 0 ELSE held[t],
                            sent[t] % DwordMod, 0)
             f == NewFrame([hdr |-> hdr, body |-> m.body],
                           IF m.type = "CONNECT" THEN t ELSE NONE)
  <1>3. /\ asked' = [asked EXCEPT ![t] = hdr] /\ Goto(t, FirstStage(m.type), f)
    BY <1>2
  <1>4. /\ f.msg.hdr = hdr /\ f.msg.body = m.body /\ hdr.type = m.type
        /\ m.type # "CONNECT" => hdr.cid = held[t]
        /\ f.pSocket \in {NONE, t} /\ ~f.stale /\ f.value = INVALID_CLIENT_ID
    BY DEF NewFrame, STD_HDR
  <1>5. m \in AsksOf(t) /\ m = [type |-> m.type, body |-> m.body]
    <2>1. Menu[t] \in Seq(SUBSET [type : MSG_TYPE, body : Payload(Names)])
      BY MessagingAssumption
    <2>2. sent[t] + 1 \in DOMAIN Menu[t]
      BY <1>0, <2>1
    <2>3. Menu[t][sent[t] + 1] \subseteq [type : MSG_TYPE, body : Payload(Names)]
      BY <2>1, <2>2
    <2> QED
      BY <2>2, <2>3 DEF AsksOf
  <1> HIDE DEF hdr, f
  <1>6. /\ stage'[t] = FirstStage(m.type) /\ frame'[t] = f /\ asked'[t] = hdr
        /\ \A u \in Threads \ {t} : Private(u)' = Private(u)
    BY <1>0, <1>3 DEF Goto, Private
  <1>7. /\ stage'[t] = "connect" <=> m.type = "CONNECT"
        /\ stage'[t] = "find" <=> m.type # "CONNECT"
        /\ stage'[t] \in {"connect", "find"}
    BY <1>6 DEF FirstStage
  <1>8. \A u \in Threads : \A i \in WORD : Owns(u, i) => Owns(u, i)'
    BY <1>0 DEF Owns
  <1>9. OwnsFor(t)'
    <2>1. ASSUME NEW i \in WORD, ReliesOn(t, i)', i # INVALID_CLIENT_ID
          PROVE  Owns(t, i)'
      <3>1. i = held[t] \/ i = wClientID[t]
        BY <1>0, <1>1, <1>4, <1>6, <1>7, <2>1 DEF ReliesOn, SessionStages
      <3>2. ReliesOn(t, i)
        BY <1>0, <3>1 DEF ReliesOn
      <3> QED
        BY <1>0, <1>8, <2>1, <3>2 DEF OwnsFor
    <2> QED
      BY <2>1 DEF OwnsFor, WORD, INVALID_CLIENT_ID
  <1>10. Answered(t)'
    BY <1>0, <1>1 DEF Answered
  <1>11. Conversation(t)'
    BY <1>0, <1>1, <1>4, <1>6, <1>7
       DEF Conversation, INVALID_CLIENT_ID, Type, EndStages, ConnectStages
  <1>12. ForItsClient(t)'
    BY <1>4, <1>5, <1>6, <1>7
       DEF ForItsClient, Type, Body, AsksOf, AccountStages, ChargeStages
  <1>13. SessionsForTheirClients'
    BY <1>0, SessionsUntouched
  <1> QED
    BY <1>0, <1>6, <1>8, <1>9, <1>10, <1>11, <1>12, <1>13, StepKeepsSerialInv

\* A sequence of one element.
LEMMA OnlyOne ==
  ASSUME NEW S, NEW q \in Seq(S), Len(q) = 1
  PROVE  Head(q) = q[1] /\ Tail(q) = <<>> /\ q[1] \in S
  <1>1. q # <<>>
    BY EmptySeq
  <1>2. Tail(q) \in Seq(S) /\ Len(Tail(q)) = 0
    BY <1>1, HeadTailProperties
  <1>3. Tail(q) = <<>>
    BY <1>2, EmptySeq
  <1>4. Head(q) = q[1] /\ Head(q) \in S
    BY <1>1, HeadTailProperties
  <1> QED
    BY <1>3, <1>4

\* The client ID a client takes from its socket is the one it was given.
LEMMA SerialReceive ==
  ASSUME SerialInv, IInv', IDsLeft', ConnectsSerial', NEW t \in Threads, ReceiveResponse(t)
  PROVE  SerialInv'
  <1> DEFINE resp == inbox[t][1]
  <1>0. /\ held \in [Threads -> WORD] /\ asked \in [Threads -> Header \cup {NONE}]
        /\ inbox \in [Threads -> Seq(Response)]
        /\ OwnsFor(t) /\ Answered(t) /\ Conversation(t) /\ ForItsClient(t)
        /\ open[t] /\ inbox[t] # <<>>
        /\ UNCHANGED <<g_SessionInfo, stage, frame, wClientID, open>>
        /\ inbox' = [inbox EXCEPT ![t] = Tail(@)] /\ asked' = [asked EXCEPT ![t] = NONE]
    BY SerialInvParts DEF SerialInv, IInv, TypeOK, ClientsOK, ReceiveResponse, tables
  <1>1. Len(inbox[t]) = 1 /\ resp.hdr.type = asked[t].type /\ asked[t] # NONE
        /\ inbox[t] \in Seq(Response)
    BY <1>0 DEF Answered
  <1>2. Head(inbox[t]) = resp /\ Tail(inbox[t]) = <<>> /\ resp \in Response
    BY <1>1, OnlyOne
  <1>3. stage[t] = "receive"
    BY <1>0 DEF Conversation
  <1>4. \/ held' = held
        \/ resp.hdr.type = "CONNECT" /\ held' = [held EXCEPT ![t] = resp.cid]
    BY <1>1, <1>2 DEF ReceiveResponse
  <1>5. inbox'[t] = <<>> /\ asked'[t] = NONE
    BY <1>0, <1>2
  <1>6. \A u \in Threads \ {t} : Private(u)' = Private(u)
    BY <1>0, <1>4 DEF Private
  <1>7. \A u \in Threads : \A i \in WORD : Owns(u, i) => Owns(u, i)'
    BY <1>0 DEF Owns
  <1>8. OwnsFor(t)'
    <2>1. ASSUME NEW i \in WORD, ReliesOn(t, i)', i # INVALID_CLIENT_ID
          PROVE  Owns(t, i)'
      <3>1. \/ i = held[t] \/ i = wClientID[t]
            \/ resp.hdr.type = "CONNECT" /\ i = resp.cid
        BY <1>0, <1>3, <1>4, <1>5, <2>1 DEF ReliesOn, SessionStages
      <3>2. ReliesOn(t, i)
        BY <1>0, <1>3, <3>1 DEF ReliesOn
      <3> QED
        BY <1>0, <1>7, <2>1, <3>2 DEF OwnsFor
    <2> QED
      BY <2>1 DEF OwnsFor, WORD, INVALID_CLIENT_ID
  <1>9. Answered(t)'
    BY <1>5 DEF Answered
  <1>10. Conversation(t)'
    BY <1>0, <1>3 DEF Conversation, INVALID_CLIENT_ID, Type, EndStages, ConnectStages
  <1>11. ForItsClient(t)'
    BY <1>0 DEF ForItsClient, Type, Body, AsksOf, CustomersOf
  <1>12. SessionsForTheirClients'
    BY <1>0, SessionsUntouched
  <1> QED
    BY <1>0, <1>6, <1>7, <1>8, <1>9, <1>10, <1>11, <1>12, StepKeepsSerialInv

\* A client that goes holds no ID any more.
LEMMA SerialClose ==
  ASSUME SerialInv, IInv', IDsLeft', ConnectsSerial', NEW t \in Threads, Close(t)
  PROVE  SerialInv'
  <1>0. /\ held'[t] = INVALID_CLIENT_ID /\ asked'[t] = NONE /\ inbox'[t] = <<>> /\ ~open'[t]
        /\ UNCHANGED <<g_SessionInfo, stage, frame, wClientID>>
        /\ OwnsFor(t) /\ Conversation(t) /\ ForItsClient(t)
        /\ \A u \in Threads \ {t} : Private(u)' = Private(u)
    BY SerialInvParts DEF SerialInv, IInv, TypeOK, ClientsOK, Close, tables, Private
  <1>1. \A u \in Threads : \A i \in WORD : Owns(u, i) => Owns(u, i)'
    BY <1>0 DEF Owns
  <1>2. OwnsFor(t)'
    <2>1. ASSUME NEW i \in WORD, ReliesOn(t, i)', i # INVALID_CLIENT_ID
          PROVE  Owns(t, i)'
      <3>1. ReliesOn(t, i)
        BY <1>0, <2>1 DEF ReliesOn, Type, INVALID_CLIENT_ID
      <3> QED
        BY <1>0, <1>1, <2>1, <3>1 DEF OwnsFor
    <2> QED
      BY <2>1 DEF OwnsFor, WORD, INVALID_CLIENT_ID
  <1>3. Answered(t)'
    BY <1>0 DEF Answered
  <1>4. Conversation(t)'
    BY <1>0 DEF Conversation, INVALID_CLIENT_ID, Type
  <1>5. ForItsClient(t)'
    BY <1>0 DEF ForItsClient, Type, Body, AsksOf, CustomersOf
  <1>6. SessionsForTheirClients'
    BY <1>0, SessionsUntouched
  <1> QED
    BY <1>0, <1>1, <1>2, <1>3, <1>4, <1>5, <1>6, StepKeepsSerialInv

\* What a response says of its request.
LEMMA ResponseEchoes ==
  ASSUME NEW f
  PROVE  LET resp == ResponseOf(f)
             hdr  == f.msg.hdr
         IN /\ resp.hdr.type = hdr.type
            /\ hdr.type = "CONNECT" => resp.cid = f.value
            /\ hdr.type # "CONNECT" => resp.hdr.cid = hdr.cid
            /\ hdr.type # "BALANCE_QUERY" => resp.hdr.seq = hdr.seq /\ resp.hdr.ctx = hdr.ctx
  <1>1. \A type, cerRR, cid, seq, ctx :
          LET resp == PlainResponse(type, cerRR, cid, seq, ctx)
          IN /\ resp.hdr.type = type /\ resp.hdr.cid = cid /\ resp.cid = cid
             /\ resp.hdr.seq = seq /\ resp.hdr.ctx = ctx
    BY DEF PlainResponse, STD_HDR
  <1>2. \A cerRR, cid, ids, seq, ctx :
          LET resp == TRANSACTION_QUERY_RESPONSE(cerRR, cid, ids, seq, ctx)
          IN /\ resp.hdr.type = "TRANSACTION_QUERY" /\ resp.hdr.cid = cid
             /\ resp.hdr.seq = seq /\ resp.hdr.ctx = ctx
    BY DEF TRANSACTION_QUERY_RESPONSE, PlainResponse, STD_HDR
  <1>3. \A cerRR, cid, balance, ctx, seq :
          LET resp == BALANCE_QUERY_RESPONSE(cerRR, cid, balance, ctx, seq)
          IN resp.hdr.type = "BALANCE_QUERY" /\ resp.hdr.cid = cid
    BY DEF BALANCE_QUERY_RESPONSE, STD_HDR
  <1>4. CASE f.msg.hdr.type = "CONNECT"
    BY <1>1, <1>4 DEF ResponseOf, CONNECT_RESPONSE
  <1>5. CASE f.msg.hdr.type = "BALANCE_QUERY"
    BY <1>3, <1>5 DEF ResponseOf
  <1>6. CASE f.msg.hdr.type = "TRANSACTION_QUERY"
    BY <1>2, <1>6 DEF ResponseOf
  <1>7. CASE f.msg.hdr.type \notin {"CONNECT", "BALANCE_QUERY", "TRANSACTION_QUERY"}
    BY <1>1, <1>7 DEF ResponseOf
  <1> QED
    BY <1>4, <1>5, <1>6, <1>7

\* The response goes to the client that waits for it, or to none.
LEMMA SerialRespond ==
  ASSUME SerialInv, IInv', IDsLeft', ConnectsSerial', NEW t \in Threads, Respond(t)
  PROVE  SerialInv'
  <1> DEFINE f    == frame[t]
             resp == ResponseOf(f)
  <1>0. /\ stage \in [Threads -> Stages] /\ frame \in [Threads -> Frame]
        /\ wClientID \in [Threads -> WORD] /\ inbox \in [Threads -> Seq(Response)]
        /\ OwnsFor(t) /\ Answered(t) /\ Conversation(t) /\ stage[t] = "respond"
        /\ UNCHANGED <<g_SessionInfo, held, asked, open>> /\ Goto(t, "receive", IdleFrame)
        /\ wClientID' = IF Type(t) = "CONNECT" THEN [wClientID EXCEPT ![t] = f.value]
                        ELSE wClientID
    BY SerialInvParts DEF SerialInv, IInv, TypeOK, ThreadsOK, ClientsOK, Respond, At, tables
  <1>1. /\ stage'[t] = "receive" /\ frame'[t] = IdleFrame
        /\ wClientID'[t] = IF Type(t) = "CONNECT" THEN f.value ELSE wClientID[t]
    BY <1>0 DEF Goto
  <1>2. /\ inbox' = inbox \/ inbox' = [inbox EXCEPT ![t] = Append(@, resp)]
        /\ inbox'[t] # inbox[t] => open[t]
        /\ open[t] => inbox[t] = <<>> /\ asked[t] = f.msg.hdr
        /\ ~open[t] => inbox[t] = <<>>
    <2>1. f.pSocket \in {NONE, t}
      BY <1>0 DEF Conversation
    <2>2. \/ inbox' = inbox
          \/ open[t] /\ inbox' = [inbox EXCEPT ![t] = Append(@, resp)]
      BY <2>1 DEF Respond
    <2> HIDE DEF f, resp
    <2> QED
      BY <1>0, <2>2 DEF Conversation, f
  <1>3. inbox'[t] = <<>> \/ (open[t] /\ inbox'[t] = <<resp>>)
    BY <1>0, <1>2
  <1>4. \A u \in Threads \ {t} : Private(u)' = Private(u)
    BY <1>0, <1>2 DEF Private, Goto
  <1>5. /\ resp.hdr.type = Type(t)
        /\ Type(t) = "CONNECT" => resp.cid = f.value
        /\ Type(t) # "CONNECT" => resp.hdr.cid = f.msg.hdr.cid
        /\ Type(t) # "BALANCE_QUERY" => resp.hdr.seq = f.msg.hdr.seq /\ resp.hdr.ctx = f.msg.hdr.ctx
    BY ResponseEchoes DEF Type
  <1> HIDE DEF resp
  <1>6. Len(<<resp>>) = 1 /\ <<resp>>[1] = resp
    OBVIOUS
  <1>7. \A u \in Threads : \A i \in WORD : Owns(u, i) => Owns(u, i)'
    BY <1>0 DEF Owns
  <1>8. OwnsFor(t)'
    <2>1. ASSUME NEW i \in WORD, ReliesOn(t, i)', i # INVALID_CLIENT_ID
          PROVE  Owns(t, i)'
      <3>1. \/ i = held[t] \/ i = wClientID[t]
            \/ Type(t) = "CONNECT" /\ i = f.value
        BY <1>0, <1>1, <1>3, <1>5, <1>6, <2>1 DEF ReliesOn, SessionStages
      <3>2. ReliesOn(t, i)
        BY <1>0, <3>1 DEF ReliesOn
      <3> QED
        BY <1>0, <1>7, <2>1, <3>2 DEF OwnsFor
    <2> QED
      BY <2>1 DEF OwnsFor, WORD, INVALID_CLIENT_ID
  <1>9. Answered(t)'
    <2>1. (asked[t] # NONE /\ asked[t].type = Type(t)) \/ ~open[t]
      <3>1. asked \in [Threads -> Header \cup {NONE}] /\ f.msg.hdr \in Header
        BY ThreadFacts DEF SerialInv, IInv, TypeOK, ClientsOK
      <3>2. NONE \notin Header
        BY MessagingAssumption
      <3> QED
        BY <1>2, <3>1, <3>2 DEF Type
    <2> QED
      BY <1>0, <1>2, <1>3, <1>5, <1>6, <2>1 DEF Answered, Type
  <1>10. Conversation(t)'
    <2>1. IdleFrame.pSocket = NONE /\ ~IdleFrame.stale
      BY DEF IdleFrame, NewFrame
    <2> QED
      BY <1>0, <1>1, <1>3, <2>1 DEF Conversation, INVALID_CLIENT_ID, Type, EndStages, ConnectStages
  <1>11. ForItsClient(t)'
    BY <1>1 DEF ForItsClient, AccountStages, ChargeStages
  <1>12. SessionsForTheirClients'
    BY <1>0, SessionsUntouched
  <1> QED
    BY <1>0, <1>4, <1>7, <1>8, <1>9, <1>10, <1>11, <1>12, StepKeepsSerialInv

---------------------------------------------------------------------------
(* The invariant                                                           *)

\* Every step of a thread or a client.
LEMMA StepSerialInv ==
  ASSUME SerialInv, IInv', IDsLeft', ConnectsSerial', NEW t \in Threads,
         ClientStep(t) \/ ServerStep(t)
  PROVE  SerialInv'
  <1>1. CASE ClientStep(t)
    BY <1>1, SerialSend, SerialReceive, SerialClose DEF ClientStep
  <1>2. CASE \/ ReceiveEnd(t) \/ DisconnectLock(t) \/ DisconnectErase(t)
             \/ ConnectRead(t) \/ ConnectLock(t) \/ ConnectInsert(t)
             \/ FindSession(t) \/ MissSession(t)
    BY <1>2, SerialEnd, SerialErase, SerialConnectRead, SerialConnectLock, SerialConnectInsert,
       SerialFind
  <1>3. CASE \/ CreateFind(t) \/ CreateLock(t) \/ CreateInsert(t)
             \/ LogonFind(t) \/ LogonWrite(t) \/ LogoffRead(t) \/ LogoffWrite(t)
             \/ ReadCustomer(t)
    BY <1>3, SerialCustomer, SerialCreateLock, SerialSessionWrites
  <1>4. CASE \/ MissAccount(t) \/ DepositRead(t) \/ DepositWrite(t)
             \/ WithdrawCheck(t) \/ WithdrawRead(t) \/ WithdrawWrite(t)
             \/ TransactionLock(t) \/ TransactionSize(t) \/ TransactionInsert(t)
             \/ BalanceRead(t) \/ HistoryRead(t)
    BY <1>4, SerialAccount
  <1>5. CASE Respond(t)
    BY <1>5, SerialRespond
  <1> QED
    BY <1>1, <1>2, <1>3, <1>4, <1>5 DEF ServerStep

\* Every step of the system that keeps the connects serial and leaves an ID.
LEMMA NextSerialInv ==
  ASSUME SerialInv, IDsLeft', [Next /\ ConnectsSerial']_vars
  PROVE  SerialInv'
  <1>1. IInv'
    BY NextIInv DEF SerialInv
  <1>2. CASE UNCHANGED vars
    <2>1. UNCHANGED <<g_SessionInfo, stage, frame, wClientID, held, asked, inbox, open>>
      BY <1>2 DEF vars, tables, clients
    <2>2. ConnectsSerial' /\ RepliesAnswerRequests' /\ SessionsForTheirClients'
      BY <2>1, SessionsUntouched
         DEF SerialInv, ConnectsSerial, InSessionTable, RepliesAnswerRequests
    <2>3. OwnsWhatItReliesOn'
      BY <2>1 DEF SerialInv, OwnsWhatItReliesOn, ReliesOn, Owns, Type, INVALID_CLIENT_ID, WORD
    <2>4. \A t \in Threads : Conversation(t)'
      BY <2>1 DEF SerialInv, Conversation, Type, INVALID_CLIENT_ID
    <2>5. \A t \in Threads : ForItsClient(t)'
      BY <2>1 DEF SerialInv, ForItsClient, Type, Body, AsksOf, CustomersOf
    <2> QED
      BY <1>1, <2>2, <2>3, <2>4, <2>5 DEF SerialInv
  <1>3. CASE Next /\ ConnectsSerial'
    <2>1. CASE \E t \in Threads : ClientStep(t) \/ ServerStep(t)
      BY <1>1, <1>3, <2>1, StepSerialInv
    <2>2. CASE Terminated
      BY <1>2, <2>2 DEF Terminated
    <2> QED
      BY <1>3, <2>1, <2>2 DEF Next
  <1> QED
    BY <1>2, <1>3

\* Nobody is connected.
LEMMA InitSerialInv ==
  ASSUME Init
  PROVE  SerialInv
  <1>1. /\ DOMAIN g_SessionInfo = {} /\ IDsLeft
        /\ IdleFrame.pSocket = NONE /\ ~IdleFrame.stale
    BY DEF Init, EmptyMap, IDsLeft, IdleFrame, NewFrame
  <1>2. ConnectsSerial /\ RepliesAnswerRequests /\ SessionsForTheirClients
    BY <1>1 DEF Init, ConnectsSerial, InSessionTable, RepliesAnswerRequests,
                SessionsForTheirClients
  <1>3. OwnsWhatItReliesOn
    BY DEF Init, OwnsWhatItReliesOn, ReliesOn, SessionStages
  <1>4. ASSUME NEW t \in Threads
        PROVE  Conversation(t) /\ ForItsClient(t)
    BY <1>1 DEF Init, Conversation, ForItsClient, EndStages, ConnectStages, AccountStages,
                ChargeStages
  <1> QED
    BY <1>1, <1>2, <1>3, <1>4, InitIInv DEF SerialInv

---------------------------------------------------------------------------
(* The client IDs that are left                                            *)

\* Which steps lead into a connect, count a request or add a session.
LEMMA ConnectShape ==
  ASSUME IInv, NEW t \in Threads, ClientStep(t) \/ ServerStep(t)
  PROVE  \/ SendRequest(t) \/ ConnectRead(t) \/ ConnectLock(t) \/ ConnectInsert(t)
         \/ /\ DOMAIN g_SessionInfo' \subseteq DOMAIN g_SessionInfo
            /\ sent' = sent
            /\ \/ stage'[t] \notin ConnectStages
               \/ stage'[t] = stage[t] /\ frame'[t].value = frame[t].value
  <1> USE DEF At, Goto, Finish, tables, clients, ConnectStages
  <1>0. stage \in [Threads -> Stages] /\ frame \in [Threads -> Frame]
    BY DEF IInv, TypeOK, ThreadsOK
  <1>1. CASE ReceiveResponse(t) \/ Close(t)
    BY <1>0, <1>1 DEF ReceiveResponse, Close
  <1>2. CASE ReceiveEnd(t) \/ DisconnectLock(t) \/ DisconnectErase(t)
    BY <1>0, <1>2 DEF ReceiveEnd, DisconnectLock, DisconnectErase, Erase
  <1>3. CASE FindSession(t)
    <2>1. AfterFind(Type(t)) \notin ConnectStages
      BY DEF AfterFind
    <2> QED
      BY <1>0, <1>3, <2>1 DEF FindSession
  <1>4. CASE \/ MissSession(t) \/ MissAccount(t) \/ ReadCustomer(t)
             \/ CreateFind(t) \/ CreateLock(t) \/ CreateInsert(t)
    BY <1>0, <1>4 DEF MissSession, MissAccount, ReadCustomer, CreateFind, CreateLock,
                      CreateInsert, set_State
  <1>5. CASE LogonFind(t) \/ LogonWrite(t) \/ LogoffRead(t) \/ LogoffWrite(t)
    BY <1>0, <1>5 DEF LogonFind, LogonWrite, LogoffRead, LogoffWrite, set_State, set_CustomerID
  <1>6. CASE \/ DepositRead(t) \/ DepositWrite(t)
             \/ WithdrawCheck(t) \/ WithdrawRead(t) \/ WithdrawWrite(t)
    BY <1>0, <1>6 DEF DepositRead, DepositWrite, WithdrawCheck, WithdrawRead, WithdrawWrite
  <1>7. CASE \/ TransactionLock(t) \/ TransactionSize(t) \/ TransactionInsert(t)
             \/ BalanceRead(t) \/ HistoryRead(t) \/ Respond(t)
    BY <1>0, <1>7 DEF TransactionLock, TransactionSize, TransactionInsert, BalanceRead,
                      HistoryRead, Respond
  <1> QED
    BY <1>1, <1>2, <1>3, <1>4, <1>5, <1>6, <1>7 DEF ClientStep, ServerStep

\* The connects made are finitely many.
LEMMA MadeFacts ==
  ASSUME IDsEnough
  PROVE  /\ IsFiniteSet(ConnectsMade) /\ Cardinality(ConnectsMade) \in Nat
         /\ Cardinality(ConnectsMade) < INVALID_CLIENT_ID
  <1>1. ConnectsMade \subseteq ConnectsAsked
    BY DEF ConnectsMade
  <1>2. /\ IsFiniteSet(ConnectsMade) /\ Cardinality(ConnectsAsked) \in Nat
        /\ Cardinality(ConnectsMade) \in Nat
        /\ Cardinality(ConnectsMade) <= Cardinality(ConnectsAsked)
    BY <1>1, FS_Subset, FS_CardinalityType DEF IDsEnough
  <1> QED
    BY <1>2, Widths DEF IDsEnough, INVALID_CLIENT_ID

\* While the count says so, the last ID has not been given.
LEMMA CountLeavesIDs == IDsEnough /\ IDsCounted => IDsLeft
  <1> SUFFICES ASSUME IDsEnough, IDsCounted
               PROVE  IDsLeft
    OBVIOUS
  <1>1. /\ Cardinality(ConnectsMade) \in Nat /\ Cardinality(ConnectsMade) < WordMod - 1
        /\ WordMod \in Nat
    BY MadeFacts, Widths DEF INVALID_CLIENT_ID
  <1>2. ASSUME WordMod - 1 \in DOMAIN g_SessionInfo
        PROVE  FALSE
    <2>1. WordMod - 1 <= Cardinality(ConnectsMade)
      BY <1>2 DEF IDsCounted
    <2> QED
      BY <1>1, <2>1
  <1> QED
    BY <1>2 DEF IDsLeft, INVALID_CLIENT_ID

\* A request sent makes the count no smaller, a CONNECT sent makes it larger.
LEMMA SendCounts ==
  ASSUME IDsEnough, IInv, NEW t \in Threads, SendRequest(t)
  PROVE  /\ Cardinality(ConnectsMade') \in Nat
         /\ Cardinality(ConnectsMade) <= Cardinality(ConnectsMade')
         /\ stage'[t] = "connect" => Cardinality(ConnectsMade) < Cardinality(ConnectsMade')
  <1> DEFINE p == <<t, sent[t] + 1>>
  <1>0. /\ sent \in [Threads -> Nat] /\ stage \in [Threads -> Stages]
        /\ sent[t] \in Nat /\ sent[t] < Len(Menu[t]) /\ sent' = [sent EXCEPT ![t] = @ + 1]
    BY DEF IInv, TypeOK, ClientsOK, ThreadsOK, SendRequest
  <1>1. ConnectsMade \subseteq ConnectsMade' /\ ConnectsMade' \subseteq ConnectsAsked
    <2>1. \A q \in ConnectsAsked : q[1] \in Threads /\ q[2] \in Nat
      <3>1. \A u \in Threads : \A n \in DOMAIN Menu[u] : n \in Nat
        BY MessagingAssumption
      <3> QED
        BY <3>1 DEF ConnectsAsked
    <2>2. \A q \in ConnectsAsked : q[2] <= sent[q[1]] => q[2] <= sent'[q[1]]
      <3>1. ASSUME NEW u \in Threads
            PROVE  sent[u] \in Nat /\ (sent'[u] = sent[u] \/ sent'[u] = sent[u] + 1)
        BY <1>0
      <3>2. ASSUME NEW q \in ConnectsAsked, q[2] <= sent[q[1]]
            PROVE  q[2] <= sent'[q[1]]
        BY <2>1, <3>1, <3>2
      <3> QED
        BY <3>2
    <2> QED
      BY <2>2 DEF ConnectsMade, ConnectsAsked
  <1>2. /\ IsFiniteSet(ConnectsMade')
        /\ Cardinality(ConnectsMade') \in Nat /\ Cardinality(ConnectsMade) \in Nat
        /\ Cardinality(ConnectsMade) <= Cardinality(ConnectsMade')
    BY <1>1, FS_Subset, FS_CardinalityType DEF IDsEnough
  <1>3. ASSUME stage'[t] = "connect"
        PROVE  p \in ConnectsMade' \ ConnectsMade
    <2>1. PICK m \in Menu[t][sent[t] + 1] : stage'[t] = FirstStage(m.type)
      BY <1>0 DEF SendRequest, Goto
    <2>2. m.type = "CONNECT"
      BY <1>3, <2>1 DEF FirstStage
    <2>3. sent[t] + 1 \in DOMAIN Menu[t]
      BY <1>0, MessagingAssumption
    <2>4. p \in ConnectsAsked
      BY <2>2, <2>3 DEF ConnectsAsked
    <2>5. p[2] = sent[t] + 1 /\ p[1] = t /\ sent'[t] = sent[t] + 1
      BY <1>0
    <2>6. ConnectsAsked' = ConnectsAsked
      BY DEF ConnectsAsked
    <2> HIDE DEF p
    <2>7. p[2] <= sent'[p[1]] /\ ~(p[2] <= sent[p[1]])
      BY <1>0, <2>5
    <2> QED
      BY <2>4, <2>6, <2>7 DEF ConnectsMade
  <1>4. ASSUME stage'[t] = "connect"
        PROVE  Cardinality(ConnectsMade) < Cardinality(ConnectsMade')
    <2>1. ConnectsMade # ConnectsMade'
      BY <1>3, <1>4
    <2>2. Cardinality(ConnectsMade) # Cardinality(ConnectsMade')
      BY <1>1, <1>2, <2>1, FS_Subset
    <2> QED
      BY <1>2, <2>2
  <1> QED
    BY <1>2, <1>4

\* A step keeps the count.
LEMMA StepCounted ==
  ASSUME IDsEnough, SerialInv, IDsCounted, IInv', ConnectsSerial', NEW t \in Threads,
         ClientStep(t) \/ ServerStep(t)
  PROVE  IDsCounted'
  <1> DEFINE made == Cardinality(ConnectsMade)
             keys == DOMAIN g_SessionInfo
  <1>0. /\ IInv /\ stage \in [Threads -> Stages] /\ frame \in [Threads -> Frame]
        /\ keys \subseteq WORD /\ made \in Nat /\ made < WordMod - 1
        /\ \A u \in Threads : frame[u].value \in Nat
    BY MadeFacts DEF SerialInv, IInv, TypeOK, ThreadsOK, TablesOK, INVALID_CLIENT_ID, Frame
  <1>1. \A u \in Threads \ {t} : stage'[u] = stage[u] /\ frame'[u].value = frame[u].value
    BY <1>0, StepShape
  <1>2. sent' = sent => ConnectsMade' = ConnectsMade
    BY DEF ConnectsMade, ConnectsAsked
  <1>3. ASSUME DOMAIN g_SessionInfo' \subseteq keys, sent' = sent,
               \/ stage'[t] \notin ConnectStages
               \/ stage'[t] = stage[t] /\ frame'[t].value = frame[t].value
        PROVE  IDsCounted'
    BY <1>0, <1>1, <1>2, <1>3 DEF IDsCounted, ConnectStages
  <1>4. CASE SendRequest(t)
    <2>1. /\ DOMAIN g_SessionInfo' = keys
          /\ stage'[t] \in {"connect", "find"}
      BY <1>0, <1>4 DEF SendRequest, tables, Goto, FirstStage
    <2> DEFINE now == Cardinality(ConnectsMade')
    <2>2. /\ now \in Nat /\ made <= now
          /\ stage'[t] = "connect" => made < now
      BY <1>0, <1>4, SendCounts
    <2>3. \A i \in keys : i \in Nat /\ i <= made
      BY <1>0 DEF IDsCounted, WORD
    <2>4. \A u \in Threads : stage[u] = "connect" => 0 < made /\ \A i \in keys : i < made
      BY DEF IDsCounted
    <2>5. \A u \in Threads : stage[u] \in {"connectLock", "connectInsert"} =>
            frame[u].value <= made
      BY DEF IDsCounted
    <2> HIDE DEF made, keys, now
    <2>6. \A i \in keys : i <= now /\ (made < now => i < now)
      BY <1>0, <2>2, <2>3
    <2>7. ASSUME NEW u \in Threads, stage'[u] = "connect"
          PROVE  0 < now /\ \A i \in keys : i < now
      <3>1. CASE u = t
        BY <1>0, <2>2, <2>6, <2>7, <3>1
      <3>2. CASE u # t
        BY <1>0, <1>1, <2>2, <2>3, <2>4, <2>7, <3>2
      <3> QED
        BY <3>1, <3>2
    <2>8. ASSUME NEW u \in Threads, stage'[u] \in {"connectLock", "connectInsert"}
          PROVE  frame'[u].value <= now
      BY <1>0, <1>1, <2>1, <2>2, <2>5, <2>8
    <2> QED
      BY <2>1, <2>6, <2>7, <2>8 DEF IDsCounted, now
  <1>5. CASE ConnectRead(t)
    <2>1. /\ DOMAIN g_SessionInfo' = keys /\ sent' = sent /\ stage[t] = "connect"
          /\ \/ stage'[t] = "respond"
             \/ \E id \in NewClientIDs :
                  Goto(t, "connectLock", [frame[t] EXCEPT !.value = id])
      BY <1>0, <1>5 DEF ConnectRead, tables, clients, At, Finish, Goto
    <2>2. ASSUME NEW id \in NewClientIDs
          PROVE  id <= made
      <3>1. \A u \in Threads : ~At(u, "disconnectErase")
        BY <2>1 DEF SerialInv, ConnectsSerial, InSessionTable, At
      <3>2. (keys = {} /\ id = 1) \/ \E i \in keys : id = (i + 1) % WordMod
        BY <2>2, <3>1 DEF NewClientIDs
      <3>3. \A i \in {0} \cup keys : i < made
        BY <2>1 DEF IDsCounted
      <3>4. CASE keys = {} /\ id = 1
        BY <1>0, <3>3, <3>4
      <3>5. ASSUME NEW i \in keys, id = (i + 1) % WordMod
            PROVE  id <= made
        <4>1. i \in Nat /\ i < made
          BY <1>0, <3>3 DEF WORD
        <4> HIDE DEF made
        <4>2. (i + 1) % WordMod = i + 1
          BY <1>0, <4>1, Widths
        <4> QED
          BY <1>0, <3>5, <4>1, <4>2
      <3> QED
        BY <3>2, <3>4, <3>5
    <2>3. ASSUME stage'[t] = "connectLock"
          PROVE  frame'[t].value <= made
      <3>1. PICK id \in NewClientIDs :
              frame' = [frame EXCEPT ![t] = [frame[t] EXCEPT !.value = id]]
        BY <2>1, <2>3 DEF Goto
      <3>2. frame'[t].value = id
        BY <1>0, <3>1 DEF Frame
      <3> QED
        BY <2>2, <3>2
    <2>4. stage'[t] \in {"respond", "connectLock"}
      BY <1>0, <2>1 DEF Goto
    <2> QED
      BY <1>1, <1>2, <2>1, <2>3, <2>4 DEF IDsCounted
  <1>6. CASE ConnectLock(t)
    <2>1. /\ DOMAIN g_SessionInfo' = keys /\ sent' = sent /\ stage[t] = "connectLock"
          /\ stage'[t] = "connectInsert" /\ frame' = frame
      BY <1>0, <1>6 DEF ConnectLock, tables, clients, At
    <2> QED
      BY <1>1, <1>2, <2>1 DEF IDsCounted
  <1>7. CASE ConnectInsert(t)
    <2>1. /\ DOMAIN g_SessionInfo' = keys \cup {frame[t].value} /\ sent' = sent
          /\ stage[t] = "connectInsert" /\ stage'[t] = "respond"
      BY <1>0, <1>7 DEF ConnectInsert, clients, At, Finish, Goto, Insert
    <2>2. \A u \in Threads : stage'[u] # "connect"
      <3>1. \A u \in Threads : stage[u] # "connect"
        BY <2>1 DEF SerialInv, ConnectsSerial, InSessionTable
      <3> QED
        BY <1>1, <2>1, <3>1
    <2> QED
      BY <1>1, <1>2, <2>1, <2>2 DEF IDsCounted
  <1> QED
    BY <1>0, <1>3, <1>4, <1>5, <1>6, <1>7, ConnectShape

LEMMA NextSerialIDsInv ==
  ASSUME IDsEnough, SerialIDsInv, [Next /\ ConnectsSerial']_vars
  PROVE  SerialIDsInv'
  <1>1. IInv'
    BY NextIInv DEF SerialIDsInv, SerialInv
  <1>2. IDsCounted'
    <2>1. CASE UNCHANGED vars
      BY <2>1 DEF SerialIDsInv, IDsCounted, ConnectsMade, ConnectsAsked, vars, tables, clients
    <2>2. ASSUME NEW t \in Threads, ClientStep(t) \/ ServerStep(t), ConnectsSerial'
          PROVE  IDsCounted'
      BY <1>1, <2>2, StepCounted DEF SerialIDsInv
    <2> QED
      BY <2>1, <2>2 DEF Next, Terminated
  <1>3. IDsEnough' /\ IDsLeft'
    <2>1. IDsEnough'
      BY DEF IDsEnough, ConnectsAsked, INVALID_CLIENT_ID
    <2> QED
      BY <1>2, <2>1, CountLeavesIDs, PTL
  <1> QED
    BY <1>2, <1>3, NextSerialInv DEF SerialIDsInv

---------------------------------------------------------------------------
(* Theorems                                                                *)

\* Connections that are opened and closed one at a time, by clients that ask
\* for fewer connections than there are client IDs: every ID on its way
\* between a client, its thread and its handler names a session of that
\* client, every answer on its way is the one its client waits for, and no ID
\* is larger than the number of connects.
THEOREM SerialInvariance == IDsEnough /\ SerialSpec => []SerialIDsInv
  <1>1. Init => SerialIDsInv
    <2>1. ASSUME Init
          PROVE  IDsCounted
      BY <2>1 DEF Init, IDsCounted, EmptyMap
    <2> QED
      BY <2>1, InitSerialInv DEF SerialIDsInv
  <1>2. IDsEnough /\ SerialIDsInv /\ [Next /\ ConnectsSerial']_vars => SerialIDsInv'
    BY NextSerialIDsInv
  <1>3. IDsEnough => IDsEnough'
    BY DEF IDsEnough, ConnectsAsked, INVALID_CLIENT_ID
  <1> QED
    BY <1>1, <1>2, <1>3, PTL DEF SerialSpec

\* The client ID that also means "none" is never given to a session.
THEOREM LastIDNotGiven == IDsEnough /\ SerialSpec => []IDsLeft
  <1>1. SerialIDsInv => IDsLeft
    BY DEF SerialIDsInv, SerialInv
  <1> QED
    BY <1>1, SerialInvariance, PTL DEF SerialIDsInv

\* "Generate a unique ClientID for the session" (ProcessConnectRequest): the
\* newest key plus one is an ID no other client holds.
THEOREM ClientIDsUnique == IDsEnough /\ SerialSpec => []UniqueClientIDs
  <1>1. ASSUME SerialInv, NEW t \in Threads, NEW u \in Threads, t # u,
               held[t] # INVALID_CLIENT_ID, held[t] = held[u]
        PROVE  FALSE
    <2>1. OwnsFor(t) /\ OwnsFor(u) /\ held[t] \in WORD
      BY <1>1, SerialInvParts DEF SerialInv, IInv, TypeOK, ClientsOK
    <2>2. Owns(t, held[t]) /\ Owns(u, held[t])
      BY <1>1, <2>1 DEF OwnsFor, ReliesOn
    <2> QED
      BY <1>1, <2>2 DEF Owns
  <1>2. SerialInv => UniqueClientIDs
    BY <1>1 DEF UniqueClientIDs
  <1> QED
    BY <1>2, SerialInvariance, PTL DEF SerialIDsInv

\* The session of a connected client exists and answers on its socket, and no
\* handler works through an iterator to an erased session.
THEOREM SessionsOwned == IDsEnough /\ SerialSpec => []ClientsOwnTheirSessions
  <1>1. ASSUME SerialInv, NEW t \in Threads
        PROVE  /\ held[t] # INVALID_CLIENT_ID => Owns(t, held[t])
               /\ ~frame[t].stale
    <2>1. OwnsFor(t) /\ Conversation(t) /\ held[t] \in WORD
      BY <1>1, SerialInvParts DEF SerialInv, IInv, TypeOK, ClientsOK
    <2> QED
      BY <2>1 DEF OwnsFor, ReliesOn, Conversation
  <1>2. SerialInv => ClientsOwnTheirSessions
    BY <1>1 DEF ClientsOwnTheirSessions, Owns
  <1> QED
    BY <1>2, SerialInvariance, PTL DEF SerialIDsInv

\* What a client finds in its socket answers the request it waits on.
THEOREM RepliesMatch == IDsEnough /\ SerialSpec => []RepliesAnswerRequests
  <1>1. SerialInv => RepliesAnswerRequests
    BY DEF SerialInv
  <1> QED
    BY <1>1, SerialInvariance, PTL DEF SerialIDsInv

\* A handler at work on an account works for a customer of its own client.
THEOREM ActsOnlyForItsClient == IDsEnough /\ SerialSpec => []ActsForItsClient
  <1>1. SerialInv => ActsForItsClient
    BY DEF SerialInv, ForItsClient, ActsForItsClient
  <1> QED
    BY <1>1, SerialInvariance, PTL DEF SerialIDsInv

\* If no two clients share an account, no two threads ever charge the same
\* one, though no lock keeps them from it.
THEOREM AccountsExclusive ==
  CustomersDisjoint /\ IDsEnough /\ SerialSpec => []ExclusiveAccounts /\ ExclusiveSpec
  <1>1. SerialInv /\ CustomersDisjoint => ExclusiveAccounts
    BY DEF SerialInv, ForItsClient, CustomersDisjoint, ExclusiveAccounts, AccountStages
  <1>2. CustomersDisjoint => CustomersDisjoint'
    BY DEF CustomersDisjoint, CustomersOf
  <1>3. ExclusiveAccounts' /\ [Next /\ ConnectsSerial']_vars => [Next /\ ExclusiveAccounts']_vars
    OBVIOUS
  <1>4. CustomersDisjoint => []CustomersDisjoint
    BY <1>2, PTL
  <1> QED
    BY <1>1, <1>3, <1>4, SerialInvariance, PTL DEF SerialSpec, ExclusiveSpec, SerialIDsInv

\* Then every balance is what the log says of it, if that was so of the saved
\* tables; the threads implement the bank; and no withdrawal overdraws.
THEOREM SerialBooks ==
  CustomersDisjoint /\ IDsEnough /\ SerialSpec =>
    /\ Balanced(SavedAccounts, SavedTransactions) => []BalanceMatchesLedger
    /\ NoOverdraft /\ ImplementsBank
  <1> QED
    BY AccountsExclusive, LedgerKept, Covered, ThreadsImplementBank, PTL

=============================================================================
