---------------------------- MODULE CNP_Messaging ----------------------------
(***************************************************************************)
(* The message handlers of the server (src/Server/CNP_Messaging.cpp) run   *)
(* by one thread per connection (ClientThreadHandler in                    *)
(* src/Server/CNP_Server.cpp), against the clients of src/Client.          *)
(*                                                                         *)
(* The threads share three std::maps.  Each map has a mutex, which the     *)
(* code takes to insert or erase and never to read, so a handler is cut    *)
(* here into the steps between which another thread can run: every access  *)
(* to a map, every load and store of a balance, every lock.  A lookup that *)
(* runs while another thread holds the map's mutex races with the          *)
(* rebalancing of the tree and may miss an element that is there.          *)
(*                                                                         *)
(* A connection, its socket, its server thread and its client program      *)
(* share one name.                                                         *)
(***************************************************************************)
EXTENDS CNP_Session, Sequences

CONSTANTS
  Threads,       \* the connections
  NONE,          \* no thread (a free mutex), no socket (nullptr), no request
  Menu,          \* Menu[t][n]: what the client of t may send as its n-th request
                 \* (its length bounds the requests of that client)
  SavedAccounts,     \* the tables LoadServerDB finds on disk before the
  SavedTransactions  \* first connection is accepted

Request == [hdr : Header, body : Payload(Names)]

ASSUME MessagingAssumption ==
  /\ NONE \notin Threads \cup Header
  /\ Menu \in [Threads -> Seq(SUBSET [type : MSG_TYPE, body : Payload(Names)])]

\* The tables on disk are ones SaveServerDB has written.
ASSUME SavedAssumption ==
  /\ DOMAIN SavedAccounts \subseteq QWORD
  /\ SavedAccounts \in [DOMAIN SavedAccounts -> DWORD]
  /\ IsFiniteSet(DOMAIN SavedTransactions)
  /\ DOMAIN SavedTransactions = 1 .. Cardinality(DOMAIN SavedTransactions)
  /\ SavedTransactions \in [DOMAIN SavedTransactions -> Transaction]
  /\ \A i \in DOMAIN SavedTransactions :
       SavedTransactions[i].customer \in DOMAIN SavedAccounts

VARIABLES
  \* the server's tables and their mutexes
  g_SessionInfo, g_AccountInfo, g_TransactionInfo,
  g_SessionMutex, g_AccountMutex, g_TransactionMutex,
  \* a thread: the step of its handler, the handler's locals, its wClientID
  stage, frame, wClientID,
  \* a client: its wClientID, the header of the request it waits on, its
  \* sequence number, the responses in its socket, whether it is connected
  held, asked, sent, inbox, open

tables  == <<g_SessionInfo, g_AccountInfo, g_TransactionInfo>>
mutexes == <<g_SessionMutex, g_AccountMutex, g_TransactionMutex>>
clients == <<held, asked, sent, inbox, open>>
vars    == <<tables, mutexes, stage, frame, wClientID, clients>>

\* Steps that hold the iterator itS of the session they found.
SessionStages ==
  {"createFind", "createLock", "createInsert", "logonFind", "logonWrite",
   "logoffRead", "logoffWrite", "customer"}

Stages == SessionStages \cup
  {"receive", "connect", "connectLock", "connectInsert", "find", "account",
   "incr", "decrRead", "decrWrite", "transLock", "transSize", "transInsert", "respond",
   "disconnectLock", "disconnectErase", "exited"}

\* A handler's locals.  stale: the node itS points to has been erased.
Frame == [msg : Request, itS : WORD, stale : BOOLEAN, pSocket : Threads \cup {NONE},
          customer : QWORD, value : Nat, cerRR : CER_TYPE, list : SUBSET Nat]

NewFrame(msg, pSocket) ==
  [msg |-> msg, itS |-> INVALID_CLIENT_ID, stale |-> FALSE, pSocket |-> pSocket,
   customer |-> INVALID_CUSTOMER_ID, value |-> INVALID_CLIENT_ID,
   cerRR |-> "CER_ERROR", list |-> {}]

IdleFrame ==
  NewFrame([hdr |-> STD_HDR("CONNECT", INVALID_CLIENT_ID, 0, 0), body |-> EmptyPayload], NONE)

Init ==
  /\ g_SessionInfo = EmptyMap
  /\ g_AccountInfo = SavedAccounts
  /\ g_TransactionInfo = SavedTransactions
  /\ g_SessionMutex = NONE
  /\ g_AccountMutex = NONE
  /\ g_TransactionMutex = NONE
  /\ stage = [t \in Threads |-> "receive"]
  /\ frame = [t \in Threads |-> IdleFrame]
  /\ wClientID = [t \in Threads |-> INVALID_CLIENT_ID]
  /\ held = [t \in Threads |-> INVALID_CLIENT_ID]
  /\ asked = [t \in Threads |-> NONE]
  /\ sent = [t \in Threads |-> 0]
  /\ inbox = [t \in Threads |-> <<>>]
  /\ open = [t \in Threads |-> TRUE]

---------------------------------------------------------------------------
(* Helpers                                                                 *)

At(t, s) == stage[t] = s

Goto(t, s, f) ==
  /\ stage' = [stage EXCEPT ![t] = s]
  /\ frame' = [frame EXCEPT ![t] = f]

\* Leave the handler's body with a result: what follows builds the response.
Finish(t, cerRR) == Goto(t, "respond", [frame[t] EXCEPT !.cerRR = cerRR])

Body(t) == frame[t].msg.body
Type(t) == frame[t].msg.hdr.type

\* The outcomes of an unlocked lookup.
MayFind(map, key)        == key \in DOMAIN map
MayMiss(map, key, mutex) == key \notin DOMAIN map \/ mutex # NONE

\* Faulty variant: the iterator is shared by the threads.
CustomersRead_AnySession(t) ==
  {g_SessionInfo[i].m_qwCustomerID : i \in DOMAIN g_SessionInfo}

\* What itS->second.get_CustomerID() may yield: anything, once freed.
CustomersRead(t) ==
  IF frame[t].stale THEN DWORD
  ELSE {g_SessionInfo[frame[t].itS].m_qwCustomerID}

\* The node a write through itS lands on: once freed, none that matters or
\* the node that got the memory.
NodesWritten(t) ==
  IF frame[t].stale THEN DOMAIN g_SessionInfo \cup {NONE} ELSE {frame[t].itS}

---------------------------------------------------------------------------
(* The client program and the receive loop of its server thread            *)

\* The menu loop builds a request around wClientID, sends it and waits; the
\* thread receives it and dispatches on its type.  Nothing but this thread
\* reads the socket, so sending and receiving are one step.
FirstStage(type) == IF type = "CONNECT" THEN "connect" ELSE "find"

SendRequest(t) ==
  /\ open[t] /\ asked[t] = NONE /\ sent[t] < Len(Menu[t])
  /\ At(t, "receive")
  /\ \E m \in Menu[t][sent[t] + 1] :
       LET cid == IF m.type = "CONNECT" THEN 0 ELSE held[t]
           hdr == STD_HDR(m.type, cid, sent[t] % DwordMod, 0)
       IN /\ asked' = [asked EXCEPT ![t] = hdr]
          /\ Goto(t, FirstStage(m.type),
                  NewFrame([hdr |-> hdr, body |-> m.body],
                           IF m.type = "CONNECT" THEN t ELSE NONE))
  /\ sent' = [sent EXCEPT ![t] = @ + 1]
  /\ UNCHANGED <<tables, mutexes, wClientID, held, inbox, open>>

\* The blocking receive returns the next response, whatever it answers.  Only
\* SendConnect keeps something of it: the client ID, read where a CONNECT
\* response has it (any bytes, when the response is not one).
ReceiveResponse(t) ==
  /\ open[t] /\ asked[t] # NONE /\ inbox[t] # <<>>
  /\ LET resp == Head(inbox[t])
     IN IF asked[t].type = "CONNECT" /\ Succeeded(resp.result)
        THEN \E cid \in (IF resp.hdr.type = "CONNECT" THEN {resp.cid} ELSE WORD) :
               held' = [held EXCEPT ![t] = cid]
        ELSE UNCHANGED held
  /\ inbox' = [inbox EXCEPT ![t] = Tail(@)]
  /\ asked' = [asked EXCEPT ![t] = NONE]
  /\ UNCHANGED <<tables, mutexes, stage, frame, wClientID, sent, open>>

\* The client exits or is killed, at any moment.
Close(t) ==
  /\ open[t]
  /\ open' = [open EXCEPT ![t] = FALSE]
  /\ held' = [held EXCEPT ![t] = INVALID_CLIENT_ID]
  /\ asked' = [asked EXCEPT ![t] = NONE]
  /\ inbox' = [inbox EXCEPT ![t] = <<>>]
  /\ UNCHANGED <<tables, mutexes, stage, frame, wClientID, sent>>

\* recv returns 0: ProcessDisconnect(wClientID), and the thread ends.
ReceiveEnd(t) ==
  /\ At(t, "receive") /\ ~open[t]
  /\ stage' = [stage EXCEPT ![t] = "disconnectLock"]
  /\ UNCHANGED <<tables, mutexes, frame, wClientID, clients>>

DisconnectLock(t) ==
  /\ At(t, "disconnectLock")
  /\ g_SessionMutex = NONE
  /\ g_SessionMutex' = t
  /\ stage' = [stage EXCEPT ![t] = "disconnectErase"]
  /\ UNCHANGED <<tables, g_AccountMutex, g_TransactionMutex, frame, wClientID, clients>>

\* Faulty variant: the disconnect erases the session opened last.
DisconnectErase_Last(t) ==
  /\ At(t, "disconnectErase")
  /\ g_SessionInfo' = [i \in {k \in DOMAIN g_SessionInfo :
                               \E j \in DOMAIN g_SessionInfo : j > k} |-> g_SessionInfo[i]]
  /\ g_SessionMutex' = NONE
  /\ stage' = [stage EXCEPT ![t] = "exited"]
  /\ UNCHANGED <<g_AccountInfo, g_TransactionInfo, g_AccountMutex, g_TransactionMutex,
                 frame, wClientID, clients>>

\* Iterators other threads hold to the erased node are left dangling.
DisconnectErase(t) ==
  /\ At(t, "disconnectErase")
  /\ g_SessionInfo' = Erase(g_SessionInfo, wClientID[t])
  /\ frame' = [u \in Threads |->
       [frame[u] EXCEPT !.stale = @ \/ (stage[u] \in SessionStages
                                         /\ frame[u].itS = wClientID[t])]]
  /\ g_SessionMutex' = NONE
  /\ stage' = [stage EXCEPT ![t] = "exited"]
  /\ UNCHANGED <<g_AccountInfo, g_TransactionInfo, g_AccountMutex, g_TransactionMutex,
                 wClientID, clients>>

---------------------------------------------------------------------------
(* ProcessConnectRequest                                                   *)

\* Faulty variant: the increment is forgotten.
NewClientIDs_NoIncrement ==
  LET keys == DOMAIN g_SessionInfo
  IN  IF keys = {} THEN {1} ELSE {i \in keys : \A j \in keys : j <= i}

\* rbegin()->first + 1 in WORD width, or 1 when the table is empty.  (The last
\* key is the one element of its set.)  Nothing keeps the last node from being
\* freed by a disconnect between rbegin() and ->first, which then yields any
\* WORD.
NewClientIDs ==
  LET keys == DOMAIN g_SessionInfo
      last == {i \in keys : \A j \in keys : j <= i}
  IN  IF keys = {} THEN {1}
      ELSE IF \E u \in Threads : At(u, "disconnectErase") THEN WORD
      ELSE {(i + 1) % WordMod : i \in last}

\* The server supports version 1.1 and below.
ConnectRead(t) ==
  /\ At(t, "connect")
  /\ IF Body(t).key # g_dwValidationKey
     THEN Finish(t, "CER_AUTHENICATION_FAILED")
     ELSE IF Body(t).major > 1 \/ Body(t).minor > 1
     THEN Finish(t, "CER_UNSUPPORTED_PROTOCOL")
     ELSE \E id \in NewClientIDs :
            Goto(t, "connectLock", [frame[t] EXCEPT !.value = id])
  /\ UNCHANGED <<tables, mutexes, wClientID, clients>>

ConnectLock(t) ==
  /\ At(t, "connectLock")
  /\ g_SessionMutex = NONE
  /\ g_SessionMutex' = t
  /\ stage' = [stage EXCEPT ![t] = "connectInsert"]
  /\ UNCHANGED <<tables, g_AccountMutex, g_TransactionMutex, frame, wClientID, clients>>

\* Faulty variants: g_SessionInfo[wClientID] = newSession; the session mutex is
\* not released.
ConnectInsert_Assign(t) ==
  /\ At(t, "connectInsert")
  /\ g_SessionInfo' = [i \in DOMAIN g_SessionInfo \cup {frame[t].value} |->
                         IF i = frame[t].value THEN SESSION_INFO("SS_CONNECTED", t)
                         ELSE g_SessionInfo[i]]
  /\ g_SessionMutex' = NONE
  /\ Finish(t, "CER_SUCCESS")
  /\ UNCHANGED <<g_AccountInfo, g_TransactionInfo, g_AccountMutex, g_TransactionMutex,
                 wClientID, clients>>

ConnectInsert_Locked(t) ==
  /\ At(t, "connectInsert")
  /\ g_SessionInfo' = Insert(g_SessionInfo, frame[t].value, SESSION_INFO("SS_CONNECTED", t))
  /\ Finish(t, "CER_SUCCESS")
  /\ UNCHANGED <<g_AccountInfo, g_TransactionInfo, mutexes, wClientID, clients>>

ConnectInsert(t) ==
  /\ At(t, "connectInsert")
  /\ g_SessionInfo' = Insert(g_SessionInfo, frame[t].value, SESSION_INFO("SS_CONNECTED", t))
  /\ g_SessionMutex' = NONE
  /\ Finish(t, "CER_SUCCESS")
  /\ UNCHANGED <<g_AccountInfo, g_TransactionInfo, g_AccountMutex, g_TransactionMutex,
                 wClientID, clients>>

---------------------------------------------------------------------------
(* The other handlers: find the session by the client ID of the message    *)

AfterFind(type) ==
  CASE type = "CREATE_ACCOUNT" -> "createFind"
    [] type = "LOGON"          -> "logonFind"
    [] type = "LOGOFF"         -> "logoffRead"
    [] OTHER                   -> "customer"

FindSession(t) ==
  LET cid == frame[t].msg.hdr.cid
  IN /\ At(t, "find")
     /\ MayFind(g_SessionInfo, cid)
     /\ Goto(t, AfterFind(Type(t)),
             [frame[t] EXCEPT !.itS = cid, !.stale = FALSE,
                              !.pSocket = g_SessionInfo[cid].m_pSocket])
     /\ UNCHANGED <<tables, mutexes, wClientID, clients>>

MissSession(t) ==
  /\ At(t, "find")
  /\ MayMiss(g_SessionInfo, frame[t].msg.hdr.cid, g_SessionMutex)
  /\ Finish(t, "CER_INVALID_CLIENT_ID")
  /\ UNCHANGED <<tables, mutexes, wClientID, clients>>

ValidCredentials(t) == IsValidName(Body(t).name) /\ IsValidPIN(Body(t).pin)
CredentialsID(t)    == GenerateCustomerID(Body(t).name, Body(t).pin)

---------------------------------------------------------------------------
(* ProcessCreateAccountRequest                                             *)

CreateFind(t) ==
  /\ At(t, "createFind")
  /\ \/ /\ ~ValidCredentials(t)
        /\ Finish(t, "CER_INVALID_NAME_PIN")
     \/ /\ ValidCredentials(t)
        /\ MayFind(g_AccountInfo, CredentialsID(t))
        /\ Finish(t, "CER_ACCOUNT_EXISTS")
     \/ /\ ValidCredentials(t)
        /\ MayMiss(g_AccountInfo, CredentialsID(t), g_AccountMutex)
        /\ Goto(t, "createLock", [frame[t] EXCEPT !.customer = CredentialsID(t)])
  /\ UNCHANGED <<tables, mutexes, wClientID, clients>>

CreateLock(t) ==
  /\ At(t, "createLock")
  /\ g_AccountMutex = NONE
  /\ g_AccountMutex' = t
  /\ stage' = [stage EXCEPT ![t] = "createInsert"]
  /\ UNCHANGED <<tables, g_SessionMutex, g_TransactionMutex, frame, wClientID, clients>>

\* Faulty variant: g_AccountInfo[qwCustomerID] = newAccount.
CreateInsert_Assign(t) ==
  /\ At(t, "createInsert")
  /\ g_AccountInfo' = [c \in DOMAIN g_AccountInfo \cup {frame[t].customer} |->
                         IF c = frame[t].customer THEN 0 ELSE g_AccountInfo[c]]
  /\ \E n \in NodesWritten(t) :
       g_SessionInfo' = set_State(g_SessionInfo, n, "SS_ACCOUNT_CREATED")
  /\ g_AccountMutex' = NONE
  /\ Finish(t, "CER_SUCCESS")
  /\ UNCHANGED <<g_TransactionInfo, g_SessionMutex, g_TransactionMutex, wClientID, clients>>

\* insert keeps an account already there; its result is not looked at.
CreateInsert(t) ==
  /\ At(t, "createInsert")
  /\ g_AccountInfo' = Insert(g_AccountInfo, frame[t].customer, 0)
  /\ \E n \in NodesWritten(t) :
       g_SessionInfo' = set_State(g_SessionInfo, n, "SS_ACCOUNT_CREATED")
  /\ g_AccountMutex' = NONE
  /\ Finish(t, "CER_SUCCESS")
  /\ UNCHANGED <<g_TransactionInfo, g_SessionMutex, g_TransactionMutex, wClientID, clients>>

---------------------------------------------------------------------------
(* ProcessLogonRequest, ProcessLogoffRequest                               *)

\* Faulty variant: no account is looked up.
LogonFind_NoLookup(t) ==
  /\ At(t, "logonFind")
  /\ IF ValidCredentials(t)
     THEN Goto(t, "logonWrite", [frame[t] EXCEPT !.customer = CredentialsID(t)])
     ELSE Finish(t, "CER_INVALID_NAME_PIN")
  /\ UNCHANGED <<tables, mutexes, wClientID, clients>>

LogonFind(t) ==
  /\ At(t, "logonFind")
  /\ \/ /\ ~ValidCredentials(t)
        /\ Finish(t, "CER_INVALID_NAME_PIN")
     \/ /\ ValidCredentials(t)
        /\ MayFind(g_AccountInfo, CredentialsID(t))
        /\ Goto(t, "logonWrite", [frame[t] EXCEPT !.customer = CredentialsID(t)])
     \/ /\ ValidCredentials(t)
        /\ MayMiss(g_AccountInfo, CredentialsID(t), g_AccountMutex)
        /\ Finish(t, "CER_ACCOUNT_NOT_FOUND")
  /\ UNCHANGED <<tables, mutexes, wClientID, clients>>

LogonWrite(t) ==
  /\ At(t, "logonWrite")
  /\ \E n \in NodesWritten(t) :
       g_SessionInfo' = set_State(set_CustomerID(g_SessionInfo, n, frame[t].customer),
                                  n, "SS_LOGGED_ON")
  /\ Finish(t, "CER_SUCCESS")
  /\ UNCHANGED <<g_AccountInfo, g_TransactionInfo, mutexes, wClientID, clients>>

LogoffRead(t) ==
  /\ At(t, "logoffRead")
  /\ \E c \in CustomersRead(t) : Goto(t, "logoffWrite", [frame[t] EXCEPT !.customer = c])
  /\ UNCHANGED <<tables, mutexes, wClientID, clients>>

\* The state becomes SS_LOGGED_OFF even for a client that was not logged on.
LogoffWrite(t) ==
  /\ At(t, "logoffWrite")
  /\ LET on == IsValidCustomerID(frame[t].customer)
     IN /\ \E n \in NodesWritten(t) :
             g_SessionInfo' =
               set_State(IF on THEN set_CustomerID(g_SessionInfo, n, INVALID_CUSTOMER_ID)
                         ELSE g_SessionInfo, n, "SS_LOGGED_OFF")
        /\ Finish(t, IF on THEN "CER_SUCCESS" ELSE "CER_CLIENT_NOT_LOGGEDON")
  /\ UNCHANGED <<g_AccountInfo, g_TransactionInfo, mutexes, wClientID, clients>>

---------------------------------------------------------------------------
(* The five handlers that work on an account                               *)

ReadCustomer(t) ==
  /\ At(t, "customer")
  /\ \E c \in CustomersRead(t) :
       IF IsValidCustomerID(c)
       THEN Goto(t, "account", [frame[t] EXCEPT !.customer = c])
       ELSE Finish(t, NotLoggedOn(Type(t)))
  /\ UNCHANGED <<tables, mutexes, wClientID, clients>>

MissAccount(t) ==
  /\ At(t, "account")
  /\ MayMiss(g_AccountInfo, frame[t].customer, g_AccountMutex)
  /\ Finish(t, "CER_ACCOUNT_NOT_FOUND")
  /\ UNCHANGED <<tables, mutexes, wClientID, clients>>

Balance(t) == g_AccountInfo[frame[t].customer]

\* ProcessDepositRequest: += is a load and a store, under no lock.
DepositRead(t) ==
  /\ At(t, "account") /\ Type(t) = "DEPOSIT"
  /\ MayFind(g_AccountInfo, frame[t].customer)
  /\ Goto(t, "incr", [frame[t] EXCEPT !.value = Balance(t)])
  /\ UNCHANGED <<tables, mutexes, wClientID, clients>>

DepositWrite(t) ==
  /\ At(t, "incr")
  /\ g_AccountInfo' = [g_AccountInfo EXCEPT ![frame[t].customer] =
                         incr_Balance(frame[t].value, Body(t).amount)]
  /\ stage' = [stage EXCEPT ![t] = "transLock"]
  /\ UNCHANGED <<g_SessionInfo, g_TransactionInfo, mutexes, frame, wClientID, clients>>

\* Faulty variant: dwCurBalance - dwWithdrawal >= 0, always true when unsigned.
WithdrawCheck_Unsigned(t) ==
  /\ At(t, "account") /\ Type(t) \in {"WITHDRAWAL", "STAMP_PURCHASE"}
  /\ MayFind(g_AccountInfo, frame[t].customer)
  /\ Goto(t, "decrRead", frame[t])
  /\ UNCHANGED <<tables, mutexes, wClientID, clients>>

\* ProcessWithdrawalRequest and ProcessStampPurchaseRequest: the balance is
\* read once to be checked and once more by -=.
WithdrawCheck(t) ==
  /\ At(t, "account") /\ Type(t) \in {"WITHDRAWAL", "STAMP_PURCHASE"}
  /\ MayFind(g_AccountInfo, frame[t].customer)
  /\ IF Body(t).amount <= Balance(t)
     THEN Goto(t, "decrRead", frame[t])
     ELSE Finish(t, "CER_INSUFFICIENT_FUNDS")
  /\ UNCHANGED <<tables, mutexes, wClientID, clients>>

WithdrawRead(t) ==
  /\ At(t, "decrRead")
  /\ Goto(t, "decrWrite", [frame[t] EXCEPT !.value = Balance(t)])
  /\ UNCHANGED <<tables, mutexes, wClientID, clients>>

WithdrawWrite(t) ==
  /\ At(t, "decrWrite")
  /\ g_AccountInfo' = [g_AccountInfo EXCEPT ![frame[t].customer] =
                         decr_Balance(frame[t].value, Body(t).amount)]
  /\ stage' = [stage EXCEPT ![t] = "transLock"]
  /\ UNCHANGED <<g_SessionInfo, g_TransactionInfo, mutexes, frame, wClientID, clients>>

\* Faulty variants: no lock_guard; IDs off by one either way; a lock that is
\* not released.
TransactionLock_None(t) ==
  /\ At(t, "transLock")
  /\ stage' = [stage EXCEPT ![t] = "transSize"]
  /\ UNCHANGED <<tables, mutexes, frame, wClientID, clients>>

TransactionSize_Reused(t) ==
  /\ At(t, "transSize")
  /\ Goto(t, "transInsert",
          [frame[t] EXCEPT !.value = Cardinality(DOMAIN g_TransactionInfo)])
  /\ UNCHANGED <<tables, mutexes, wClientID, clients>>

TransactionSize_Skipping(t) ==
  /\ At(t, "transSize")
  /\ Goto(t, "transInsert",
          [frame[t] EXCEPT !.value = Cardinality(DOMAIN g_TransactionInfo) + 2])
  /\ UNCHANGED <<tables, mutexes, wClientID, clients>>

TransactionInsert_Locked(t) ==
  /\ At(t, "transInsert")
  /\ g_TransactionInfo' =
       Insert(g_TransactionInfo, frame[t].value,
              TRANSACTION_INFO(Body(t).amount, Type(t), frame[t].customer))
  /\ Finish(t, "CER_SUCCESS")
  /\ UNCHANGED <<g_SessionInfo, g_AccountInfo, mutexes, wClientID, clients>>

\* The record of the transaction, under the lock: its ID is size() + 1.
TransactionLock(t) ==
  /\ At(t, "transLock")
  /\ g_TransactionMutex = NONE
  /\ g_TransactionMutex' = t
  /\ stage' = [stage EXCEPT ![t] = "transSize"]
  /\ UNCHANGED <<tables, g_SessionMutex, g_AccountMutex, frame, wClientID, clients>>

TransactionSize(t) ==
  /\ At(t, "transSize")
  /\ Goto(t, "transInsert",
          [frame[t] EXCEPT !.value = Cardinality(DOMAIN g_TransactionInfo) + 1])
  /\ UNCHANGED <<tables, mutexes, wClientID, clients>>

TransactionInsert(t) ==
  /\ At(t, "transInsert")
  /\ g_TransactionInfo' =
       Insert(g_TransactionInfo, frame[t].value,
              TRANSACTION_INFO(Body(t).amount, Type(t), frame[t].customer))
  /\ g_TransactionMutex' = NONE
  /\ Finish(t, "CER_SUCCESS")
  /\ UNCHANGED <<g_SessionInfo, g_AccountInfo, g_SessionMutex, g_AccountMutex,
                 wClientID, clients>>

\* ProcessBalanceQueryRequest
BalanceRead(t) ==
  /\ At(t, "account") /\ Type(t) = "BALANCE_QUERY"
  /\ MayFind(g_AccountInfo, frame[t].customer)
  /\ Goto(t, "respond", [frame[t] EXCEPT !.value = Balance(t), !.cerRR = "CER_SUCCESS"])
  /\ UNCHANGED <<tables, mutexes, wClientID, clients>>

\* ProcessTransactionQueryRequest walks the map under no lock: while another
\* thread inserts, the walk may skip records.
HistoryRead(t) ==
  /\ At(t, "account") /\ Type(t) = "TRANSACTION_QUERY"
  /\ MayFind(g_AccountInfo, frame[t].customer)
  /\ \E seen \in (IF g_TransactionMutex = NONE THEN {DOMAIN g_TransactionInfo}
                  ELSE SUBSET DOMAIN g_TransactionInfo) :
       Goto(t, "respond",
            [frame[t] EXCEPT
               !.list = Collect([i \in seen |-> g_TransactionInfo[i]],
                                frame[t].customer, Body(t).start, Body(t).count),
               !.cerRR = "CER_SUCCESS"])
  /\ UNCHANGED <<tables, mutexes, wClientID, clients>>

---------------------------------------------------------------------------
(* The end of every handler: the response goes to the session's socket, if *)
(* a session was found                                                     *)

ResponseOf(f) ==
  LET hdr == f.msg.hdr
  IN CASE hdr.type = "CONNECT" ->
            CONNECT_RESPONSE(f.cerRR, f.value, hdr.seq, hdr.ctx)
       [] hdr.type = "BALANCE_QUERY" ->
            BALANCE_QUERY_RESPONSE(f.cerRR, hdr.cid,
                                   IF Succeeded(f.cerRR) THEN f.value ELSE INVALID_BALANCE,
                                   hdr.ctx, hdr.seq)
       [] hdr.type = "TRANSACTION_QUERY" ->
            TRANSACTION_QUERY_RESPONSE(f.cerRR, hdr.cid, f.list, hdr.seq, hdr.ctx)
       [] OTHER -> PlainResponse(hdr.type, f.cerRR, hdr.cid, hdr.seq, hdr.ctx)

Respond(t) ==
  /\ At(t, "respond")
  /\ LET s == frame[t].pSocket
     IN inbox' = IF s # NONE /\ open[s]
                 THEN [inbox EXCEPT ![s] = Append(@, ResponseOf(frame[t]))]
                 ELSE inbox
  /\ wClientID' = IF Type(t) = "CONNECT" THEN [wClientID EXCEPT ![t] = frame[t].value]
                  ELSE wClientID
  /\ Goto(t, "receive", IdleFrame)
  /\ UNCHANGED <<tables, mutexes, held, asked, sent, open>>

---------------------------------------------------------------------------
(* Specifications                                                          *)

ClientStep(t) == SendRequest(t) \/ ReceiveResponse(t) \/ Close(t)

ServerStep(t) ==
  \/ ReceiveEnd(t) \/ DisconnectLock(t) \/ DisconnectErase(t)
  \/ ConnectRead(t) \/ ConnectLock(t) \/ ConnectInsert(t)
  \/ FindSession(t) \/ MissSession(t)
  \/ CreateFind(t) \/ CreateLock(t) \/ CreateInsert(t)
  \/ LogonFind(t) \/ LogonWrite(t) \/ LogoffRead(t) \/ LogoffWrite(t)
  \/ ReadCustomer(t) \/ MissAccount(t)
  \/ DepositRead(t) \/ DepositWrite(t)
  \/ WithdrawCheck(t) \/ WithdrawRead(t) \/ WithdrawWrite(t)
  \/ TransactionLock(t) \/ TransactionSize(t) \/ TransactionInsert(t)
  \/ BalanceRead(t) \/ HistoryRead(t)
  \/ Respond(t)

\* All clients have gone: the threads have ended.
Terminated == (\A t \in Threads : At(t, "exited")) /\ UNCHANGED vars

Next == (\E t \in Threads : ClientStep(t) \/ ServerStep(t)) \/ Terminated

\* Every interleaving of the threads.
Spec == Init /\ [][Next]_vars

\* An environment that opens and closes connections one at a time: no thread
\* starts a connect or a disconnect while another one is inside one.
InSessionTable(t) ==
  stage[t] \in {"connect", "connectLock", "connectInsert", "disconnectLock", "disconnectErase"}

ConnectsSerial == \A t, u \in Threads : InSessionTable(t) /\ InSessionTable(u) => t = u

SerialSpec == Init /\ [][Next /\ ConnectsSerial']_vars

\* The operating system keeps running every server thread that can run; the
\* clients owe nothing.
FairSpec == Spec /\ \A t \in Threads : WF_vars(ServerStep(t))

==============================================================================
