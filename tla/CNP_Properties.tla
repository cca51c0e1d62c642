--------------------------- MODULE CNP_Properties ---------------------------
(***************************************************************************)
(* What the handlers of CNP_Messaging promise.  The first part holds of    *)
(* every interleaving; the second needs an environment that opens          *)
(* connections one at a time, the third also that no two clients share an  *)
(* account.                                                                *)
(***************************************************************************)
EXTENDS CNP_Messaging, CNP_Ledger

\* Stages that change a balance and record it, and these with the lookup of
\* the account before them.
ChargeStages  == {"incr", "decrRead", "decrWrite", "transLock", "transSize", "transInsert"}
AccountStages == ChargeStages \cup {"account"}

---------------------------------------------------------------------------
(* 1. Every interleaving                                                   *)

\* The parts of the type invariant: the tables, the threads, the clients.
SessionRecord == [m_wState : SESSION_STATE, m_pSocket : Threads, m_qwCustomerID : QWORD]

TablesOK ==
  /\ DOMAIN g_SessionInfo \subseteq WORD
  /\ g_SessionInfo \in [DOMAIN g_SessionInfo -> SessionRecord]
  /\ DOMAIN g_AccountInfo \subseteq QWORD
  /\ g_AccountInfo \in [DOMAIN g_AccountInfo -> DWORD]
  /\ DOMAIN g_TransactionInfo \subseteq Nat
  /\ g_TransactionInfo \in [DOMAIN g_TransactionInfo -> Transaction]

ThreadsOK ==
  /\ g_SessionMutex \in Threads \cup {NONE}
  /\ g_AccountMutex \in Threads \cup {NONE}
  /\ g_TransactionMutex \in Threads \cup {NONE}
  /\ stage \in [Threads -> Stages]
  /\ frame \in [Threads -> Frame]
  /\ wClientID \in [Threads -> WORD]

ClientsOK ==
  /\ held \in [Threads -> WORD]
  /\ asked \in [Threads -> Header \cup {NONE}]
  /\ sent \in [Threads -> Nat]
  /\ inbox \in [Threads -> Seq(Response)]
  /\ open \in [Threads -> BOOLEAN]

\* Every variable stays within the values the program can give it: keys and
\* balances within their width, records with their fields, handlers at one
\* of their steps.
TypeOK == TablesOK /\ ThreadsOK /\ ClientsOK

\* Transaction IDs are unique and sequential (CNP_Protocol.h: "A Server
\* generated unique sequential ID"): the keys are 1 .. n, so size() + 1 is
\* always free, however the deposits and withdrawals of the threads interleave.
TransactionIDsSequential ==
  DOMAIN g_TransactionInfo = 1 .. Cardinality(DOMAIN g_TransactionInfo)

\* The log loses nothing: a record never changes or goes, and the handler
\* that is told its insert succeeded has added its own record.
NoTransactionLost ==
  [][/\ \A i \in DOMAIN g_TransactionInfo :
          i \in DOMAIN g_TransactionInfo' /\ g_TransactionInfo'[i] = g_TransactionInfo[i]
     /\ \A t \in Threads : At(t, "transInsert") /\ stage'[t] = "respond" =>
          \E i \in (DOMAIN g_TransactionInfo') \ DOMAIN g_TransactionInfo :
            g_TransactionInfo'[i] =
              TRANSACTION_INFO(Body(t).amount, Type(t), frame[t].customer)]_vars

\* An account, once created, stays, and only the store of a deposit or of a
\* withdrawal on it moves its balance: the insert of a second
\* ProcessCreateAccountRequest for the same name and PIN, which two threads
\* can both reach, does not reset it.
AccountsKept ==
  [][\A c \in DOMAIN g_AccountInfo :
       /\ c \in DOMAIN g_AccountInfo'
       /\ g_AccountInfo'[c] # g_AccountInfo[c] =>
            \E t \in Threads : /\ stage[t] \in {"incr", "decrWrite"}
                               /\ stage'[t] = "transLock"
                               /\ frame[t].customer = c]_vars

\* A customer ID in a session, in the log or in a handler that is about to
\* change a balance has an account, even when the session has been erased
\* under the handler's iterator.
CustomersHaveAccounts ==
  /\ \A i \in DOMAIN g_SessionInfo :
       IsValidCustomerID(g_SessionInfo[i].m_qwCustomerID) =>
         g_SessionInfo[i].m_qwCustomerID \in DOMAIN g_AccountInfo
  /\ \A i \in DOMAIN g_TransactionInfo :
       g_TransactionInfo[i].customer \in DOMAIN g_AccountInfo
  /\ \A t \in Threads : stage[t] \in ChargeStages =>
       frame[t].customer \in DOMAIN g_AccountInfo

\* What the stage a handler has reached says of its locals: the type of the
\* message it works on, the range of the value it has computed, the session
\* its iterator is good for, and that a transaction ID computed under the lock
\* is still the next one when it is used.
FrameOK(t, s, f) ==
  /\ s \in {"connect", "connectLock", "connectInsert"} => f.msg.hdr.type = "CONNECT"
  /\ s \in SessionStages \ {"customer"} =>
       f.msg.hdr.type \in {"CREATE_ACCOUNT", "LOGON", "LOGOFF"}
  /\ s \in ChargeStages => f.msg.hdr.type \in TransactionTypes
  /\ f.msg.hdr.type = "CONNECT" => f.value \in WORD
  /\ s = "respond" /\ f.msg.hdr.type = "BALANCE_QUERY" /\ Succeeded(f.cerRR)
       => f.value \in DWORD
  /\ s \in SessionStages /\ ~f.stale => f.itS \in DOMAIN g_SessionInfo
  /\ s \in {"transSize", "transInsert"} => g_TransactionMutex = t
  /\ s = "transInsert" => f.value = Cardinality(DOMAIN g_TransactionInfo) + 1
  /\ s = "logonWrite" => f.customer \in DOMAIN g_AccountInfo

\* The inductive invariant behind the safety properties of this part.
IInv ==
  /\ TypeOK
  /\ IsFiniteSet(DOMAIN g_TransactionInfo)
  /\ TransactionIDsSequential
  /\ CustomersHaveAccounts
  /\ \A t \in Threads : FrameOK(t, stage[t], frame[t])

\* No lock is left held: every handler that starts returns to the receive
\* loop, whatever the other threads do.
HandlersReturn ==
  \A t \in Threads : (~At(t, "receive")) ~> (At(t, "receive") \/ At(t, "exited"))

\* A thread whose client has gone gets to the end of ProcessDisconnect.
ThreadsEnd == \A t \in Threads : (~open[t]) ~> At(t, "exited")

---------------------------------------------------------------------------
(* 2. Connections opened and closed one at a time                          *)

\* "Generate a unique ClientID for the session" (CNP_Messaging.cpp): no two
\* connected clients use the same one.
UniqueClientIDs ==
  \A t, u \in Threads :
    t # u /\ held[t] # INVALID_CLIENT_ID => held[t] # held[u]

\* The ID a client uses names a session that answers on the client's own
\* socket, so no handler works on a session that goes away under it.
ClientsOwnTheirSessions ==
  /\ \A t \in Threads : held[t] # INVALID_CLIENT_ID =>
       held[t] \in DOMAIN g_SessionInfo /\ g_SessionInfo[held[t]].m_pSocket = t
  /\ \A t \in Threads : ~frame[t].stale

\* What a client finds in its socket answers the request it waits on: the
\* message type, the client ID, and (but for the balance response) the
\* sequence number and the context.
RepliesAnswerRequests ==
  \A t \in Threads : inbox[t] # <<>> =>
    /\ asked[t] # NONE /\ Len(inbox[t]) = 1
    /\ LET hdr == inbox[t][1].hdr
       IN /\ hdr.type = asked[t].type
          /\ hdr.type # "CONNECT" => hdr.cid = asked[t].cid
          /\ hdr.type # "BALANCE_QUERY" => hdr.seq = asked[t].seq /\ hdr.ctx = asked[t].ctx

\* "The contents of this field is returned to the user ... without
\* modification" (STD_HDR): every response carries the sequence number and
\* the context of its request.
HeaderEchoed ==
  \A t \in Threads : inbox[t] # <<>> =>
    asked[t] # NONE /\ inbox[t][1].hdr.seq = asked[t].seq
                    /\ inbox[t][1].hdr.ctx = asked[t].ctx

\* A handler touches an account only of a client that has logged on to it:
\* customer IDs of the names and PINs in the requests of the connection.
CustomersOf(t) ==
  LET requests == UNION {Menu[t][n] : n \in DOMAIN Menu[t]}
  IN  {GenerateCustomerID(m.body.name, m.body.pin) : m \in {r \in requests : r.type = "LOGON"}}

ActsForItsClient ==
  \A t \in Threads : stage[t] \in AccountStages => frame[t].customer \in CustomersOf(t)

\* "The ClientID is ... only valid during the actual time a Client is
\* connected" (ReadMe.md): once its thread has ended, no session is left with
\* the client's socket.
SessionsOnlyWhileConnected ==
  \A t \in Threads : At(t, "exited") =>
    \A i \in DOMAIN g_SessionInfo : g_SessionInfo[i].m_pSocket # t

---------------------------------------------------------------------------
(* 3. Nobody else uses the account                                         *)

\* Between two transactions on an account its balance is what its log adds up
\* to (in DWORD width): no update is lost, none is recorded twice.
BalanceMatchesLedger ==
  \A c \in DOMAIN g_AccountInfo :
    (\A t \in Threads : frame[t].customer = c =>
        stage[t] \notin {"transLock", "transSize", "transInsert"})
    => g_AccountInfo[c] = LedgerOf(g_TransactionInfo, c) % DwordMod

\* A withdrawal or a stamp purchase takes its amount from a balance that
\* covers it at the moment of the store: the balance never wraps below zero.
NoOverdraft ==
  [][\A t \in Threads : At(t, "decrWrite") /\ stage'[t] = "transLock" =>
       /\ Body(t).amount <= Balance(t)
       /\ g_AccountInfo'[frame[t].customer] = Balance(t) - Body(t).amount]_vars

=============================================================================
