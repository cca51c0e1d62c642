------------------------------- MODULE CNP_Client -------------------------------
(***************************************************************************)
(* One client program (src/Client/CNP_Client.cpp): the menu loop, the Send *)
(* functions it calls and the buffer they read the response from, against  *)
(* what the server's threads may do with its requests while the threads of *)
(* other sessions are at work.  Of the server's tables it keeps who has an *)
(* account, and the log; the balances are what all handlers together have  *)
(* left (CNP_Messaging), so that a withdrawal may succeed or be refused,   *)
(* and a lookup that another thread's insert disturbs may miss.  The       *)
(* server may end at any moment; the user's input may fail at any prompt.  *)
(*                                                                         *)
(* The socket is the one of Linux: what was received before the server     *)
(* went can still be read, a first Send to it succeeds and is answered by  *)
(* a reset, and a Send after the reset ends the client (SIGPIPE).          *)
(***************************************************************************)
EXTENDS CNP_Ledger, CNP_Session, SequencesExt

CONSTANTS
  Customers,          \* customer IDs that may be used
  SavedCustomers,     \* those with an account when the client starts,
  SavedTransactions,  \* and the log then
  NONE,         \* no request, no response, no session
  Amounts,      \* the amounts the user types
  MaxCommands,  \* bound: commands of the menu
  MaxRecords    \* bound: records in the log

\* Of a record the customer is kept, which is all a history is told apart by.
LogOfCustomers(records) ==
  IsFiniteSet(DOMAIN records) /\ records \in [DOMAIN records -> [customer : Customers]]

ASSUME ClientAssumption ==
  /\ Customers \subseteq QWORD /\ SavedCustomers \subseteq Customers
  /\ LogOfCustomers(SavedTransactions) /\ Sequential(SavedTransactions)
  /\ Amounts \subseteq DWORD
  /\ MaxCommands \in Nat /\ MaxRecords \in Nat
  /\ INVALID_CUSTOMER_ID \notin Customers
  /\ NONE \notin Customers \cup {INVALID_CUSTOMER_ID}
  /\ NONE \notin [type : MSG_TYPE, result : CER_TYPE, ids : SUBSET Nat]

VARIABLES
  accounts,       \* the customers in g_AccountInfo
  log,            \* g_TransactionInfo: transaction ID -> the customer it is of
  step,           \* the step the client has reached
  cInputOption,   \* the last option read
  cin,            \* std::cin: "good", or "fail", which it stays
  wClientID,      \* what the client has for it: it names a session or not
  order,          \* the request the Send function has built
  g_szBuffer,     \* the last response received
  dwStartID,      \* where SendTransaction goes on
  shown,          \* the IDs it has listed
  link,           \* the connection: up, ended by the server, or reset
  request, inbox, \* what it carries to the server and to the client
  session,        \* the customer of the client's session
  \* history: the account's records and whether a server was there, as
  \* SendTransaction began; the transactions the user has asked for, the
  \* server has made, the client has reported done; whether the server has let
  \* the last request go unanswered; commands so far
  before, answered, typed, done, told, missed, commands

tables      == <<accounts, log>>
consoleVars == <<cInputOption, cin, commands>>
listVars    == <<dwStartID, shown, before, answered>>
netVars     == <<link, request, inbox, missed>>
tellVars    == <<typed, done, told>>
clientVars  == <<tables, step, consoleVars, wClientID, order, g_szBuffer, listVars, netVars,
                 session, tellVars>>

Steps   == {"menu", "call", "send", "receive", "report", "exited", "killed"}
Options == MSG_TYPE \cup {"x", "help"}
Order   == [type : MSG_TYPE, customer : Customers \cup {INVALID_CUSTOMER_ID}, amount : DWORD]

Answer(type, cerRR, ids) == [type |-> type, result |-> cerRR, ids |-> ids]

\* The records of a customer.
Own(customer) == {i \in DOMAIN log : log[i].customer = customer}

ClientInit ==
  /\ accounts = SavedCustomers /\ log = SavedTransactions
  /\ step = "menu" /\ cInputOption = "help" /\ cin = "good" /\ commands = 0
  /\ wClientID = FALSE /\ order = NONE
  \* zeros, which read CER_SUCCESS and no records
  /\ g_szBuffer = Answer("zeros", "CER_SUCCESS", {})
  /\ dwStartID = 0 /\ shown = <<>> /\ before = {} /\ answered = TRUE
  /\ link = "up" /\ request = NONE /\ inbox = NONE /\ session = NONE
  /\ missed = FALSE
  /\ typed = <<>> /\ done = <<>> /\ told = <<>>

---------------------------------------------------------------------------
(* The menu loop and the prompts                                           *)

\* After a failure nothing more is read: the last option is taken again.
ReadOption ==
  /\ step = "menu" /\ commands < MaxCommands
  /\ commands' = commands + 1
  /\ \/ cin = "good" /\ cInputOption' \in Options /\ UNCHANGED cin
     \/ cin' = "fail" /\ UNCHANGED cInputOption
  /\ step' = CASE cInputOption' = "x"    -> "exited"
               [] cInputOption' = "help" -> "menu"
               [] OTHER                  -> "call"
  /\ UNCHANGED <<tables, wClientID, order, g_szBuffer, listVars, netVars, session, tellVars>>

Prompts(type) == type \in TransactionTypes \cup {"CREATE_ACCOUNT", "LOGON"}

\* What the user may type at the prompts of a Send function.  A name and a PIN
\* stand for the customer ID made of them, INVALID_CUSTOMER_ID for a pair the
\* server refuses.
Typed(type) ==
  [type : {type},
   customer : IF type \in {"CREATE_ACCOUNT", "LOGON"}
              THEN Customers \cup {INVALID_CUSTOMER_ID} ELSE {INVALID_CUSTOMER_ID},
   amount : IF type \in TransactionTypes THEN Amounts ELSE {0}]

\* What it gets from an input that fails: dwAmount and wPIN are not
\* initialized, and after the first failure the name stays empty.
Failed(type) ==
  [type : {type},
   customer : IF type \in {"CREATE_ACCOUNT", "LOGON"} /\ cin = "good"
              THEN Customers \cup {INVALID_CUSTOMER_ID} ELSE {INVALID_CUSTOMER_ID},
   amount : IF type \in TransactionTypes THEN DWORD ELSE {0}]

\* The Send function is called and builds its request.
Call ==
  /\ step = "call"
  /\ LET type == cInputOption
     IN \/ /\ cin = "good" \/ ~Prompts(type)
           /\ order' \in Typed(type)
           /\ typed' = IF type \in TransactionTypes THEN Append(typed, order') ELSE typed
           /\ UNCHANGED cin
        \/ /\ Prompts(type)
           /\ order' \in Failed(type)
           /\ cin' = "fail"
           /\ UNCHANGED typed
  /\ dwStartID' = 0 /\ shown' = <<>> /\ answered' = TRUE
  /\ before' = Own(session)
  /\ step' = "send"
  /\ UNCHANGED <<tables, cInputOption, commands, wClientID, g_szBuffer, netVars, session,
                 done, told>>

---------------------------------------------------------------------------
(* Send and Receive                                                        *)

Send ==
  /\ step = "send"
  /\ \/ /\ link = "up"
        /\ request' = [order |-> order, known |-> wClientID, start |-> dwStartID]
        /\ step' = "receive"
        /\ UNCHANGED link
     \/ /\ link = "ended"
        /\ link' = "reset"
        /\ step' = "receive"
        /\ UNCHANGED request
     \/ /\ link = "reset"
        /\ step' = "killed"
        /\ UNCHANGED <<link, request>>
  /\ missed' = FALSE
  /\ UNCHANGED <<tables, consoleVars, wClientID, order, g_szBuffer, listVars, inbox, session,
                 tellVars>>

\* Faulty variant: the wait for the response has a timeout.
Receive_Impatient ==
  /\ step = "receive"
  /\ IF inbox = NONE THEN UNCHANGED g_szBuffer ELSE g_szBuffer' = inbox
  /\ answered' = (answered /\ link = "up")
  /\ inbox' = NONE
  /\ step' = "report"
  /\ UNCHANGED <<tables, consoleVars, wClientID, order, dwStartID, shown, before, link, request,
                 missed, session, tellVars>>

\* recv blocks while there is a server.  When there is none it fails or
\* returns 0, which nobody looks at: the buffer keeps what it has.
Receive ==
  /\ step = "receive"
  /\ \/ /\ inbox # NONE
        /\ g_szBuffer' = inbox
        /\ UNCHANGED answered
     \/ /\ inbox = NONE /\ link # "up"
        /\ answered' = FALSE
        /\ UNCHANGED g_szBuffer
  /\ inbox' = NONE
  /\ step' = "report"
  /\ UNCHANGED <<tables, consoleVars, wClientID, order, dwStartID, shown, before, link, request,
                 missed, session, tellVars>>

---------------------------------------------------------------------------
(* What the response says                                                  *)

\* Faulty variants: a longer page; a page that begins where the last one ended.
wTransCnt_Long      == 20
NextStart_Same(ids) == Max(ids)

wTransCnt == 5

NextStart(ids) == (Max(ids) + 1) % DwordMod

\* The records of a response in the order they are in.
InOrder(ids) ==
  [n \in 1 .. Cardinality(ids) |-> CHOOSE i \in ids : Cardinality({j \in ids : j < i}) = n - 1]

\* A full page is followed by a request for the next.  A count read out of an
\* old response of another type is whatever its bytes are; it may lead past
\* the end of the buffer.
List ==
  IF g_szBuffer.type = "TRANSACTION_QUERY"
  THEN /\ shown' = shown \o InOrder(g_szBuffer.ids)
       /\ IF Cardinality(g_szBuffer.ids) < wTransCnt
          THEN step' = "menu" /\ UNCHANGED dwStartID
          ELSE step' = "send" /\ dwStartID' = NextStart(g_szBuffer.ids)
  ELSE /\ step' \in {"menu", "send", "killed"}
       /\ dwStartID' \in DWORD
       /\ UNCHANGED shown

Report ==
  /\ step = "report"
  /\ LET ok == Succeeded(g_szBuffer.result)
     IN /\ wClientID' = (wClientID \/ (order.type = "CONNECT" /\ ok))
        /\ told' = IF order.type \in TransactionTypes /\ ok THEN Append(told, order) ELSE told
        /\ IF order.type = "TRANSACTION_QUERY" /\ ok THEN List
           ELSE step' = "menu" /\ UNCHANGED <<dwStartID, shown>>
  /\ UNCHANGED <<tables, consoleVars, order, g_szBuffer, before, answered, netVars, session,
                 typed, done>>

---------------------------------------------------------------------------
(* The server and the other clients                                        *)

Record(customer) == log' = Insert(log, Cardinality(DOMAIN log) + 1, [customer |-> customer])

\* A handler, with the result it answers.  The client waits for it, so that of
\* its steps only the one that changes a table counts.
HandleSession(o, cerRR) ==
  /\ UNCHANGED tables
  /\ \/ /\ o.type = "CONNECT" /\ cerRR = "CER_SUCCESS"
        /\ session' = INVALID_CUSTOMER_ID
     \/ /\ o.type = "LOGOFF"
        /\ cerRR = IF IsValidCustomerID(session) THEN "CER_SUCCESS"
                   ELSE "CER_CLIENT_NOT_LOGGEDON"
        /\ session' = INVALID_CUSTOMER_ID
     \/ /\ o.type = "LOGON" /\ o.customer \in accounts /\ cerRR = "CER_SUCCESS"
        /\ session' = o.customer

\* A lookup that misses an account another thread is inserting, or that is there
\* while another one is inserted, answers like one for an account that is not.
HandleAccount(o, cerRR) ==
  /\ UNCHANGED session
  /\ \/ /\ o.type \in {"CREATE_ACCOUNT", "LOGON"} /\ ~IsValidCustomerID(o.customer)
        /\ cerRR = "CER_INVALID_NAME_PIN" /\ UNCHANGED tables
     \/ /\ o.type = "LOGON" /\ IsValidCustomerID(o.customer)
        /\ cerRR = "CER_ACCOUNT_NOT_FOUND" /\ UNCHANGED tables
     \/ /\ o.type = "CREATE_ACCOUNT" /\ IsValidCustomerID(o.customer)
        /\ \/ /\ o.customer \in accounts
              /\ cerRR = "CER_ACCOUNT_EXISTS" /\ UNCHANGED tables
           \/ /\ accounts' = accounts \cup {o.customer}
              /\ cerRR = "CER_SUCCESS" /\ UNCHANGED log
     \/ /\ o.type \in AccountTypes /\ ~IsValidCustomerID(session)
        /\ cerRR = NotLoggedOn(o.type) /\ UNCHANGED tables
     \/ /\ o.type \in AccountTypes /\ IsValidCustomerID(session)
        /\ \/ cerRR = "CER_ACCOUNT_NOT_FOUND" /\ UNCHANGED tables
           \/ /\ o.type \in TransactionTypes
              /\ Record(session)
              /\ cerRR = "CER_SUCCESS" /\ UNCHANGED accounts
           \/ /\ o.type \in TransactionTypes \ {"DEPOSIT"}
              /\ cerRR = "CER_INSUFFICIENT_FUNDS" /\ UNCHANGED tables
           \/ /\ o.type \in {"BALANCE_QUERY", "TRANSACTION_QUERY"}
              /\ cerRR = "CER_SUCCESS" /\ UNCHANGED tables

Handle(o, cerRR) == HandleSession(o, cerRR) \/ HandleAccount(o, cerRR)

Page(o, cerRR) ==
  IF o.type = "TRANSACTION_QUERY" /\ Succeeded(cerRR)
  THEN Collect(log, session, request.start, wTransCnt) ELSE {}

\* The request is not answered at all when its client ID names no session, or
\* when the session is missed because another thread inserts or erases one.
Unanswered ==
  /\ request.order.type # "CONNECT"
  /\ missed' = TRUE
  /\ UNCHANGED <<tables, inbox, session, done>>

\* Faulty variant: only a success is answered.
Serve_OnlySuccess ==
  /\ link = "up" /\ request # NONE
  /\ LET o == request.order
     IN \/ Unanswered
        \/ /\ o.type = "CONNECT" \/ request.known
           /\ \E cerRR \in CER_TYPE :
                /\ Handle(o, cerRR)
                /\ inbox' = IF Succeeded(cerRR) THEN Answer(o.type, cerRR, Page(o, cerRR))
                            ELSE NONE
                /\ done' = IF o.type \in TransactionTypes /\ Succeeded(cerRR)
                           THEN Append(done, o) ELSE done
           /\ UNCHANGED missed
  /\ request' = NONE
  /\ UNCHANGED <<step, consoleVars, wClientID, order, g_szBuffer, listVars, link, typed, told>>

Serve ==
  /\ link = "up" /\ request # NONE
  /\ LET o == request.order
     IN \/ Unanswered
        \/ /\ o.type = "CONNECT" \/ request.known
           /\ \E cerRR \in CER_TYPE :
                /\ Handle(o, cerRR)
                /\ inbox' = Answer(o.type, cerRR, Page(o, cerRR))
                /\ done' = IF o.type \in TransactionTypes /\ Succeeded(cerRR)
                           THEN Append(done, o) ELSE done
           /\ UNCHANGED missed
  /\ request' = NONE
  /\ UNCHANGED <<step, consoleVars, wClientID, order, g_szBuffer, listVars, link, typed, told>>

\* Other sessions open accounts, and charge this customer's account or another.
Others ==
  /\ link = "up"
  /\ \/ /\ \E customer \in Customers \ accounts : accounts' = accounts \cup {customer}
        /\ UNCHANGED log
     \/ /\ Cardinality(DOMAIN log) < MaxRecords
        /\ \E customer \in accounts : Record(customer)
        /\ UNCHANGED accounts
  /\ UNCHANGED <<step, consoleVars, wClientID, order, g_szBuffer, listVars, netVars, session,
                 tellVars>>

\* The server process ends.  A request it has not read resets the connection.
ServerEnds ==
  /\ link = "up"
  /\ link' = IF request = NONE THEN "ended" ELSE "reset"
  /\ request' = NONE
  /\ UNCHANGED <<tables, step, consoleVars, wClientID, order, g_szBuffer, listVars, inbox,
                 missed, session, tellVars>>

\* The program is over, or the bound on commands is reached.
Finished ==
  /\ step \in {"exited", "killed"} \/ (step = "menu" /\ commands = MaxCommands)
  /\ UNCHANGED clientVars

---------------------------------------------------------------------------
ClientStep == Send \/ Receive \/ Report

ClientNext ==
  \/ ReadOption \/ Call \/ ClientStep
  \/ Serve \/ Others \/ ServerEnds \/ Finished

\* The client and the server's thread run on; the user types or does not.
ClientSpec ==
  /\ ClientInit /\ [][ClientNext]_clientVars
  /\ WF_clientVars(ClientStep) /\ WF_clientVars(Serve)

---------------------------------------------------------------------------
(* Properties                                                              *)

\* sizeof the response and of a TRANSACTION where DWORD has 64 bits, and what
\* one receive of the client takes.
ResponseSize(count) == 38 + 26 * count
BufferSize          == 512 - 1

\* The parts of the client hold what they may; a history response fits the
\* buffers it is built in and received in (ProcessTransactionQueryRequest
\* copies as many records as the client asks for, CNP_Messaging.cpp:671).
ClientTypeOK ==
  /\ step \in Steps /\ cInputOption \in Options /\ cin \in {"good", "fail"}
  /\ wClientID \in BOOLEAN /\ missed \in BOOLEAN
  /\ order \in Order \cup {NONE}
  /\ dwStartID \in DWORD
  /\ link \in {"up", "ended", "reset"}
  /\ session \in Customers \cup {INVALID_CUSTOMER_ID, NONE}
  /\ (request # NONE) => step = "receive" /\ inbox = NONE
  /\ \A resp \in ({inbox} \ {NONE}) \cup {g_szBuffer} :
       /\ resp.result \in CER_TYPE
       /\ resp.ids \subseteq DOMAIN log /\ Cardinality(resp.ids) <= wTransCnt
  /\ ResponseSize(wTransCnt) <= BufferSize

\* The pages of a history add up: every record the account had when the user
\* asked is listed, none twice, in order and none of another account, whatever
\* other clients add between two pages.
HistoryComplete ==
  (step = "menu" /\ cInputOption = "TRANSACTION_QUERY" /\ answered
     /\ Succeeded(g_szBuffer.result))
  => /\ before \subseteq ToSet(shown) /\ ToSet(shown) \subseteq Own(session)
     /\ \A i, j \in DOMAIN shown : i < j => shown[i] < shown[j]

Count(orders, o) == Cardinality({i \in DOMAIN orders : orders[i] = o})

\* While there is a server, the transactions the client has reported done are
\* those the server has made for it, and as long as the input is sound, none
\* is made that the user has not typed, and none twice.
OrdersHonoured ==
  step = "menu" /\ link = "up" =>
    /\ told = done
    /\ cin = "good" => \A i \in DOMAIN done : Count(done, done[i]) <= Count(typed, done[i])

\* A client gets back to its menu, however many pages its history has and
\* whether or not the server ends, unless the server has let its request go
\* unanswered: then it waits for as long as the server is there.
MenuReturns ==
  (step \in {"send", "receive", "report"}) ~> (step \in {"menu", "killed"} \/ missed)

\* "SOCKET_ERROR on failure", "0 if the connection has been gracefully closed"
\* (CNP_Socket.h:88-91): a failed call is told apart from a response, so that
\* what the client reports as done, the server has done.
SuccessMeansDone == step = "menu" => Len(told) <= Len(done)

---------------------------------------------------------------------------
(* The inductive invariant                                                 *)

\* The answer to the order of the Send function at work, in the socket or read.
Answers ==
  ({inbox} \ {NONE}) \cup (IF step = "report" /\ answered THEN {g_szBuffer} ELSE {})

\* A request on its way is the one of the Send function at work, and so is an
\* answer, as long as there is a server.
ConversationInv ==
  /\ step \in {"call", "send", "receive", "report"} => cInputOption \in MSG_TYPE
  /\ step \in {"send", "receive", "report"} => order \in Order /\ order.type = cInputOption
  /\ step # "receive" => request = NONE /\ inbox = NONE
  /\ request # NONE =>
       request = [order |-> order, known |-> wClientID, start |-> dwStartID]
  /\ \A resp \in Answers : resp.type = order.type
  /\ link = "up" => answered
  /\ link # "up" => request = NONE
  /\ link = "up" /\ wClientID => session # NONE
  /\ \A resp \in Answers :
       link = "up" /\ order.type = "CONNECT" /\ Succeeded(resp.result) => session # NONE

\* A transaction that is on its way to the server.
Charging == (step = "send" \/ request # NONE) /\ order.type \in TransactionTypes

\* What is reported lags behind what is done by the answer on its way; what is
\* done lags behind what is typed by the order on its way.
OrdersInv ==
  /\ typed \in Seq(Order) /\ done \in Seq(Order) /\ told \in Seq(Order)
  /\ link = "up" /\ Answers = {} => told = done
  /\ \A resp \in Answers : link = "up" =>
       done = IF order.type \in TransactionTypes /\ Succeeded(resp.result)
              THEN Append(told, order) ELSE told
  /\ cin = "good" => \A o \in Order :
       Count(done, o) + (IF Charging /\ o = order THEN 1 ELSE 0) <= Count(typed, o)

TablesWellFormed ==
  /\ accounts \subseteq Customers
  /\ LogOfCustomers(log) /\ Sequential(log)

ClientInv == ClientTypeOK /\ TablesWellFormed /\ ConversationInv /\ OrdersInv

\* Every command makes at most one record.
RecordsCounted ==
  LET size == Cardinality(DOMAIN log)
  IN  /\ commands \in 0 .. MaxCommands
      /\ size <= MaxRecords + commands
      /\ step = "call" \/ Charging => commands > 0 /\ size < MaxRecords + commands

\* The IDs stay below the limit of DWORD, where the next page would begin at 0.
LogFits ==
  /\ Cardinality(DOMAIN SavedTransactions) <= MaxRecords
  /\ MaxRecords + MaxCommands + 1 < DwordMod

Ascending(ids) == \A i, j \in DOMAIN ids : i < j => ids[i] < ids[j]

\* What is listed is what there was below the start of the next page; the page
\* is what there was from there on, or its first part and full.
Listed ==
  /\ before \subseteq Own(session)
  /\ shown \in Seq(Own(session)) /\ Ascending(shown)
  /\ \A i \in ToSet(shown) : i < dwStartID
  /\ \A i \in before : i < dwStartID => i \in ToSet(shown)

PageOf(ids) ==
  /\ ids \subseteq Own(session) /\ \A i \in ids : i >= dwStartID
  /\ \A i \in before : i >= dwStartID /\ i \notin ids =>
       Cardinality(ids) >= wTransCnt /\ \A j \in ids : j < i

\* The user's history is being listed, and every request for it was answered.
Paging ==
  cInputOption = "TRANSACTION_QUERY" /\ answered /\ step \in {"send", "receive", "report"}

PagesInv ==
  Paging => Listed /\ \A resp \in Answers : Succeeded(resp.result) => PageOf(resp.ids)

HistoryInv == RecordsCounted /\ PagesInv /\ HistoryComplete

=============================================================================
