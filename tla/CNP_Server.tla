------------------------------ MODULE CNP_Server ------------------------------
(***************************************************************************)
(* The life of the server process (main, ClientThreadHandler and the       *)
(* signal handler of src/Server/CNP_Server.cpp, LoadServerDB and           *)
(* SaveServerDB of src/Server/CNP_ServerDB.cpp): load two files, accept    *)
(* connections until a signal, end the threads, save two files.  It may    *)
(* crash at any moment and is started again.                               *)
(*                                                                         *)
(* A handler is cut where another thread, or main, can come between: the   *)
(* unlocked lookups of the session and of the account, the load and the    *)
(* store of a balance, the record, the answer.  Of a critical section the  *)
(* wait for the mutex and what is done under it are one stage, during      *)
(* which the lookups of other threads may miss.                            *)
(*                                                                         *)
(* A connection, its client, its thread, its socket, its session and its   *)
(* THREAD_INFO share one name: client IDs are unique here, as CNP_Serial   *)
(* shows them to be when connections are opened one at a time, so that a   *)
(* session answers on the socket of its own thread.                        *)
(***************************************************************************)
EXTENDS CNP_Bank, Sequences

CONSTANTS
  Connections,
  NONE,            \* no request
  Menu,            \* Menu[c][n]: what the client of c may send as its n-th request
                   \* (its length bounds the requests of that client)
  MaxRuns          \* bound: starts of the server

\* A request, with the customer ID of its name and PIN or of the logon.
Request == [type : MSG_TYPE, customer : Customers \cup {INVALID_CUSTOMER_ID}, amount : DWORD]

\* What a handler holds: its request, the balance it has loaded, the ID of the
\* record it has added, or 0.
Job == [request : Request, value : DWORD, id : Nat]

ASSUME ServerAssumption ==
  /\ NONE \notin Request \cup Job
  /\ Menu \in [Connections -> Seq(SUBSET Request)]
  /\ MaxRuns \in Nat

VARIABLES
  main,                   \* the step main has reached
  g_bTerminate,
  listening,              \* the listening socket takes connections
  lstClientThreadInfo,    \* the list, front first, of THREAD_INFOs not deleted
  thread, m_bTerminate,   \* a thread: the step it has reached, its flag
  job,                    \* what its handler holds
  sockets,                \* sockets not deleted
  sessions,               \* the connections with a session in g_SessionInfo
  client, asked,          \* a client: its end of the connection, whether it waits
  request,                \* what a socket has to be received
  reset,                  \* an answer has met a closed client: the next recv fails
  disk,                   \* the two files
  file, last, good,       \* the save: its file, the key it wrote last, its stream
  \* history: requests a client has sent on its connection, clients whose last
  \* request was dropped, records answered with success, a crash or I/O failure
  \* and starts so far
  sent, missed, acked, faulty, runs

mainVars    == <<main, g_bTerminate, listening, lstClientThreadInfo>>
threadVars  == <<thread, m_bTerminate, job, sockets, sessions>>
clientVars  == <<client, asked, request, reset, sent, missed>>
diskVars    == <<disk, file, last, good>>
historyVars == <<acked, faulty, runs>>
serverVars  == <<bank, mainVars, threadVars, clientVars, diskVars, historyVars>>

MainStages   == {"load", "start", "serve", "accept", "stop", "join", "open", "write",
                 "return", "down"}
Files        == {"accounts", "transactions"}

\* A thread in a handler; one that runs; one of any kind.
HandlerStages == {"connect", "find", "account", "create", "load", "store", "record", "reply"}
Running       == {"test", "receive", "hangup"} \cup HandlerStages
ThreadStages  == {"none", "exited"} \cup Running

ServerInit ==
  /\ main = "load"
  /\ accounts = EmptyMap /\ log = EmptyMap
  /\ g_bTerminate = FALSE /\ listening = FALSE
  /\ lstClientThreadInfo = <<>>
  /\ thread = [c \in Connections |-> "none"]
  /\ m_bTerminate = [c \in Connections |-> FALSE]
  /\ job = [c \in Connections |-> NONE]
  /\ sockets = {} /\ sessions = {}
  /\ client = [c \in Connections |-> "idle"]
  /\ asked = [c \in Connections |-> FALSE]
  /\ request = [c \in Connections |-> NONE]
  /\ reset = [c \in Connections |-> FALSE]
  /\ disk = [accounts |-> SavedAccounts, transactions |-> SavedTransactions]
  /\ file = "accounts" /\ last = 0 - 1 /\ good = FALSE
  /\ sent = [c \in Connections |-> 0] /\ missed = {}
  /\ acked = EmptyMap /\ faulty = FALSE /\ runs = 1

---------------------------------------------------------------------------
(* Start-up and the accept loop                                            *)

\* What is loaded of a file, which is in key order, before a read fails: no
\* record at all when the file cannot be opened.
Prefixes(table) == {[k \in {i \in DOMAIN table : i < n} |-> table[k]] : n \in DOMAIN table}

LoadServerDB ==
  /\ main = "load"
  /\ accounts' \in {disk.accounts} \cup Prefixes(disk.accounts)
  /\ log' \in {disk.transactions} \cup Prefixes(disk.transactions)
  /\ faulty' = (faulty \/ accounts' # disk.accounts \/ log' # disk.transactions)
  /\ main' = "start"
  /\ UNCHANGED <<g_bTerminate, listening, lstClientThreadInfo, threadVars, clientVars,
                 diskVars, acked, runs>>

\* The operator has typed a port.  Create or Listen may fail; main goes on.
Start ==
  /\ main = "start"
  /\ listening' \in BOOLEAN
  /\ main' = "serve"
  /\ UNCHANGED <<bank, g_bTerminate, lstClientThreadInfo, threadVars, clientVars,
                 diskVars, historyVars>>

TerminateHandler ==
  /\ main # "down" /\ ~g_bTerminate
  /\ g_bTerminate' = TRUE
  /\ UNCHANGED <<bank, main, listening, lstClientThreadInfo, threadVars, clientVars,
                 diskVars, historyVars>>

ServeTest ==
  /\ main = "serve"
  /\ main' = IF g_bTerminate THEN "stop" ELSE "accept"
  /\ UNCHANGED <<bank, g_bTerminate, listening, lstClientThreadInfo, threadVars,
                 clientVars, diskVars, historyVars>>

\* Connections the system has made that main has not taken yet.
Backlog == {c \in Connections : client[c] \in {"open", "closed"} /\ thread[c] = "none"}

Accept ==
  /\ main = "accept"
  /\ IF listening /\ Backlog # {}
     THEN \E c \in Backlog :
            /\ thread' = [thread EXCEPT ![c] = "test"]
            /\ sockets' = sockets \cup {c}
            /\ lstClientThreadInfo' = <<c>> \o lstClientThreadInfo
     ELSE UNCHANGED <<thread, sockets, lstClientThreadInfo>>
  /\ main' = "serve"
  /\ UNCHANGED <<bank, g_bTerminate, listening, m_bTerminate, job, sessions, clientVars,
                 diskVars, historyVars>>

---------------------------------------------------------------------------
(* ClientThreadHandler                                                     *)

Goto(c, s) == thread' = [thread EXCEPT ![c] = s]

\* Faulty variant: for (;;).
ThreadTest_Forever(c) ==
  /\ thread[c] = "test"
  /\ Goto(c, IF m_bTerminate[c] /\ client[c] = "closed" THEN "exited" ELSE "receive")
  /\ UNCHANGED <<bank, mainVars, m_bTerminate, job, sockets, sessions, clientVars, diskVars,
                 historyVars>>

ThreadTest(c) ==
  /\ thread[c] = "test"
  /\ Goto(c, IF m_bTerminate[c] THEN "exited" ELSE "receive")
  /\ UNCHANGED <<bank, mainVars, m_bTerminate, job, sockets, sessions, clientVars, diskVars,
                 historyVars>>

\* The dispatch of a request that has arrived.
Dispatch(c) ==
  /\ request[c] # NONE
  /\ job' = [job EXCEPT ![c] = [request |-> request[c], value |-> 0, id |-> 0]]
  /\ request' = [request EXCEPT ![c] = NONE]
  /\ Goto(c, IF request[c].type = "CONNECT" THEN "connect" ELSE "find")

\* Faulty variant: any result but data ends the connection, the timeout included.
ThreadReceive_Impatient(c) ==
  /\ thread[c] = "receive"
  /\ \/ Dispatch(c)
     \/ request[c] = NONE /\ Goto(c, "hangup") /\ UNCHANGED <<job, request>>
  /\ UNCHANGED <<bank, mainVars, m_bTerminate, sockets, sessions, client, asked, reset, sent,
                 missed, diskVars, historyVars>>

\* recv has a request, or the end of the stream, or neither (a timeout, or the
\* error left by an answer to a closed client), which is tried again.
ThreadReceive(c) ==
  /\ thread[c] = "receive"
  /\ \/ Dispatch(c) /\ UNCHANGED reset
     \/ /\ request[c] = NONE /\ (client[c] = "open" \/ reset[c])
        /\ Goto(c, "test")
        /\ reset' = [reset EXCEPT ![c] = FALSE]
        /\ UNCHANGED <<job, request>>
     \/ /\ request[c] = NONE /\ client[c] = "closed" /\ ~reset[c]
        /\ Goto(c, "hangup")
        /\ UNCHANGED <<job, request, reset>>
  /\ UNCHANGED <<bank, mainVars, m_bTerminate, sockets, sessions, client, asked, sent, missed,
                 diskVars, historyVars>>

\* ProcessDisconnect, Close, and the thread's own order to itself to end.
ThreadHangup(c) ==
  /\ thread[c] = "hangup"
  /\ sessions' = sessions \ {c}
  /\ m_bTerminate' = [m_bTerminate EXCEPT ![c] = TRUE]
  /\ Goto(c, "test")
  /\ UNCHANGED <<bank, mainVars, job, sockets, clientVars, diskVars, historyVars>>

---------------------------------------------------------------------------
(* The handlers                                                            *)

\* Another thread may be changing the table that is looked up in.
Others(c, stages) == \E d \in Connections \ {c} : thread[d] \in stages

\* One client ID at a time is taken; a connect may be refused.
ThreadConnect(c) ==
  /\ thread[c] = "connect"
  /\ sessions' \in {sessions, sessions \cup {c}}
  /\ Goto(c, "reply")
  /\ UNCHANGED <<bank, mainVars, m_bTerminate, job, sockets, clientVars, diskVars,
                 historyVars>>

\* The logon state of the session is in the customer of the request.
FindSession(c) ==
  /\ thread[c] = "find" /\ c \in sessions
  /\ Goto(c, IF job[c].request.type \in {"LOGON", "LOGOFF"} THEN "reply" ELSE "account")
  /\ UNCHANGED <<bank, mainVars, m_bTerminate, job, sockets, sessions, clientVars, diskVars,
                 historyVars>>

\* Without a session there is no socket to answer on.
MissSession(c) ==
  /\ thread[c] = "find" /\ (c \notin sessions \/ Others(c, {"connect", "hangup"}))
  /\ job' = [job EXCEPT ![c] = NONE]
  /\ missed' = missed \cup {c}
  /\ Goto(c, "test")
  /\ UNCHANGED <<bank, mainVars, m_bTerminate, sockets, sessions, client, asked, request,
                 reset, sent, diskVars, historyVars>>

\* What a handler that has found the account goes on to.
AfterAccount(r) ==
  IF r.type = "DEPOSIT"
     \/ (r.type \in TransactionTypes /\ r.amount <= accounts[r.customer])
  THEN "load" ELSE "reply"

FindAccount(c) ==
  LET r == job[c].request
  IN /\ thread[c] = "account"
     /\ \/ ~IsValidCustomerID(r.customer) /\ Goto(c, "reply")
        \/ /\ IsValidCustomerID(r.customer) /\ r.customer \in DOMAIN accounts
           /\ Goto(c, AfterAccount(r))
        \/ /\ IsValidCustomerID(r.customer)
           /\ r.customer \notin DOMAIN accounts \/ Others(c, {"create"})
           /\ Goto(c, IF r.type = "CREATE_ACCOUNT" THEN "create" ELSE "reply")
     /\ UNCHANGED <<bank, mainVars, m_bTerminate, job, sockets, sessions, clientVars,
                    diskVars, historyVars>>

CreateInsert(c) ==
  /\ thread[c] = "create"
  /\ accounts' = Insert(accounts, job[c].request.customer, 0)
  /\ Goto(c, "reply")
  /\ UNCHANGED <<log, mainVars, m_bTerminate, job, sockets, sessions, clientVars, diskVars,
                 historyVars>>

\* += and -= are a load and a store, under no lock.
BalanceLoad(c) ==
  /\ thread[c] = "load"
  /\ job' = [job EXCEPT ![c].value = accounts[job[c].request.customer]]
  /\ Goto(c, "store")
  /\ UNCHANGED <<bank, mainVars, m_bTerminate, sockets, sessions, clientVars, diskVars,
                 historyVars>>

Charged(r, balance) ==
  IF r.type = "DEPOSIT" THEN incr_Balance(balance, r.amount) ELSE decr_Balance(balance, r.amount)

BalanceStore(c) ==
  LET r == job[c].request
  IN /\ thread[c] = "store"
     /\ accounts' = [accounts EXCEPT ![r.customer] = Charged(r, job[c].value)]
     /\ Goto(c, "record")
     /\ UNCHANGED <<log, mainVars, m_bTerminate, job, sockets, sessions, clientVars,
                    diskVars, historyVars>>

TransactionInsert(c) ==
  LET r == job[c].request
  IN /\ thread[c] = "record"
     /\ Record(r.customer, r.type, r.amount)
     /\ job' = [job EXCEPT ![c].id = NextID]
     /\ Goto(c, "reply")
     /\ UNCHANGED <<accounts, mainVars, m_bTerminate, sockets, sessions, clientVars,
                    diskVars, historyVars>>

\* The answer of a handler that has a socket to answer on.
ThreadReply(c) ==
  /\ thread[c] = "reply"
  /\ IF client[c] = "open"
     THEN /\ asked' = [asked EXCEPT ![c] = FALSE]
          /\ acked' = IF job[c].id = 0 THEN acked
                      ELSE Insert(acked, job[c].id, log[job[c].id])
          /\ UNCHANGED reset
     ELSE /\ reset' = [reset EXCEPT ![c] = TRUE]
          /\ UNCHANGED <<asked, acked>>
  /\ job' = [job EXCEPT ![c] = NONE]
  /\ Goto(c, "test")
  /\ UNCHANGED <<bank, mainVars, m_bTerminate, sockets, sessions, client, request, sent,
                 missed, diskVars, faulty, runs>>

---------------------------------------------------------------------------
(* Shutdown                                                                *)

\* A client's end of the connection closes; it waits for nothing any more.
Leave(c) ==
  /\ client' = [client EXCEPT ![c] = "closed"]
  /\ asked' = [asked EXCEPT ![c] = FALSE]
  /\ sent' = [sent EXCEPT ![c] = 0]
  /\ missed' = missed \ {c}

\* Close on the listening socket ends the connections still in its backlog.
CloseListener ==
  /\ listening' = FALSE
  /\ client' = [c \in Connections |-> IF c \in Backlog THEN "closed" ELSE client[c]]
  /\ asked' = [c \in Connections |-> asked[c] /\ c \notin Backlog]
  /\ file' = "accounts"
  /\ main' = "open"

\* Faulty variant: main leaves the threads to themselves and saves.
Stop_Abandon ==
  /\ main = "stop"
  /\ CloseListener
  /\ UNCHANGED <<bank, g_bTerminate, lstClientThreadInfo, threadVars, request, reset, sent,
                 missed, disk, last, good, historyVars>>

\* The head of the list is told to end, as long as there is one.
Stop ==
  /\ main = "stop"
  /\ IF lstClientThreadInfo # <<>>
     THEN /\ m_bTerminate' = [m_bTerminate EXCEPT ![Head(lstClientThreadInfo)] = TRUE]
          /\ main' = "join"
          /\ UNCHANGED <<listening, client, asked, file>>
     ELSE CloseListener /\ UNCHANGED m_bTerminate
  /\ UNCHANGED <<bank, g_bTerminate, lstClientThreadInfo, thread, job, sockets, sessions,
                 request, reset, sent, missed, disk, last, good, historyVars>>

\* Faulty variant: the THREAD_INFO goes, its socket stays.
EndConnection_Leak(c) ==
  /\ Leave(c)
  /\ lstClientThreadInfo' = Tail(lstClientThreadInfo)
  /\ main' = "stop"
  /\ UNCHANGED <<bank, g_bTerminate, listening, threadVars, request, reset, diskVars,
                 historyVars>>

\* The socket is shut down and deleted, with the THREAD_INFO.
EndConnection(c) ==
  /\ Leave(c)
  /\ sockets' = sockets \ {c}
  /\ lstClientThreadInfo' = Tail(lstClientThreadInfo)
  /\ main' = "stop"
  /\ UNCHANGED <<bank, g_bTerminate, listening, thread, m_bTerminate, job, sessions, request,
                 reset, diskVars, historyVars>>

\* Faulty variant: the thread is told to end and not waited for.
Join_None ==
  /\ main = "join"
  /\ EndConnection(Head(lstClientThreadInfo))

\* join waits for the thread.
Join ==
  /\ main = "join" /\ thread[Head(lstClientThreadInfo)] = "exited"
  /\ EndConnection(Head(lstClientThreadInfo))

---------------------------------------------------------------------------
(* SaveServerDB: the accounts, then the transactions                       *)

Table(f) == IF f = "accounts" THEN accounts ELSE log

\* What the iterator comes to next.
Following(f) ==
  {k \in DOMAIN Table(f) : k > last /\ \A j \in DOMAIN Table(f) : j > last => k <= j}

NextFile == IF file = "accounts" THEN main' = "open" /\ file' = "transactions"
            ELSE main' = "return" /\ UNCHANGED file

\* A file that opens is truncated; one that does not is left alone.
SaveOpen ==
  /\ main = "open"
  /\ \/ /\ disk' = [disk EXCEPT ![file] = EmptyMap]
        /\ good' = TRUE /\ last' = 0 - 1
        /\ main' = "write"
        /\ UNCHANGED <<file, faulty>>
     \/ /\ NextFile
        /\ faulty' = TRUE
        /\ UNCHANGED <<disk, last, good>>
  /\ UNCHANGED <<bank, g_bTerminate, listening, lstClientThreadInfo, threadVars, clientVars,
                 acked, runs>>

\* Faulty variant: the stream is cleared after a write that failed.
SaveWrite_Clear ==
  /\ main = "write"
  /\ \E k \in Following(file) :
       /\ last' = k
       /\ \/ disk' = [disk EXCEPT ![file] = Insert(@, k, Table(file)[k])] /\ UNCHANGED faulty
          \/ faulty' = TRUE /\ UNCHANGED disk
  /\ UNCHANGED <<bank, mainVars, threadVars, clientVars, file, good, acked, runs>>

\* Records are written in key order.  After a write that failed the stream is
\* bad, and the writes that follow do nothing.
SaveWrite ==
  /\ main = "write"
  /\ \E k \in Following(file) :
       /\ last' = k
       /\ \/ /\ good
             /\ disk' = [disk EXCEPT ![file] = Insert(@, k, Table(file)[k])]
             /\ UNCHANGED <<good, faulty>>
          \/ /\ good' = FALSE /\ faulty' = TRUE
             /\ UNCHANGED disk
  /\ UNCHANGED <<bank, mainVars, threadVars, clientVars, file, acked, runs>>

SaveClose ==
  /\ main = "write" /\ Following(file) = {}
  /\ NextFile
  /\ UNCHANGED <<bank, g_bTerminate, listening, lstClientThreadInfo, threadVars, clientVars,
                 disk, last, good, historyVars>>

---------------------------------------------------------------------------
(* The outside: clients, the operating system, the operator                *)

Connect(c) ==
  /\ client[c] = "idle" /\ listening
  /\ client' = [client EXCEPT ![c] = "open"]
  /\ UNCHANGED <<bank, mainVars, threadVars, asked, request, reset, sent, missed, diskVars,
                 historyVars>>

\* The client sends a request and waits for the answer.
SendRequest(c) ==
  /\ client[c] = "open" /\ ~asked[c] /\ sent[c] < Len(Menu[c])
  /\ \E r \in Menu[c][sent[c] + 1] : request' = [request EXCEPT ![c] = r]
  /\ asked' = [asked EXCEPT ![c] = TRUE]
  /\ sent' = [sent EXCEPT ![c] = @ + 1]
  /\ missed' = missed \ {c}
  /\ UNCHANGED <<bank, mainVars, threadVars, client, reset, diskVars, historyVars>>

CloseClient(c) ==
  /\ client[c] = "open"
  /\ Leave(c)
  /\ UNCHANGED <<bank, mainVars, threadVars, request, reset, diskVars, historyVars>>

\* The process is gone, its clients' connections with it; the files stay.
ProcessEnds ==
  /\ main' = "down"
  /\ accounts' = EmptyMap /\ log' = EmptyMap
  /\ g_bTerminate' = FALSE /\ listening' = FALSE
  /\ lstClientThreadInfo' = <<>>
  /\ thread' = [c \in Connections |-> "none"]
  /\ m_bTerminate' = [c \in Connections |-> FALSE]
  /\ job' = [c \in Connections |-> NONE]
  /\ sockets' = {} /\ sessions' = {}
  /\ client' = [c \in Connections |-> IF client[c] = "idle" THEN "idle" ELSE "gone"]
  /\ asked' = [c \in Connections |-> FALSE]
  /\ request' = [c \in Connections |-> NONE]
  /\ reset' = [c \in Connections |-> FALSE]
  /\ file' = "accounts" /\ last' = 0 - 1 /\ good' = FALSE
  /\ sent' = [c \in Connections |-> 0] /\ missed' = {}
  /\ UNCHANGED <<disk, acked, runs>>

\* main returns.
Return ==
  /\ main = "return"
  /\ ProcessEnds
  /\ UNCHANGED faulty

\* The process ends at any moment, without a save.
Crash ==
  /\ main # "down"
  /\ ProcessEnds
  /\ faulty' = TRUE

Restart ==
  /\ main = "down" /\ runs < MaxRuns
  /\ main' = "load" /\ runs' = runs + 1
  /\ UNCHANGED <<bank, g_bTerminate, listening, lstClientThreadInfo, threadVars, clientVars,
                 diskVars, acked, faulty>>

\* The server has ended for good.
Finished == main = "down" /\ runs = MaxRuns /\ UNCHANGED serverVars

---------------------------------------------------------------------------
MainStep ==
  \/ LoadServerDB \/ ServeTest \/ Accept \/ Stop \/ Join
  \/ SaveOpen \/ SaveWrite \/ SaveClose \/ Return

ThreadStep(c) ==
  \/ ThreadTest(c) \/ ThreadReceive(c) \/ ThreadHangup(c)
  \/ ThreadConnect(c) \/ FindSession(c) \/ MissSession(c)
  \/ FindAccount(c) \/ CreateInsert(c)
  \/ BalanceLoad(c) \/ BalanceStore(c) \/ TransactionInsert(c)
  \/ ThreadReply(c)

ClientMove(c) == Connect(c) \/ SendRequest(c) \/ CloseClient(c)

ServerNext ==
  \/ MainStep \/ Start \/ TerminateHandler
  \/ \E c \in Connections : ThreadStep(c) \/ ClientMove(c)
  \/ Crash \/ Restart \/ Finished

\* The system runs main and the threads; clients, signals and the operator's
\* input come or do not.
ServerSpec ==
  /\ ServerInit /\ [][ServerNext]_serverVars
  /\ WF_serverVars(MainStep)
  /\ \A c \in Connections : WF_serverVars(ThreadStep(c))

---------------------------------------------------------------------------
(* Properties                                                              *)

\* The tables, the files and what the threads hold are well formed, crashes
\* and failed writes included.
ServerTypeOK ==
  /\ main \in MainStages /\ thread \in [Connections -> ThreadStages]
  /\ \A balances \in {accounts, disk.accounts} :
       /\ DOMAIN balances \subseteq Customers
       /\ balances \in [DOMAIN balances -> DWORD]
  /\ \A records \in {log, disk.transactions, acked} :
       records \in [DOMAIN records -> Transaction]
  /\ job \in [Connections -> Job \cup {NONE}]
  /\ request \in [Connections -> Request \cup {NONE}] /\ sent \in [Connections -> Nat]
  /\ \A c \in Connections :
       /\ (job[c] # NONE) <=> (thread[c] \in HandlerStages)
       /\ (c \in sockets) <=> (\E i \in DOMAIN lstClientThreadInfo : lstClientThreadInfo[i] = c)

\* "The server gracefully shuts down" (ReadMe.md): a transaction a client has
\* been told of is in the log of this run of the server and of every later one,
\* unless the process has crashed or a file could not be read or written.
AcknowledgedKept ==
  ~faulty =>
    \A i \in DOMAIN acked :
      LET records == IF main \in {"load", "down"} THEN disk.transactions ELSE log
      IN  i \in DOMAIN records /\ records[i] = acked[i]

\* A charge of the account has been stored and not recorded.
Unrecorded(c, customer) == thread[c] = "record" /\ job[c].request.customer = customer

\* While no two connections charge one account (CustomersApart) and nothing has
\* failed, an account without such a charge balances, and what is saved balances:
\* main saves no charge that is half done, and both files as of one moment.
FilesBalanced ==
  ~faulty =>
    /\ \A customer \in DOMAIN accounts :
         (\A c \in Connections : ~Unrecorded(c, customer)) =>
           accounts[customer] = LedgerOf(log, customer) % DwordMod
    /\ main \notin {"open", "write"} => Balanced(disk.accounts, disk.transactions)

\* Even after crashes in the middle of a save and writes that failed, the log
\* that is loaded has the IDs 1 .. n, so that size() + 1 is free.
LoadedIDsSequential == DOMAIN log = 1 .. Cardinality(DOMAIN log)

\* The socket a thread receives on is not deleted under it.  (A session whose
\* client ID was given twice names another thread's socket, for which the joins
\* promise nothing; client IDs are unique here.)
SocketsOutliveThreads ==
  \A c \in Connections : thread[c] \in Running => c \in sockets

\* A signal leads to the end of main, whatever the clients do or leave undone,
\* once the operator has typed the port.
ShutdownCompletes ==
  (g_bTerminate /\ main \notin {"load", "start"}) ~> (main = "down")

\* A request is answered, whatever the handler makes of it, unless the server
\* ends, its client goes, or its session is not found: it has none, or another
\* thread was changing the table under the unlocked find.
RequestsAnswered ==
  \A c \in Connections : asked[c] ~> (~asked[c] \/ g_bTerminate \/ c \in missed)

---------------------------------------------------------------------------
(* The inductive invariant                                                 *)

\* The list of threads has each once, with its socket; it is empty before the
\* first accept and once the last thread has been joined.  A handler works for
\* a customer that has what its stage needs, and has the records it reports.
ThreadsInv ==
  /\ lstClientThreadInfo \in Seq(Connections)
  /\ \A i, j \in DOMAIN lstClientThreadInfo :
       lstClientThreadInfo[i] = lstClientThreadInfo[j] => i = j
  /\ main = "join" => lstClientThreadInfo # <<>>
  /\ main \notin {"serve", "accept", "stop", "join"} => lstClientThreadInfo = <<>>
  /\ \A c \in Connections :
       /\ thread[c] = "none" => c \notin sockets
       /\ job[c] # NONE => job[c].id = 0 \/ job[c].id \in DOMAIN log
       /\ thread[c] = "create" => IsValidCustomerID(job[c].request.customer)
       /\ thread[c] \in {"load", "store", "record"} =>
            /\ job[c].request.customer \in DOMAIN accounts
            /\ job[c].request.type \in TransactionTypes

\* A save that has met no error has written what the iterator has passed; one
\* that has met an error has left the transactions with the IDs 1 .. n.
SaveInv ==
  /\ DOMAIN disk = Files /\ file \in Files
  /\ LogOK(disk.transactions) /\ Sequential(disk.transactions)
  /\ main = "write" =>
       /\ last = 0 - 1 \/ last \in DOMAIN Table(file)
       /\ good => /\ DOMAIN disk[file] = {k \in DOMAIN Table(file) : k <= last}
                  /\ \A k \in DOMAIN disk[file] : disk[file][k] = Table(file)[k]
  /\ ~faulty =>
       /\ main = "write" => good
       /\ main \in {"open", "write"} /\ file = "transactions" => disk.accounts = accounts
       /\ main = "return" => disk.accounts = accounts /\ disk.transactions = log

\* The records of the log, and those on disk, have their accounts.
RecordsInv ==
  ~faulty =>
    /\ RecordsHaveAccounts(accounts, log)
    /\ main \notin {"open", "write"} => RecordsHaveAccounts(disk.accounts, disk.transactions)

ServerInv ==
  /\ ServerTypeOK /\ TablesWellFormed
  /\ SocketsOutliveThreads /\ ThreadsInv
  /\ SaveInv /\ RecordsInv /\ AcknowledgedKept

\* No two connections ask to charge one account.
ChargedBy(c) ==
  LET requests == UNION {Menu[c][n] : n \in DOMAIN Menu[c]}
  IN  {r.customer : r \in {q \in requests : q.type \in TransactionTypes}}

CustomersApart == \A c, d \in Connections : c # d => ChargedBy(c) \cap ChargedBy(d) = {}

\* With that, what a handler has loaded is still the balance when it stores, and
\* a charge stored is what the record it has not added yet will say.
BooksInv ==
  /\ FilesBalanced
  /\ \A c \in Connections :
       /\ request[c] # NONE /\ request[c].type \in TransactionTypes =>
            request[c].customer \in ChargedBy(c)
       /\ job[c] # NONE /\ job[c].request.type \in TransactionTypes =>
            job[c].request.customer \in ChargedBy(c)
       /\ thread[c] = "store" => job[c].value = accounts[job[c].request.customer]
       /\ ~faulty /\ thread[c] = "record" =>
            LET r == job[c].request
            IN  accounts[r.customer] = Charged(r, LedgerOf(log, r.customer) % DwordMod)

=============================================================================
