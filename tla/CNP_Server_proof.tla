-------------------------- MODULE CNP_Server_proof --------------------------
(***************************************************************************)
(* Proofs about the life of the server: through accepts, signals, crashes, *)
(* failed writes and restarts the tables, the files and the list of        *)
(* threads fit together and what was acknowledged is kept; and as long as  *)
(* no two connections charge one account, the books that are saved and     *)
(* loaded balance.                                                         *)
(***************************************************************************)
EXTENDS CNP_Server, CNP_Bank_proof, SequenceTheorems

\* The steps of main between which threads run.
Serving == {"serve", "accept", "stop", "join"}

\* A thread that runs has its socket, so the list is not empty and main still
\* serves.
LEMMA RunningIsServing ==
  ASSUME ServerInv, NEW c \in Connections, thread[c] \in Running
  PROVE  main \in Serving /\ c \in sockets
  <1>1. c \in sockets
    BY DEF ServerInv, SocketsOutliveThreads
  <1>2. \E i \in DOMAIN lstClientThreadInfo : lstClientThreadInfo[i] = c
    BY <1>1 DEF ServerInv, ServerTypeOK
  <1>3. lstClientThreadInfo # <<>>
    BY <1>2
  <1> QED
    BY <1>1, <1>3 DEF ServerInv, ThreadsInv, Serving

\* Away from that, no thread has a job.
LEMMA NoJobs ==
  ASSUME ServerInv, main \notin Serving
  PROVE  \A c \in Connections : thread[c] \notin Running /\ job[c] = NONE
  <1>1. \A c \in Connections : thread[c] \notin Running
    BY RunningIsServing
  <1>2. \A c \in Connections : job[c] # NONE => thread[c] \in Running
    BY DEF ServerInv, ServerTypeOK, Running
  <1> QED
    BY <1>1, <1>2

---------------------------------------------------------------------------
(* Steps outside the handlers and the save                                 *)

\* A step that leaves the tables, the files, the threads and their list alone.
LEMMA QuietStep ==
  ASSUME ServerInv,
         UNCHANGED <<bank, lstClientThreadInfo, thread, job, sockets, diskVars, acked, faulty>>,
         request' \in [Connections -> Request \cup {NONE}], sent' \in [Connections -> Nat],
         \/ main' = main
         \/ main' \in {"serve", "accept", "stop"} /\ main \in Serving \cup {"start"}
         \/ main = "down" /\ main' = "load"
  PROVE  ServerInv'
  <1> USE DEF Serving, bank, diskVars
  <1>1. ServerTypeOK' /\ TablesWellFormed' /\ SocketsOutliveThreads'
    BY DEF ServerInv, ServerTypeOK, TablesWellFormed, SocketsOutliveThreads, MainStages
  <1>2. ThreadsInv'
    BY DEF ServerInv, ThreadsInv
  <1>3. SaveInv'
    BY DEF ServerInv, SaveInv, Table
  <1>4. RecordsInv' /\ AcknowledgedKept'
    BY DEF ServerInv, RecordsInv, AcknowledgedKept
  <1> QED
    BY <1>1, <1>2, <1>3, <1>4 DEF ServerInv

\* What a client sends is on its menu.
LEMMA MenuRequests ==
  ASSUME ServerInv, NEW c \in Connections, SendRequest(c)
  PROVE  /\ sent[c] + 1 \in DOMAIN Menu[c]
         /\ \A r \in Menu[c][sent[c] + 1] : r \in Request
  <1>1. sent[c] \in Nat /\ sent[c] < Len(Menu[c])
    BY DEF ServerInv, ServerTypeOK, SendRequest
  <1>2. Menu[c] \in Seq(SUBSET Request)
    BY ServerAssumption
  <1>3. sent[c] + 1 \in DOMAIN Menu[c]
    BY <1>1, <1>2
  <1> QED
    BY <1>2, <1>3

\* The steps of main between two accepts, of the clients, of the operator.
LEMMA QuietSteps ==
  ASSUME ServerInv,
         \/ Start \/ TerminateHandler \/ ServeTest \/ Restart
         \/ \E c \in Connections : Connect(c) \/ SendRequest(c) \/ CloseClient(c)
  PROVE  ServerInv'
  <1> USE DEF Serving, threadVars, clientVars, historyVars, mainVars
  <1>0. request \in [Connections -> Request \cup {NONE}] /\ sent \in [Connections -> Nat]
    BY DEF ServerInv, ServerTypeOK
  <1>1. CASE Start \/ TerminateHandler \/ ServeTest \/ Restart
    BY <1>0, <1>1, QuietStep DEF Start, TerminateHandler, ServeTest, Restart
  <1>2. ASSUME NEW c \in Connections, Connect(c) \/ CloseClient(c)
        PROVE  ServerInv'
    BY <1>0, <1>2, QuietStep DEF Connect, CloseClient, Leave
  <1>3. ASSUME NEW c \in Connections, SendRequest(c)
        PROVE  ServerInv'
    <2>1. PICK r \in Menu[c][sent[c] + 1] : request' = [request EXCEPT ![c] = r]
      BY <1>3 DEF SendRequest
    <2>2. r \in Request
      BY <1>3, MenuRequests
    <2>3. request' \in [Connections -> Request \cup {NONE}] /\ sent' \in [Connections -> Nat]
      BY <1>0, <1>3, <2>1, <2>2 DEF SendRequest
    <2> QED
      BY <1>3, <2>3, QuietStep DEF SendRequest
  <1> QED
    BY <1>1, <1>2, <1>3

\* An empty table.
LEMMA EmptyTable ==
  /\ DOMAIN EmptyMap = {} /\ BalancesOK(EmptyMap) /\ LogOK(EmptyMap) /\ Sequential(EmptyMap)
  /\ EmptyMap \in [{} -> Transaction]
  <1>1. IsFiniteSet({}) /\ Cardinality({}) = 0
    BY FS_EmptySet
  <1> QED
    BY <1>1 DEF EmptyMap, BalancesOK, LogOK, Sequential

\* The part of a file that is loaded before a read fails.
LEMMA PrefixFacts ==
  ASSUME NEW table, DOMAIN table \subseteq Nat, NEW part \in {table} \cup Prefixes(table)
  PROVE  /\ DOMAIN part \subseteq DOMAIN table
         /\ \A k \in DOMAIN part : part[k] = table[k]
         /\ part = table \/ part = [k \in DOMAIN part |-> part[k]]
         /\ Sequential(table) /\ IsFiniteSet(DOMAIN table) => Sequential(part)
  <1>1. CASE part = table
    BY <1>1
  <1>2. ASSUME NEW n \in DOMAIN table, part = [k \in {i \in DOMAIN table : i < n} |-> table[k]]
        PROVE  /\ DOMAIN part \subseteq DOMAIN table
               /\ \A k \in DOMAIN part : part[k] = table[k]
               /\ part = [k \in DOMAIN part |-> part[k]]
               /\ Sequential(table) /\ IsFiniteSet(DOMAIN table) => Sequential(part)
    <2>1. DOMAIN part = {i \in DOMAIN table : i < n} /\ n \in Nat
      BY <1>2
    <2>2. ASSUME Sequential(table), IsFiniteSet(DOMAIN table)
          PROVE  Sequential(part)
      <3> DEFINE m == Cardinality(DOMAIN table)
      <3>1. m \in Nat /\ DOMAIN table = 1 .. m /\ n \in 1 .. m
        BY <2>2, FS_CardinalityType DEF Sequential
      <3> HIDE DEF m
      <3>2. DOMAIN part = 1 .. (n - 1) /\ n - 1 \in Nat
        BY <2>1, <3>1
      <3>3. Cardinality(1 .. (n - 1)) = n - 1
        BY <3>2, FS_Interval
      <3> QED
        BY <3>2, <3>3 DEF Sequential
    <2> QED
      BY <1>2, <2>1, <2>2
  <1> QED
    BY <1>1, <1>2 DEF Prefixes

\* What the files hold, or the first part of it where a read fails.
LEMMA LoadStep ==
  ASSUME ServerInv, LoadServerDB
  PROVE  ServerInv'
  <1>1. /\ accounts' \in {disk.accounts} \cup Prefixes(disk.accounts)
        /\ log' \in {disk.transactions} \cup Prefixes(disk.transactions)
        /\ faulty' = (faulty \/ accounts' # disk.accounts \/ log' # disk.transactions)
    BY DEF LoadServerDB
  <1>2. /\ main = "load" /\ main' = "start"
        /\ UNCHANGED <<lstClientThreadInfo, thread, job, sockets, request, sent, disk, file, last,
                       good, acked>>
    BY DEF LoadServerDB, threadVars, clientVars, diskVars
  <1>3. /\ DOMAIN disk.accounts \subseteq Customers /\ BalancesOK(disk.accounts)
        /\ LogOK(disk.transactions) /\ Sequential(disk.transactions)
        /\ disk.transactions \in [DOMAIN disk.transactions -> Transaction]
    BY DEF ServerInv, ServerTypeOK, SaveInv, BalancesOK
  <1>4. TablesWellFormed'
    <2>1. DOMAIN disk.accounts \subseteq Nat /\ DOMAIN disk.transactions \subseteq Nat
      <3>1. Cardinality(DOMAIN disk.transactions) \in Nat
        BY <1>3, FS_CardinalityType DEF LogOK
      <3> QED
        BY <1>3, <3>1, BankAssumption DEF Sequential, QWORD
    <2>2. DOMAIN accounts' \subseteq Customers /\ BalancesOK(accounts')
      <3>1. /\ DOMAIN accounts' \subseteq DOMAIN disk.accounts
            /\ \A k \in DOMAIN accounts' : accounts'[k] = disk.accounts[k]
            /\ accounts' = disk.accounts \/ accounts' = [k \in DOMAIN accounts' |-> accounts'[k]]
        BY <1>1, <2>1, PrefixFacts
      <3> QED
        BY <1>3, <3>1 DEF BalancesOK
    <2>3. LogOK(log') /\ Sequential(log')
      <3>1. IsFiniteSet(DOMAIN disk.transactions)
        BY <1>3 DEF LogOK
      <3>2. /\ DOMAIN log' \subseteq DOMAIN disk.transactions
            /\ \A k \in DOMAIN log' : log'[k] = disk.transactions[k]
            /\ log' = disk.transactions \/ log' = [k \in DOMAIN log' |-> log'[k]]
            /\ Sequential(log')
        BY <1>1, <1>3, <2>1, <3>1, PrefixFacts
      <3>3. IsFiniteSet(DOMAIN log')
        BY <3>1, <3>2, FS_Subset
      <3> QED
        BY <1>3, <3>2, <3>3 DEF LogOK
    <2> QED
      BY <2>2, <2>3 DEF TablesWellFormed
  <1>5. ServerTypeOK' /\ SocketsOutliveThreads'
    BY <1>2, <1>4
       DEF ServerInv, ServerTypeOK, TablesWellFormed, BalancesOK, LogOK, SocketsOutliveThreads,
           MainStages
  <1>6. ThreadsInv'
    <2>1. \A c \in Connections : job[c] = NONE /\ thread[c] \notin Running
      BY <1>2, NoJobs DEF Serving
    <2> QED
      BY <1>2, <2>1 DEF ServerInv, ThreadsInv, Running, HandlerStages
  <1>7. SaveInv'
    BY <1>2 DEF ServerInv, SaveInv
  <1>8. ~faulty' => ~faulty /\ accounts' = disk.accounts /\ log' = disk.transactions
    BY <1>1
  <1>9. RecordsInv' /\ AcknowledgedKept'
    BY <1>2, <1>8 DEF ServerInv, RecordsInv, AcknowledgedKept
  <1> QED
    BY <1>4, <1>5, <1>6, <1>7, <1>9 DEF ServerInv

\* A thread that is accepted is new in the list.
LEMMA AcceptStep ==
  ASSUME ServerInv, Accept
  PROVE  ServerInv'
  <1>0. /\ main = "accept" /\ main' = "serve"
        /\ UNCHANGED <<bank, job, request, sent, disk, file, last, good, acked, faulty>>
    BY DEF Accept, clientVars, diskVars, historyVars
  <1>1. CASE UNCHANGED <<thread, sockets, lstClientThreadInfo>>
    BY <1>0, <1>1, QuietStep DEF ServerInv, ServerTypeOK, diskVars, Serving
  <1>2. ASSUME NEW c \in Backlog,
               thread' = [thread EXCEPT ![c] = "test"], sockets' = sockets \cup {c},
               lstClientThreadInfo' = <<c>> \o lstClientThreadInfo
        PROVE  ServerInv'
    <2> DEFINE list == lstClientThreadInfo
    <2>1. c \in Connections /\ thread[c] = "none" /\ c \notin sockets /\ list \in Seq(Connections)
      BY DEF Backlog, ServerInv, ThreadsInv
    <2>2. /\ list' \in Seq(Connections) /\ DOMAIN list' = 1 .. (Len(list) + 1)
          /\ DOMAIN list = 1 .. Len(list) /\ Len(list) \in Nat
          /\ list'[1] = c /\ \A i \in DOMAIN list : list'[i + 1] = list[i]
      BY <1>2, <2>1
    <2>3. \A d \in Connections : (d \in sockets) <=> (\E i \in DOMAIN list : list[i] = d)
      BY DEF ServerInv, ServerTypeOK
    <2>4. \A i \in DOMAIN list' : i = 1 \/ (i - 1 \in DOMAIN list /\ list'[i] = list[i - 1])
      <3>1. ASSUME NEW i \in DOMAIN list', i # 1
            PROVE  i - 1 \in DOMAIN list /\ (i - 1) + 1 = i
        BY <2>2, <3>1
      <3> QED
        BY <2>2, <3>1
    <2>5. \A i \in DOMAIN list : list[i] # c
      BY <2>1, <2>3
    <2>6. \A d \in Connections : (d \in sockets') <=> (\E i \in DOMAIN list' : list'[i] = d)
      <3>1. ASSUME NEW d \in Connections, d \in sockets'
            PROVE  \E i \in DOMAIN list' : list'[i] = d
        <4>1. CASE d = c
          BY <2>2, <4>1
        <4>2. CASE d \in sockets
          <5>1. PICK i \in DOMAIN list : list[i] = d
            BY <2>3, <4>2
          <5>2. i + 1 \in DOMAIN list' /\ list'[i + 1] = d
            BY <2>2, <5>1
          <5> QED
            BY <5>2
        <4> QED
          BY <1>2, <3>1, <4>1, <4>2
      <3>2. ASSUME NEW d \in Connections, NEW i \in DOMAIN list', list'[i] = d
            PROVE  d \in sockets'
        BY <1>2, <2>2, <2>3, <2>4, <3>2
      <3> QED
        BY <3>1, <3>2
    <2>7. \A i, j \in DOMAIN list' : list'[i] = list'[j] => i = j
      <3>1. ASSUME NEW i \in DOMAIN list', NEW j \in DOMAIN list', list'[i] = list'[j]
            PROVE  i = j
        <4>1. CASE i = 1 \/ j = 1
          BY <2>2, <2>4, <2>5, <3>1, <4>1
        <4>2. CASE i # 1 /\ j # 1
          <5>1. /\ i - 1 \in DOMAIN list /\ j - 1 \in DOMAIN list /\ list[i - 1] = list[j - 1]
            BY <2>4, <3>1, <4>2
          <5>2. i - 1 = j - 1
            BY <5>1 DEF ServerInv, ThreadsInv
          <5> QED
            BY <2>2, <5>2
        <4> QED
          BY <4>1, <4>2
      <3> QED
        BY <3>1
    <2> HIDE DEF list
    <2>8. thread \in [Connections -> ThreadStages]
      BY DEF ServerInv, ServerTypeOK
    <2>9. \A d \in Connections : thread'[d] = IF d = c THEN "test" ELSE thread[d]
      BY <1>2, <2>1, <2>8
    <2>10. ServerTypeOK'
      <3>1. thread' \in [Connections -> ThreadStages]
        BY <1>2, <2>1, <2>8 DEF ThreadStages, Running
      <3>2. job[c] = NONE
        BY <2>1 DEF ServerInv, ServerTypeOK, HandlerStages
      <3>3. "test" \notin HandlerStages
        BY DEF HandlerStages
      <3> QED
        BY <1>0, <2>6, <2>9, <3>1, <3>2, <3>3
           DEF ServerInv, ServerTypeOK, MainStages, bank, list
    <2>11. TablesWellFormed' /\ SaveInv' /\ RecordsInv' /\ AcknowledgedKept'
      BY <1>0 DEF ServerInv, TablesWellFormed, SaveInv, RecordsInv, AcknowledgedKept, bank
    <2>12. SocketsOutliveThreads'
      BY <1>2, <2>9 DEF ServerInv, SocketsOutliveThreads
    <2>13. ThreadsInv'
      BY <1>0, <1>2, <2>2, <2>7, <2>9 DEF ServerInv, ThreadsInv, list, bank
    <2> QED
      BY <2>10, <2>11, <2>12, <2>13 DEF ServerInv
  <1> QED
    BY <1>1, <1>2 DEF Accept

---------------------------------------------------------------------------
(* The steps of a thread                                                   *)

\* What a handler holds fits its stage.
Stage(s, j, balances, records) ==
  /\ j # NONE => j.id = 0 \/ j.id \in DOMAIN records
  /\ s = "create" => IsValidCustomerID(j.request.customer)
  /\ s \in {"load", "store", "record"} =>
       j.request.customer \in DOMAIN balances /\ j.request.type \in TransactionTypes

\* A thread goes from one of its stages to another; no account goes, and no
\* record of the log or of the acknowledged ones is lost.
LEMMA ThreadKeepsInv ==
  ASSUME ServerInv, NEW c \in Connections, thread[c] \in Running,
         NEW s \in Running \cup {"exited"}, thread' = [thread EXCEPT ![c] = s],
         UNCHANGED <<main, lstClientThreadInfo, sockets, sent, disk, file, faulty>>,
         request' \in [Connections -> Request \cup {NONE}],
         job' \in [Connections -> Job \cup {NONE}],
         \A d \in Connections \ {c} : job'[d] = job[d],
         (job'[c] # NONE) <=> (s \in HandlerStages),
         Stage(s, job'[c], accounts', log'),
         TablesWellFormed', DOMAIN accounts \subseteq DOMAIN accounts',
         \A i \in DOMAIN log : i \in DOMAIN log' /\ log'[i] = log[i],
         ~faulty => RecordsHaveAccounts(accounts', log'),
         acked' \in [DOMAIN acked' -> Transaction],
         ~faulty => \A i \in DOMAIN acked' : i \in DOMAIN log' /\ acked'[i] = log'[i]
  PROVE  ServerInv'
  <1>1. main \in Serving /\ c \in sockets
    BY RunningIsServing
  <1>2. thread \in [Connections -> ThreadStages] /\ Running \cup {"exited"} \subseteq ThreadStages
    BY DEF ServerInv, ServerTypeOK, ThreadStages
  <1>3. /\ thread' \in [Connections -> ThreadStages] /\ thread'[c] = s
        /\ \A d \in Connections \ {c} : thread'[d] = thread[d]
    BY <1>2
  <1>4. ServerTypeOK'
    BY <1>3 DEF ServerInv, ServerTypeOK, TablesWellFormed, BalancesOK, LogOK
  <1>5. SocketsOutliveThreads'
    BY <1>1, <1>3 DEF ServerInv, SocketsOutliveThreads
  <1>6. ThreadsInv'
    <2>1. "none" \notin Running \cup {"exited"}
      BY DEF Running, HandlerStages
    <2>2. ASSUME NEW d \in Connections \ {c}
          PROVE  /\ thread'[d] = "none" => d \notin sockets
                 /\ Stage(thread'[d], job'[d], accounts', log')
      BY <1>3 DEF ServerInv, ThreadsInv, Stage
    <2>3. ASSUME NEW d \in Connections
          PROVE  /\ thread'[d] = "none" => d \notin sockets
                 /\ Stage(thread'[d], job'[d], accounts', log')
      BY <1>3, <2>1, <2>2
    <2> QED
      BY <2>3 DEF ServerInv, ThreadsInv, Stage
  <1>7. SaveInv'
    BY <1>1 DEF ServerInv, SaveInv, Serving
  <1>8. RecordsInv' /\ AcknowledgedKept'
    BY <1>1 DEF ServerInv, RecordsInv, AcknowledgedKept, Serving
  <1> QED
    BY <1>4, <1>5, <1>6, <1>7, <1>8 DEF ServerInv

\* What the invariant says of the tables, the log and the jobs.
LEMMA ServerFacts ==
  ASSUME ServerInv
  PROVE  /\ TablesWellFormed
         /\ main \in Serving => (~faulty => /\ RecordsHaveAccounts(accounts, log)
                                          /\ \A i \in DOMAIN acked :
                                               i \in DOMAIN log /\ acked[i] = log[i])
         /\ acked \in [DOMAIN acked -> Transaction] /\ log \in [DOMAIN log -> Transaction]
         /\ job \in [Connections -> Job \cup {NONE}] /\ NONE \notin Job
         /\ request \in [Connections -> Request \cup {NONE}]
         /\ \A c \in Connections :
              /\ (job[c] # NONE) <=> (thread[c] \in HandlerStages)
              /\ Stage(thread[c], job[c], accounts, log)
  BY ServerAssumption
     DEF ServerInv, RecordsInv, AcknowledgedKept, Serving, ServerTypeOK, ThreadsInv, Stage

\* A thread goes on and leaves the tables and its job alone.
LEMMA GoesOn ==
  ASSUME ServerInv, NEW c \in Connections, thread[c] \in Running,
         NEW s \in Running \cup {"exited"}, Goto(c, s),
         UNCHANGED <<bank, main, lstClientThreadInfo, sockets, job, sent, disk, file, faulty,
                     acked>>,
         request' \in [Connections -> Request \cup {NONE}],
         thread[c] \in HandlerStages <=> s \in HandlerStages,
         Stage(s, job[c], accounts, log)
  PROVE  ServerInv'
  <1>1. main \in Serving
    BY RunningIsServing
  <1>2. TablesWellFormed' /\ UNCHANGED <<accounts, log>>
    BY DEF ServerInv, TablesWellFormed, bank
  <1> QED
    BY <1>1, <1>2, ServerFacts, ThreadKeepsInv DEF Goto

\* A thread takes a job, or drops the one it has.
LEMMA TakesJob ==
  ASSUME ServerInv, NEW c \in Connections, thread[c] \in Running,
         NEW s \in Running, Goto(c, s),
         UNCHANGED <<bank, main, lstClientThreadInfo, sockets, sent, disk, file, faulty, acked>>,
         request' \in [Connections -> Request \cup {NONE}],
         NEW j \in Job \cup {NONE}, job' = [job EXCEPT ![c] = j],
         (j # NONE) <=> (s \in HandlerStages),
         Stage(s, j, accounts, log)
  PROVE  ServerInv'
  <1>1. main \in Serving
    BY RunningIsServing
  <1>2. TablesWellFormed' /\ UNCHANGED <<accounts, log>>
    BY DEF ServerInv, TablesWellFormed, bank
  <1>3. /\ job' \in [Connections -> Job \cup {NONE}] /\ job'[c] = j
        /\ \A d \in Connections \ {c} : job'[d] = job[d]
    BY ServerFacts
  <1> QED
    BY <1>1, <1>2, <1>3, ServerFacts, ThreadKeepsInv DEF Goto

\* The loop's test, and the end of a connection.
LEMMA LoopSteps ==
  ASSUME ServerInv, NEW c \in Connections, ThreadTest(c) \/ ThreadHangup(c)
  PROVE  ServerInv'
  <1>1. /\ thread[c] \in {"test", "hangup"} /\ thread[c] \in Running \ HandlerStages
        /\ \E s \in {"test", "receive", "exited"} : Goto(c, s)
        /\ UNCHANGED <<bank, main, lstClientThreadInfo, sockets, job, sent, disk, file, faulty,
                       acked, request>>
    BY DEF ThreadTest, ThreadHangup, mainVars, clientVars, diskVars, historyVars, Running,
           HandlerStages
  <1>2. PICK s \in {"test", "receive", "exited"} : Goto(c, s)
    BY <1>1
  <1>3. s \in (Running \cup {"exited"}) \ HandlerStages /\ Stage(s, NONE, accounts, log)
    BY DEF Running, HandlerStages, Stage
  <1>4. job[c] = NONE
    BY <1>1, ServerFacts
  <1> QED
    BY <1>1, <1>2, <1>3, <1>4, ServerFacts, GoesOn

\* A request that has arrived becomes the handler's job.
LEMMA ReceiveStep ==
  ASSUME ServerInv, NEW c \in Connections, ThreadReceive(c)
  PROVE  ServerInv'
  <1>1. /\ thread[c] = "receive" /\ thread[c] \in Running \ HandlerStages
        /\ UNCHANGED <<bank, main, lstClientThreadInfo, sockets, sent, disk, file, faulty, acked>>
    BY DEF ThreadReceive, mainVars, diskVars, historyVars, Running, HandlerStages
  <1>2. CASE Dispatch(c)
    <2> DEFINE j == [request |-> request[c], value |-> 0, id |-> 0]
    <2>1. /\ request[c] \in Request /\ job' = [job EXCEPT ![c] = j]
          /\ request' \in [Connections -> Request \cup {NONE}]
      BY <1>2, ServerFacts DEF Dispatch
    <2>2. 0 \in DWORD
      BY WidthAssumption DEF DWORD
    <2>3. j \in Job /\ j.id = 0 /\ j # NONE
      BY <2>1, <2>2, ServerFacts DEF Job
    <2> HIDE DEF j
    <2>4. PICK s \in {"connect", "find"} : Goto(c, s)
      BY <1>2 DEF Dispatch
    <2>5. s \in Running /\ s \in HandlerStages /\ Stage(s, j, accounts, log)
      BY <2>3 DEF Running, HandlerStages, Stage
    <2> QED
      BY <1>1, <2>1, <2>3, <2>4, <2>5, TakesJob
  <1>3. ASSUME NEW s \in {"test", "hangup"}, Goto(c, s), UNCHANGED <<job, request>>
        PROVE  ServerInv'
    <2>1. s \in (Running \cup {"exited"}) \ HandlerStages /\ Stage(s, NONE, accounts, log)
      BY DEF Running, HandlerStages, Stage
    <2>2. job[c] = NONE
      BY <1>1, ServerFacts
    <2> QED
      BY <1>1, <1>3, <2>1, <2>2, ServerFacts, GoesOn
  <1> QED
    BY <1>2, <1>3 DEF ThreadReceive

\* A connect; the lookup of the session.
LEMMA SessionSteps ==
  ASSUME ServerInv, NEW c \in Connections,
         ThreadConnect(c) \/ FindSession(c) \/ MissSession(c)
  PROVE  ServerInv'
  <1>1. /\ thread[c] \in Running /\ thread[c] \in HandlerStages
        /\ UNCHANGED <<bank, main, lstClientThreadInfo, sockets, sent, disk, file, faulty, acked,
                       request>>
    BY DEF ThreadConnect, FindSession, MissSession, mainVars, clientVars, diskVars, historyVars,
           Running, HandlerStages
  <1>2. CASE ThreadConnect(c) \/ FindSession(c)
    <2>1. PICK s \in {"reply", "account"} : Goto(c, s) /\ job' = job
      BY <1>2 DEF ThreadConnect, FindSession
    <2>2. s \in Running /\ s \in HandlerStages /\ Stage(s, job[c], accounts, log)
      BY ServerFacts DEF Running, HandlerStages, Stage
    <2> QED
      BY <1>1, <2>1, <2>2, ServerFacts, GoesOn
  <1>3. CASE MissSession(c)
    <2>1. job' = [job EXCEPT ![c] = NONE] /\ Goto(c, "test")
      BY <1>3 DEF MissSession
    <2>2. "test" \in Running \ HandlerStages /\ Stage("test", NONE, accounts, log)
      BY DEF Running, HandlerStages, Stage
    <2> QED
      BY <1>1, <2>1, <2>2, ServerFacts, TakesJob
  <1> QED
    BY <1>2, <1>3

\* The lookup of the account: a charge goes on with one that is there.
LEMMA AccountStep ==
  ASSUME ServerInv, NEW c \in Connections, FindAccount(c)
  PROVE  ServerInv'
  <1> DEFINE r == job[c].request
  <1>1. /\ thread[c] \in Running /\ thread[c] \in HandlerStages
        /\ UNCHANGED <<bank, main, lstClientThreadInfo, sockets, job, sent, disk, file, faulty,
                       acked, request>>
    BY DEF FindAccount, mainVars, clientVars, diskVars, historyVars, Running, HandlerStages
  <1>2. "DEPOSIT" \in TransactionTypes
    BY DEF TransactionTypes
  <1>3. PICK s \in {"reply", "load", "create"} :
          /\ Goto(c, s)
          /\ s = "create" => IsValidCustomerID(r.customer)
          /\ s = "load" => r.customer \in DOMAIN accounts /\ r.type \in TransactionTypes
    BY <1>2 DEF FindAccount, AfterAccount
  <1> HIDE DEF r
  <1>4. s \in Running /\ s \in HandlerStages /\ Stage(s, job[c], accounts, log)
    BY <1>3, ServerFacts DEF Running, HandlerStages, Stage, r
  <1> QED
    BY <1>1, <1>3, <1>4, ServerFacts, GoesOn

\* The job of a handler.
LEMMA JobFacts ==
  ASSUME ServerInv, NEW c \in Connections, thread[c] \in HandlerStages
  PROVE  /\ thread[c] \in Running /\ main \in Serving
         /\ job[c] \in Job /\ job[c].request \in Request /\ job[c].value \in DWORD
         /\ job[c].request.customer \in Customers \cup {INVALID_CUSTOMER_ID}
         /\ job[c].request.amount \in DWORD
         /\ thread[c] = "create" => job[c].request.customer \in Customers
         /\ thread[c] \in {"load", "store", "record"} =>
              /\ job[c].request.customer \in DOMAIN accounts
              /\ job[c].request.customer \in Customers
              /\ job[c].request.type \in TransactionTypes
  <1>1. thread[c] \in Running
    BY DEF Running
  <1>2. job[c] \in Job /\ Stage(thread[c], job[c], accounts, log)
    BY ServerFacts
  <1>3. DOMAIN accounts \subseteq Customers
    BY ServerFacts DEF TablesWellFormed
  <1>4. job[c].request \in Request /\ job[c].value \in DWORD
    BY <1>2 DEF Job
  <1>5. /\ job[c].request.customer \in Customers \cup {INVALID_CUSTOMER_ID}
        /\ job[c].request.amount \in DWORD
    BY <1>4 DEF Request
  <1> QED
    BY <1>1, <1>2, <1>3, <1>4, <1>5, RunningIsServing DEF Stage, IsValidCustomerID

\* An account that is inserted takes none away.
LEMMA CreateStep ==
  ASSUME ServerInv, NEW c \in Connections, CreateInsert(c)
  PROVE  ServerInv'
  <1> DEFINE customer == job[c].request.customer
  <1>1. /\ thread[c] = "create" /\ thread[c] \in HandlerStages /\ Goto(c, "reply")
        /\ "reply" \in Running /\ "reply" \in HandlerStages
        /\ accounts' = Insert(accounts, customer, 0)
        /\ UNCHANGED <<log, main, lstClientThreadInfo, sockets, job, sent, disk, file, faulty,
                       acked, request>>
    BY DEF CreateInsert, mainVars, clientVars, diskVars, historyVars, Running, HandlerStages
  <1>2. customer \in Customers
    BY <1>1, JobFacts
  <1> HIDE DEF customer
  <1>3. 0 \in DWORD
    BY WidthAssumption DEF DWORD
  <1>4. DOMAIN accounts' = DOMAIN accounts \cup {customer} /\ BalancesOK(accounts')
    BY <1>1, <1>3, ServerFacts DEF Insert, TablesWellFormed, BalancesOK
  <1>5. TablesWellFormed'
    BY <1>1, <1>2, <1>4, ServerFacts DEF TablesWellFormed
  <1>6. ~faulty => RecordsHaveAccounts(accounts', log')
    BY <1>1, <1>4, JobFacts, ServerFacts DEF RecordsHaveAccounts
  <1>7. Stage("reply", job'[c], accounts', log')
    BY <1>1, ServerFacts DEF Stage
  <1> QED
    BY <1>1, <1>4, <1>5, <1>6, <1>7, JobFacts, ServerFacts, ThreadKeepsInv DEF Goto

\* A balance is loaded.
LEMMA BalanceLoadStep ==
  ASSUME ServerInv, NEW c \in Connections, BalanceLoad(c)
  PROVE  ServerInv'
  <1> DEFINE value == accounts[job[c].request.customer]
             j     == [job[c] EXCEPT !.value = value]
  <1>1. /\ thread[c] = "load" /\ thread[c] \in HandlerStages /\ Goto(c, "store")
        /\ "store" \in Running /\ "store" \in HandlerStages
        /\ job' = [job EXCEPT ![c] = j]
        /\ UNCHANGED <<bank, main, lstClientThreadInfo, sockets, sent, disk, file, faulty, acked,
                       request>>
    BY ServerFacts
       DEF BalanceLoad, mainVars, clientVars, diskVars, historyVars, Running, HandlerStages
  <1>2. value \in DWORD
    BY <1>1, JobFacts, ServerFacts DEF TablesWellFormed, BalancesOK
  <1> HIDE DEF value
  <1>3. j \in Job /\ j.request = job[c].request /\ j.id = job[c].id
    BY <1>1, <1>2, JobFacts DEF Job
  <1> HIDE DEF j
  <1>4. job[c] # NONE /\ Stage("store", j, accounts, log)
    BY <1>1, <1>3, ServerFacts DEF Stage
  <1> QED
    BY <1>1, <1>3, <1>4, JobFacts, ServerFacts, TakesJob

\* A balance is stored.
LEMMA BalanceStoreStep ==
  ASSUME ServerInv, NEW c \in Connections, BalanceStore(c)
  PROVE  ServerInv'
  <1> DEFINE r     == job[c].request
             value == Charged(r, job[c].value)
  <1>1. /\ thread[c] = "store" /\ thread[c] \in HandlerStages /\ Goto(c, "record")
        /\ "record" \in Running /\ "record" \in HandlerStages
        /\ accounts' = [accounts EXCEPT ![r.customer] = value]
        /\ UNCHANGED <<log, main, lstClientThreadInfo, sockets, job, sent, disk, file, faulty,
                       acked, request>>
    BY DEF BalanceStore, mainVars, clientVars, diskVars, historyVars, Running, HandlerStages
  <1>2. value \in DWORD
    BY <1>1, JobFacts, BalanceUndo DEF Charged
  <1> HIDE DEF value
  <1>3. DOMAIN accounts' = DOMAIN accounts /\ BalancesOK(accounts')
    BY <1>1, <1>2, ServerFacts DEF TablesWellFormed, BalancesOK
  <1>4. TablesWellFormed'
    BY <1>1, <1>3, ServerFacts DEF TablesWellFormed
  <1>5. ~faulty => RecordsHaveAccounts(accounts', log')
    BY <1>1, <1>3, JobFacts, ServerFacts DEF RecordsHaveAccounts
  <1>6. Stage("record", job'[c], accounts', log')
    BY <1>1, <1>3, JobFacts, ServerFacts DEF Stage
  <1> QED
    BY <1>1, <1>3, <1>4, <1>5, <1>6, JobFacts, ServerFacts, ThreadKeepsInv DEF Goto

\* A record is added; the handler holds its ID.
LEMMA TransactionStep ==
  ASSUME ServerInv, NEW c \in Connections, TransactionInsert(c)
  PROVE  ServerInv'
  <1> DEFINE r == job[c].request
             j == [job[c] EXCEPT !.id = NextID]
  <1>1. /\ thread[c] = "record" /\ thread[c] \in HandlerStages /\ Goto(c, "reply")
        /\ "reply" \in Running /\ "reply" \in HandlerStages
        /\ Record(r.customer, r.type, r.amount) /\ job' = [job EXCEPT ![c] = j]
        /\ UNCHANGED <<accounts, main, lstClientThreadInfo, sockets, sent, disk, file, faulty,
                       acked, request>>
    BY ServerFacts
       DEF TransactionInsert, mainVars, clientVars, diskVars, historyVars, Running, HandlerStages
  <1>2. /\ NextID \in Nat \ {0} /\ DOMAIN log' = DOMAIN log \cup {NextID}
        /\ log'[NextID] = TRANSACTION_INFO(r.amount, r.type, r.customer)
        /\ \A i \in DOMAIN log : log'[i] = log[i]
        /\ LogOK(log') /\ Sequential(log')
    BY <1>1, JobFacts, ServerFacts, RecordFacts
  <1>3. j \in Job /\ j.id = NextID
    BY <1>1, <1>2, JobFacts DEF Job
  <1> HIDE DEF j
  <1>4. /\ job' \in [Connections -> Job \cup {NONE}] /\ job'[c] = j /\ j # NONE
        /\ \A d \in Connections \ {c} : job'[d] = job[d]
    BY <1>1, <1>3, ServerFacts
  <1>5. TablesWellFormed'
    BY <1>1, <1>2, ServerFacts DEF TablesWellFormed
  <1>6. ~faulty => RecordsHaveAccounts(accounts', log')
    BY <1>1, <1>2, JobFacts, ServerFacts DEF RecordsHaveAccounts, TRANSACTION_INFO
  <1>7. Stage("reply", job'[c], accounts', log')
    BY <1>2, <1>3, <1>4 DEF Stage
  <1>8. ~faulty => \A i \in DOMAIN acked' : i \in DOMAIN log' /\ acked'[i] = log'[i]
    BY <1>1, <1>2, JobFacts, ServerFacts
  <1>9. request' \in [Connections -> Request \cup {NONE}] /\ acked' \in [DOMAIN acked' -> Transaction]
    BY <1>1, ServerFacts
  <1> HIDE DEF r
  <1> QED
    BY <1>1, <1>2, <1>4, <1>5, <1>6, <1>7, <1>8, <1>9, JobFacts, ThreadKeepsInv DEF Goto

\* A transaction that is acknowledged is in the log.
LEMMA ReplyStep ==
  ASSUME ServerInv, NEW c \in Connections, ThreadReply(c)
  PROVE  ServerInv'
  <1>0. /\ UNCHANGED <<bank, main, lstClientThreadInfo, sockets, disk, file, faulty, request>>
        /\ thread[c] = "reply" /\ thread[c] \in Running /\ job' = [job EXCEPT ![c] = NONE]
        /\ thread' = [thread EXCEPT ![c] = "test"] /\ "test" \in Running \ HandlerStages
        /\ sent' = sent
        /\ \/ acked' = acked
           \/ job[c].id # 0 /\ acked' = Insert(acked, job[c].id, log[job[c].id])
    BY DEF ThreadReply, Goto, mainVars, diskVars, Running, HandlerStages
  <1>1. main \in Serving
    BY <1>0, RunningIsServing
  <1>2. TablesWellFormed' /\ UNCHANGED <<accounts, log>>
    BY <1>0 DEF ServerInv, TablesWellFormed, bank
  <1>3. /\ job' \in [Connections -> Job \cup {NONE}] /\ job'[c] = NONE
        /\ \A d \in Connections \ {c} : job'[d] = job[d]
    BY <1>0, ServerFacts
  <1>4. /\ acked' \in [DOMAIN acked' -> Transaction]
        /\ ~faulty => \A i \in DOMAIN acked' : i \in DOMAIN log' /\ acked'[i] = log'[i]
    <2>1. CASE acked' = acked
      BY <1>1, <1>2, <2>1, ServerFacts
    <2>2. CASE job[c].id # 0 /\ acked' = Insert(acked, job[c].id, log[job[c].id])
      <3>1. job[c].id \in DOMAIN log
        BY <1>0, <2>2, ServerFacts DEF Stage, HandlerStages
      <3>2. log[job[c].id] \in Transaction
        BY <3>1, ServerFacts
      <3> QED
        BY <1>1, <1>2, <2>2, <3>1, <3>2, ServerFacts DEF Insert
    <2> QED
      BY <1>0, <2>1, <2>2
  <1> QED
    BY <1>0, <1>1, <1>2, <1>3, <1>4, ServerFacts, ThreadKeepsInv DEF Stage

---------------------------------------------------------------------------
(* Shutdown                                                                *)

\* main tells the first thread of the list to end, or goes on to the save
\* when there is none.
LEMMA StopStep ==
  ASSUME ServerInv, Stop
  PROVE  ServerInv'
  <1>0. /\ main = "stop"
        /\ UNCHANGED <<bank, lstClientThreadInfo, thread, job, sockets, request, sent, disk, last,
                       good, acked, faulty>>
        /\ \/ lstClientThreadInfo # <<>> /\ main' = "join" /\ UNCHANGED file
           \/ lstClientThreadInfo = <<>> /\ main' = "open" /\ file' = "accounts"
    BY DEF Stop, CloseListener, historyVars
  <1>1. ServerTypeOK' /\ TablesWellFormed' /\ SocketsOutliveThreads'
    BY <1>0 DEF ServerInv, ServerTypeOK, TablesWellFormed, SocketsOutliveThreads, MainStages, bank
  <1>2. ThreadsInv'
    BY <1>0 DEF ServerInv, ThreadsInv, bank
  <1>3. SaveInv' /\ RecordsInv' /\ AcknowledgedKept'
    BY <1>0 DEF ServerInv, SaveInv, RecordsInv, AcknowledgedKept, Files, bank
  <1> QED
    BY <1>1, <1>2, <1>3 DEF ServerInv

\* The thread that has ended leaves the list with its socket.
LEMMA JoinStep ==
  ASSUME ServerInv, Join
  PROVE  ServerInv'
  <1> DEFINE list == lstClientThreadInfo
             c    == Head(list)
  <1>0. /\ main = "join" /\ main' = "stop" /\ thread[c] = "exited"
        /\ UNCHANGED <<bank, thread, job, request, disk, file, last, good, acked, faulty>>
        /\ sockets' = sockets \ {c} /\ list' = Tail(list)
        /\ sent' = [sent EXCEPT ![c] = 0]
    BY DEF Join, EndConnection, Leave, diskVars, historyVars
  <1>1. list \in Seq(Connections) /\ list # <<>>
    BY <1>0 DEF ServerInv, ThreadsInv
  <1> HIDE DEF list, c
  <1>2. /\ list' \in Seq(Connections) /\ c = list[1] /\ Len(list) \in Nat \ {0}
        /\ DOMAIN list = 1 .. Len(list) /\ DOMAIN list' = 1 .. (Len(list) - 1)
        /\ \A i \in DOMAIN list' : list'[i] = list[i + 1]
    <2>1. /\ Tail(list) \in Seq(Connections) /\ Len(Tail(list)) = Len(list) - 1
          /\ \A i \in 1 .. Len(Tail(list)) : Tail(list)[i] = list[i + 1]
      BY <1>1, HeadTailProperties
    <2>2. Head(list) = list[1] /\ Len(list) \in Nat \ {0}
      BY <1>1, EmptySeq
    <2>3. DOMAIN list = 1 .. Len(list) /\ DOMAIN Tail(list) = 1 .. Len(Tail(list))
      BY <1>1, <2>1
    <2> QED
      BY <1>0, <2>1, <2>2, <2>3 DEF c
  <1>3. \A i, j \in DOMAIN list : list[i] = list[j] => i = j
    BY DEF ServerInv, ThreadsInv, list
  <1>4. \A d \in Connections : (d \in sockets) <=> (\E i \in DOMAIN list : list[i] = d)
    BY DEF ServerInv, ServerTypeOK, list
  <1>5. \A i \in DOMAIN list' : i + 1 \in DOMAIN list /\ i + 1 # 1
    BY <1>2
  <1>6. \A i, j \in DOMAIN list' : list'[i] = list'[j] => i = j
    <2>1. ASSUME NEW i \in DOMAIN list', NEW j \in DOMAIN list', list'[i] = list'[j]
          PROVE  i = j
      <3>1. i + 1 = j + 1
        BY <1>2, <1>3, <1>5, <2>1
      <3> QED
        BY <1>2, <3>1
    <2> QED
      BY <2>1
  <1>7. \A d \in Connections : (d \in sockets') <=> (\E i \in DOMAIN list' : list'[i] = d)
    <2>1. ASSUME NEW d \in Connections, d \in sockets'
          PROVE  \E i \in DOMAIN list' : list'[i] = d
      <3>1. PICK i \in DOMAIN list : list[i] = d
        BY <1>0, <1>4, <2>1
      <3>2. i # 1
        BY <1>0, <1>2, <2>1, <3>1
      <3>3. i - 1 \in DOMAIN list' /\ (i - 1) + 1 = i
        BY <1>2, <3>2
      <3> QED
        BY <1>2, <3>1, <3>3
    <2>2. ASSUME NEW d \in Connections, NEW i \in DOMAIN list', list'[i] = d
          PROVE  d \in sockets'
      <3>1. list[i + 1] = d /\ i + 1 \in DOMAIN list
        BY <1>2, <1>5, <2>2
      <3>2. 1 \in DOMAIN list
        BY <1>2
      <3>3. d # c
        BY <1>2, <1>3, <1>5, <3>1, <3>2
      <3> QED
        BY <1>0, <1>4, <3>1, <3>3
    <2> QED
      BY <2>1, <2>2
  <1>8. ServerTypeOK'
    BY <1>0, <1>1, <1>7 DEF ServerInv, ServerTypeOK, MainStages, list, bank
  <1>9. SocketsOutliveThreads'
    BY <1>0 DEF ServerInv, SocketsOutliveThreads, Running, HandlerStages
  <1>10. ThreadsInv'
    BY <1>0, <1>2, <1>6 DEF ServerInv, ThreadsInv, list, bank
  <1>11. TablesWellFormed' /\ SaveInv' /\ RecordsInv' /\ AcknowledgedKept'
    BY <1>0 DEF ServerInv, TablesWellFormed, SaveInv, RecordsInv, AcknowledgedKept, bank
  <1> QED
    BY <1>8, <1>9, <1>10, <1>11 DEF ServerInv

---------------------------------------------------------------------------
(* The save                                                                *)

\* The two tables that are saved, and their files.
LEMMA SaveFacts ==
  ASSUME ServerInv
  PROVE  /\ file \in Files /\ DOMAIN disk = Files
         /\ DOMAIN Table(file) \subseteq Nat
         /\ Table("accounts") = accounts /\ Table("transactions") = log
         /\ accounts \in [DOMAIN accounts -> DWORD] /\ log \in [DOMAIN log -> Transaction]
         /\ disk.accounts \in [DOMAIN disk.accounts -> DWORD]
         /\ disk.transactions \in [DOMAIN disk.transactions -> Transaction]
         /\ DOMAIN accounts \subseteq Customers /\ DOMAIN disk.accounts \subseteq Customers
         /\ LogOK(log) /\ Sequential(log)
         /\ LogOK(disk.transactions) /\ Sequential(disk.transactions)
  <1>1. Cardinality(DOMAIN log) \in Nat
    BY FS_CardinalityType DEF ServerInv, TablesWellFormed, LogOK
  <1>2. DOMAIN log \subseteq Nat /\ DOMAIN accounts \subseteq Nat
    BY <1>1, BankAssumption DEF ServerInv, TablesWellFormed, Sequential, QWORD
  <1> QED
    BY <1>2 DEF ServerInv, ServerTypeOK, SaveInv, TablesWellFormed, Table, Files

\* When the iterator has come to the end, a stream that is good has written
\* the whole table.
LEMMA WholeTable ==
  ASSUME ServerInv, main = "write", good, Following(file) = {}
  PROVE  disk[file] = Table(file)
  <1> DEFINE keys == DOMAIN Table(file)
             left == {k \in keys : k > last}
  <1>0. keys \subseteq Nat /\ (last = 0 - 1 \/ last \in keys)
    BY SaveFacts DEF ServerInv, SaveInv
  <1>1. left = {}
    <2>1. ASSUME left # {}
          PROVE  FALSE
      <3>1. left \subseteq Nat
        BY <1>0
      <3> HIDE DEF left
      <3>2. PICK k \in left : \A j \in left : <<j, k>> \notin OpToRel(<, Nat)
        BY <2>1, <3>1, NatLessThanWellFounded, WFMin
      <3>3. \A j \in left : k <= j
        <4>1. ASSUME NEW j \in left, j < k
              PROVE  FALSE
          <5>1. <<j, k>> \in OpToRel(<, Nat)
            BY <3>1, <4>1 DEF OpToRel
          <5> QED
            BY <3>2, <5>1
        <4> QED
          BY <3>1, <4>1
      <3>4. k \in Following(file)
        BY <3>3 DEF Following, left
      <3> QED
        BY <3>4
    <2> QED
      BY <2>1
  <1>2. /\ DOMAIN disk[file] = {k \in keys : k <= last}
        /\ \A k \in DOMAIN disk[file] : disk[file][k] = Table(file)[k]
    BY DEF ServerInv, SaveInv
  <1>3. DOMAIN disk[file] = keys
    <2>1. \A k \in keys : ~(k > last)
      BY <1>1
    <2> HIDE DEF keys, left
    <2>2. last \in Int /\ \A k \in keys : k \in Int
      <3>1. CASE last = 0 - 1
        BY <1>0, <3>1
      <3>2. CASE last \in keys
        BY <1>0, <3>2
      <3> QED
        BY <1>0, <3>1, <3>2
    <2>3. \A k \in keys : k <= last
      BY <2>1, <2>2
    <2> QED
      BY <1>2, <2>3
  <1>4. CASE file = "accounts"
    BY <1>2, <1>3, <1>4, SaveFacts
  <1>5. CASE file = "transactions"
    BY <1>2, <1>3, <1>5, SaveFacts
  <1> QED
    BY <1>4, <1>5, SaveFacts DEF Files

\* A step of the save: what it does to the other parts of the invariant is
\* nothing.
LEMMA SaveKeepsInv ==
  ASSUME ServerInv, main \in {"open", "write"}, main' \in {"open", "write", "return"},
         UNCHANGED <<bank, lstClientThreadInfo, threadVars, clientVars, acked>>,
         faulty => faulty',
         DOMAIN disk'.accounts \subseteq Customers,
         disk'.accounts \in [DOMAIN disk'.accounts -> DWORD],
         disk'.transactions \in [DOMAIN disk'.transactions -> Transaction],
         SaveInv'
  PROVE  ServerInv'
  <1> USE DEF bank, threadVars, clientVars
  <1>1. ServerTypeOK' /\ TablesWellFormed' /\ SocketsOutliveThreads'
    BY DEF ServerInv, ServerTypeOK, TablesWellFormed, SocketsOutliveThreads, MainStages
  <1>2. ThreadsInv'
    BY DEF ServerInv, ThreadsInv
  <1>3. RecordsInv' /\ AcknowledgedKept'
    BY DEF ServerInv, RecordsInv, AcknowledgedKept, SaveInv
  <1> QED
    BY <1>1, <1>2, <1>3 DEF ServerInv

\* Opening a file truncates it, or fails and leaves it.
LEMMA SaveOpenStep ==
  ASSUME ServerInv, SaveOpen
  PROVE  ServerInv'
  <1>0. /\ main = "open"
        /\ UNCHANGED <<bank, lstClientThreadInfo, threadVars, clientVars, acked>>
        /\ UNCHANGED <<accounts, log>>
    BY DEF SaveOpen, bank
  <1>1. CASE /\ disk' = [disk EXCEPT ![file] = EmptyMap] /\ last' = 0 - 1 /\ good' = TRUE
             /\ main' = "write" /\ UNCHANGED <<file, faulty>>
    <2>1. /\ DOMAIN disk' = Files /\ disk'[file] = EmptyMap
          /\ \A f \in Files \ {file} : disk'[f] = disk[f]
      BY <1>1, SaveFacts
    <2>2. /\ disk'.accounts = EmptyMap \/ disk'.accounts = disk.accounts
          /\ disk'.transactions = EmptyMap \/ disk'.transactions = disk.transactions
          /\ file = "transactions" => disk'.accounts = disk.accounts
      BY <2>1 DEF Files
    <2>3. Table(file)' = Table(file)
      BY <1>0, <1>1 DEF Table
    <2>4. \A k \in DOMAIN Table(file) : ~(k <= 0 - 1)
      BY SaveFacts
    <2>5. SaveInv'
      <3>1. LogOK(disk'.transactions) /\ Sequential(disk'.transactions)
        BY <2>2, EmptyTable, SaveFacts
      <3>2. /\ DOMAIN disk'[file] = {k \in DOMAIN Table(file) : k <= last'}
            /\ \A k \in DOMAIN disk'[file] : disk'[file][k] = Table(file)[k]
        BY <1>1, <2>1, <2>4, EmptyTable
      <3>3. ~faulty => (file = "transactions" => disk'.accounts = accounts)
        BY <1>0, <2>2 DEF ServerInv, SaveInv
      <3> QED
        BY <1>0, <1>1, <2>1, <2>3, <3>1, <3>2, <3>3, SaveFacts DEF SaveInv
    <2> QED
      BY <1>0, <1>1, <2>2, <2>5, EmptyTable, SaveFacts, SaveKeepsInv DEF BalancesOK
  <1>2. CASE faulty' = TRUE /\ NextFile /\ UNCHANGED <<disk, last, good>>
    <2>1. main' \in {"open", "return"} /\ file' \in Files
      BY <1>2, SaveFacts DEF NextFile, Files
    <2>2. SaveInv'
      BY <1>2, <2>1, SaveFacts DEF SaveInv
    <2> QED
      BY <1>0, <1>2, <2>1, <2>2, SaveFacts, SaveKeepsInv
  <1> QED
    BY <1>1, <1>2 DEF SaveOpen

\* One element is written after all that come before it.
LEMMA SaveWriteStep ==
  ASSUME ServerInv, SaveWrite
  PROVE  ServerInv'
  <1>0. /\ main = "write" /\ main' = "write" /\ file' = file
        /\ UNCHANGED <<bank, lstClientThreadInfo, threadVars, clientVars, acked>>
        /\ UNCHANGED <<accounts, log>>
    BY DEF SaveWrite, bank, mainVars
  <1>1. PICK k \in Following(file) :
          /\ last' = k
          /\ \/ /\ good /\ disk' = [disk EXCEPT ![file] = Insert(@, k, Table(file)[k])]
                /\ UNCHANGED <<good, faulty>>
             \/ good' = FALSE /\ faulty' = TRUE /\ UNCHANGED disk
    BY DEF SaveWrite
  <1> DEFINE table == Table(file)
             new   == Insert(disk[file], k, table[k])
  <1>2. /\ k \in DOMAIN table /\ k \in Nat /\ k > last
        /\ \A j \in DOMAIN table : j > last => k <= j
        /\ DOMAIN table \subseteq Nat /\ table' = table
        /\ last = 0 - 1 \/ last \in DOMAIN table
    BY <1>0, SaveFacts DEF Following, Table, ServerInv, SaveInv
  <1>3. CASE good' = FALSE /\ faulty' = TRUE /\ UNCHANGED disk
    <2>1. SaveInv'
      BY <1>0, <1>1, <1>2, <1>3, SaveFacts DEF SaveInv
    <2> QED
      BY <1>0, <1>3, <2>1, SaveFacts, SaveKeepsInv
  <1>4. CASE /\ good /\ disk' = [disk EXCEPT ![file] = Insert(@, k, Table(file)[k])]
             /\ UNCHANGED <<good, faulty>>
    <2>1. /\ DOMAIN disk' = Files /\ disk'[file] = new
          /\ \A f \in Files \ {file} : disk'[f] = disk[f]
      BY <1>4, SaveFacts
    <2>2. /\ DOMAIN disk[file] = {j \in DOMAIN table : j <= last}
          /\ \A j \in DOMAIN disk[file] : disk[file][j] = table[j]
      BY <1>0, <1>4 DEF ServerInv, SaveInv
    <2>3. /\ DOMAIN new = DOMAIN disk[file] \cup {k} /\ k \notin DOMAIN disk[file]
          /\ \A j \in DOMAIN new : new[j] = table[j]
          /\ new = [j \in DOMAIN new |-> new[j]]
      BY <1>2, <2>2 DEF Insert
    <2> HIDE DEF new, table
    <2>4. DOMAIN new = {j \in DOMAIN table : j <= k}
      <3>1. \A j \in DOMAIN table : j <= k <=> j <= last \/ j = k
        BY <1>2
      <3> QED
        BY <1>2, <2>2, <2>3, <3>1
    <2>5. CASE file = "accounts"
      <3>1. table = accounts /\ disk'.accounts = new /\ disk'.transactions = disk.transactions
        BY <2>1, <2>5, SaveFacts DEF table, Files
      <3>2. DOMAIN new \subseteq Customers /\ new \in [DOMAIN new -> DWORD]
        BY <2>3, <2>4, <3>1, SaveFacts
      <3>3. SaveInv'
        BY <1>0, <1>1, <1>2, <1>4, <2>1, <2>3, <2>4, <2>5, <3>1, SaveFacts
           DEF ServerInv, SaveInv, table
      <3> QED
        BY <1>0, <1>4, <3>1, <3>2, <3>3, SaveFacts, SaveKeepsInv
    <2>6. CASE file = "transactions"
      <3>1. table = log /\ disk'.transactions = new /\ disk'.accounts = disk.accounts
        BY <2>1, <2>6, SaveFacts DEF table, Files
      <3>2. new \in [DOMAIN new -> Transaction]
        BY <2>3, <2>4, <3>1, SaveFacts
      <3>3. DOMAIN new = 1 .. k
        <4> DEFINE n == Cardinality(DOMAIN log)
        <4>1. n \in Nat /\ DOMAIN log = 1 .. n
          BY SaveFacts, FS_CardinalityType DEF LogOK, Sequential
        <4> HIDE DEF n
        <4> QED
          BY <1>2, <2>4, <3>1, <4>1
      <3>4. LogOK(new) /\ Sequential(new)
        <4>1. IsFiniteSet(1 .. k) /\ Cardinality(1 .. k) = k
          BY <1>2, <3>3, FS_Interval
        <4> QED
          BY <3>2, <3>3, <4>1 DEF LogOK, Sequential
      <3>5. SaveInv'
        BY <1>0, <1>1, <1>2, <1>4, <2>1, <2>3, <2>4, <2>6, <3>1, <3>4, SaveFacts
           DEF ServerInv, SaveInv, table
      <3> QED
        BY <1>0, <1>4, <3>1, <3>2, <3>5, SaveFacts, SaveKeepsInv
    <2> QED
      BY <2>5, <2>6, SaveFacts DEF Files
  <1> QED
    BY <1>1, <1>3, <1>4

\* The file that is closed holds the table, if nothing has failed.
LEMMA SaveCloseStep ==
  ASSUME ServerInv, SaveClose
  PROVE  ServerInv'
  <1>0. /\ main = "write" /\ NextFile
        /\ UNCHANGED <<bank, lstClientThreadInfo, threadVars, clientVars, disk, last, good,
                       acked, faulty>>
        /\ UNCHANGED <<accounts, log>>
    BY DEF SaveClose, bank, historyVars
  <1>1. ~faulty => disk[file] = Table(file)
    BY <1>0, WholeTable DEF SaveClose, ServerInv, SaveInv
  <1>2. \/ file = "accounts" /\ main' = "open" /\ file' = "transactions"
        \/ file = "transactions" /\ main' = "return" /\ file' = "transactions"
    BY <1>0, SaveFacts DEF NextFile, Files
  <1>3. SaveInv'
    BY <1>0, <1>1, <1>2, SaveFacts DEF ServerInv, SaveInv, Files
  <1> QED
    BY <1>0, <1>2, <1>3, SaveFacts, SaveKeepsInv

\* The process is gone: what it acknowledged is in the files, unless it has
\* crashed.
LEMMA EndStep ==
  ASSUME ServerInv, Return \/ Crash
  PROVE  ServerInv'
  <1>0. /\ ProcessEnds
        /\ Return => main = "return" /\ faulty' = faulty
        /\ Crash => faulty'
    BY DEF Return, Crash
  <1>1. ServerTypeOK'
    <2>1. /\ \A c \in Connections : thread'[c] = "none" /\ job'[c] = NONE
          /\ "none" \notin HandlerStages
      BY <1>0 DEF ProcessEnds, HandlerStages
    <2>2. /\ thread' \in [Connections -> ThreadStages] /\ job' \in [Connections -> Job \cup {NONE}]
          /\ request' \in [Connections -> Request \cup {NONE}] /\ main' \in MainStages
          /\ sent' \in [Connections -> Nat]
      BY <1>0 DEF ProcessEnds, ThreadStages, MainStages
    <2>3. sockets' = {} /\ DOMAIN lstClientThreadInfo' = {}
      BY <1>0 DEF ProcessEnds
    <2>4. /\ accounts' = EmptyMap /\ log' = EmptyMap /\ disk' = disk /\ acked' = acked
      BY <1>0 DEF ProcessEnds
    <2> QED
      BY <2>1, <2>2, <2>3, <2>4, EmptyTable DEF ServerInv, ServerTypeOK, BalancesOK
  <1>2. TablesWellFormed'
    BY <1>0, EmptyTable DEF ProcessEnds, TablesWellFormed
  <1>3. SocketsOutliveThreads' /\ ThreadsInv'
    <2>1. <<>> \in Seq(Connections) /\ DOMAIN <<>> = {}
      BY EmptySeq
    <2> QED
      BY <1>0, <2>1 DEF ProcessEnds, SocketsOutliveThreads, ThreadsInv, Running, HandlerStages
  <1>4. SaveInv'
    BY <1>0 DEF ProcessEnds, ServerInv, SaveInv, Files
  <1>5. RecordsInv' /\ AcknowledgedKept'
    <2>1. ASSUME ~faulty'
          PROVE  /\ main = "return" /\ ~faulty /\ log = disk.transactions /\ disk' = disk
                 /\ acked' = acked /\ main' = "down" /\ DOMAIN log' = {}
      BY <1>0, <2>1, EmptyTable DEF ProcessEnds, ServerInv, SaveInv
    <2> QED
      BY <2>1 DEF ServerInv, RecordsInv, AcknowledgedKept, RecordsHaveAccounts
  <1> QED
    BY <1>1, <1>2, <1>3, <1>4, <1>5 DEF ServerInv

---------------------------------------------------------------------------
(* The invariant                                                           *)

LEMMA InitServerInv ==
  ASSUME ServerInit
  PROVE  ServerInv
  <1>1. /\ DOMAIN disk = Files /\ disk.accounts = SavedAccounts
        /\ disk.transactions = SavedTransactions
    BY DEF ServerInit, Files
  <1>2. TablesWellFormed
    BY EmptyTable DEF ServerInit, TablesWellFormed
  <1>3. ServerTypeOK
    <2>1. /\ DOMAIN accounts \subseteq Customers /\ accounts \in [DOMAIN accounts -> DWORD]
          /\ log \in [DOMAIN log -> Transaction] /\ acked \in [DOMAIN acked -> Transaction]
      BY EmptyTable DEF ServerInit, BalancesOK, LogOK
    <2> QED
      BY <1>1, <2>1, BankAssumption
         DEF ServerInit, ServerTypeOK, MainStages, ThreadStages, HandlerStages
  <1>4. SocketsOutliveThreads
    BY DEF ServerInit, SocketsOutliveThreads, Running, HandlerStages
  <1>5. ThreadsInv
    BY DEF ServerInit, ThreadsInv
  <1>6. SaveInv
    BY <1>1, BankAssumption DEF ServerInit, SaveInv, Files, LogOK, Sequential
  <1>7. RecordsInv /\ AcknowledgedKept
    BY <1>1, EmptyTable, BankAssumption
       DEF ServerInit, RecordsInv, AcknowledgedKept, RecordsHaveAccounts
  <1> QED
    BY <1>2, <1>3, <1>4, <1>5, <1>6, <1>7 DEF ServerInv

LEMMA NextServerInv ==
  ASSUME ServerInv, [ServerNext]_serverVars
  PROVE  ServerInv'
  <1>1. CASE UNCHANGED serverVars
    BY <1>1, QuietStep
       DEF serverVars, mainVars, threadVars, clientVars, historyVars, ServerInv, ServerTypeOK
  <1>2. CASE MainStep
    BY <1>2, LoadStep, QuietSteps, AcceptStep, StopStep, JoinStep, SaveOpenStep, SaveWriteStep,
       SaveCloseStep, EndStep DEF MainStep
  <1>3. CASE Start \/ TerminateHandler \/ Restart
    BY <1>3, QuietSteps
  <1>4. ASSUME NEW c \in Connections, ThreadStep(c)
        PROVE  ServerInv'
    BY <1>4, LoopSteps, ReceiveStep, SessionSteps, AccountStep, CreateStep, BalanceLoadStep,
       BalanceStoreStep, TransactionStep, ReplyStep DEF ThreadStep
  <1>5. ASSUME NEW c \in Connections, ClientMove(c)
        PROVE  ServerInv'
    BY <1>5, QuietSteps DEF ClientMove
  <1>6. CASE Crash
    BY <1>6, EndStep
  <1> QED
    BY <1>1, <1>2, <1>3, <1>4, <1>5, <1>6 DEF ServerNext, Finished

\* The inductive invariant holds in every reachable state: the tables, the
\* files, the list of threads, the sockets and the acknowledged records of
\* main, ClientThreadHandler, LoadServerDB and SaveServerDB fit together.
THEOREM ServerInvariance == ServerSpec => []ServerInv
  <1>1. ServerInit => ServerInv
    BY InitServerInv
  <1>2. ServerInv /\ [ServerNext]_serverVars => ServerInv'
    BY NextServerInv
  <1> QED
    BY <1>1, <1>2, PTL DEF ServerSpec

\* The tables, the files and what the threads hold have their types, through
\* crashes in the middle of SaveServerDB and writes that fail.
THEOREM ServerTypes == ServerSpec => []ServerTypeOK
  <1>1. ServerInv => ServerTypeOK
    BY DEF ServerInv
  <1> QED
    BY <1>1, ServerInvariance, PTL

\* Whatever SaveServerDB has left on disk, the log that LoadServerDB finds has
\* the IDs 1 .. n, so the ID that AddTransaction takes from size() is free.
THEOREM LoadedIDs == ServerSpec => []LoadedIDsSequential
  <1>1. ServerInv => LoadedIDsSequential
    BY DEF ServerInv, TablesWellFormed, Sequential, LoadedIDsSequential
  <1> QED
    BY <1>1, ServerInvariance, PTL

\* main deletes a socket only when the thread that receives on it has ended: the
\* join is between the order to end and the delete.
THEOREM SocketsOutlive == ServerSpec => []SocketsOutliveThreads
  <1>1. ServerInv => SocketsOutliveThreads
    BY DEF ServerInv
  <1> QED
    BY <1>1, ServerInvariance, PTL

\* A transaction a client has been told of is in the log of this run and of
\* every later one, unless the process crashed or a file failed.
THEOREM AcknowledgedStay == ServerSpec => []AcknowledgedKept
  <1>1. ServerInv => AcknowledgedKept
    BY DEF ServerInv
  <1> QED
    BY <1>1, ServerInvariance, PTL

---------------------------------------------------------------------------
(* The books                                                               *)

\* What BooksInv says of one thread: its requests are on its menu, what it has
\* loaded is the balance, what it has stored is what its record will say.
RequestsKept(c) ==
  /\ request[c] # NONE /\ request[c].type \in TransactionTypes =>
       request[c].customer \in ChargedBy(c)
  /\ job[c] # NONE /\ job[c].request.type \in TransactionTypes =>
       job[c].request.customer \in ChargedBy(c)

StoreKept(c) == thread[c] = "store" => job[c].value = accounts[job[c].request.customer]

RecordKept(c) ==
  ~faulty /\ thread[c] = "record" =>
    accounts[job[c].request.customer] =
      Charged(job[c].request, LedgerOf(log, job[c].request.customer) % DwordMod)

LEMMA BooksParts ==
  BooksInv <=>
    /\ FilesBalanced
    /\ \A c \in Connections : RequestsKept(c) /\ StoreKept(c) /\ RecordKept(c)
  BY DEF BooksInv, RequestsKept, StoreKept, RecordKept

\* A request on the menu that charges.
LEMMA MenuCharges ==
  ASSUME ServerInv, NEW c \in Connections, SendRequest(c), NEW r \in Menu[c][sent[c] + 1],
         r.type \in TransactionTypes
  PROVE  r.customer \in ChargedBy(c)
  BY MenuRequests DEF ChargedBy

\* Two threads at work on a balance are at work on two.
LEMMA ChargesApart ==
  ASSUME ServerInv, BooksInv, CustomersApart,
         NEW c \in Connections, NEW d \in Connections, c # d,
         thread[c] \in {"load", "store", "record"}, thread[d] \in {"load", "store", "record"}
  PROVE  job[c].request.customer # job[d].request.customer
  <1>1. thread[c] \in HandlerStages /\ thread[d] \in HandlerStages
    BY DEF HandlerStages
  <1>2. /\ job[c] # NONE /\ job[c].request.type \in TransactionTypes
        /\ job[d] # NONE /\ job[d].request.type \in TransactionTypes
    BY <1>1, JobFacts, ServerFacts
  <1>3. /\ job[c].request.customer \in ChargedBy(c)
        /\ job[d].request.customer \in ChargedBy(d)
    BY <1>2, BooksParts DEF RequestsKept
  <1> QED
    BY <1>3 DEF CustomersApart

\* Where a thread goes, the others stay.
LEMMA OneGoes ==
  ASSUME ServerInv, NEW c \in Connections, NEW s, Goto(c, s)
  PROVE  thread'[c] = s /\ \A d \in Connections \ {c} : thread'[d] = thread[d]
  BY DEF Goto, ServerInv, ServerTypeOK

\* A step that leaves the tables, the files and the threads that are at work on
\* a balance alone.
LEMMA QuietBooks ==
  ASSUME BooksInv, UNCHANGED <<accounts, log, disk, faulty>>,
         main' \in {"open", "write"} \/ main \notin {"open", "write"},
         \A c \in Connections :
           /\ request'[c] \in {request[c], NONE} /\ job'[c] \in {job[c], NONE}
           /\ thread[c] \in {"store", "record"} \/ thread'[c] \in {"store", "record"} =>
                thread'[c] = thread[c] /\ job'[c] = job[c]
  PROVE  BooksInv'
  <1>1. FilesBalanced'
    <2>1. \A customer, c : c \in Connections /\ Unrecorded(c, customer) => Unrecorded(c, customer)'
      BY DEF Unrecorded
    <2> QED
      BY <2>1, BooksParts DEF FilesBalanced
  <1>2. ASSUME NEW c \in Connections
        PROVE  RequestsKept(c)' /\ StoreKept(c)' /\ RecordKept(c)'
    <2>1. RequestsKept(c) /\ StoreKept(c) /\ RecordKept(c)
      BY BooksParts
    <2>2. RequestsKept(c)'
      BY <2>1 DEF RequestsKept
    <2>3. StoreKept(c)'
      BY <2>1 DEF StoreKept
    <2>4. RecordKept(c)'
      BY <2>1 DEF RecordKept
    <2> QED
      BY <2>2, <2>3, <2>4
  <1> QED
    BY <1>1, <1>2, BooksParts DEF BooksInv, RequestsKept, StoreKept, RecordKept

\* The steps of main outside loading and saving, and of the operator.
LEMMA MainBooks ==
  ASSUME ServerInv, BooksInv,
         Start \/ TerminateHandler \/ ServeTest \/ Accept \/ Stop \/ Join \/ Restart
  PROVE  BooksInv'
  <1> USE DEF bank, mainVars, threadVars, clientVars, diskVars, historyVars
  <1>1. CASE Start \/ TerminateHandler \/ ServeTest \/ Stop \/ Join \/ Restart
    <2>1. /\ UNCHANGED <<accounts, log, disk, faulty, thread, job, request>>
          /\ main' \in {"open", "write"} \/ main \notin {"open", "write"}
      BY <1>1 DEF Start, TerminateHandler, ServeTest, Stop, CloseListener, Join, EndConnection,
                  Restart
    <2> QED
      BY <2>1, QuietBooks
  <1>2. CASE Accept
    <2>1. /\ UNCHANGED <<accounts, log, disk, faulty, job, request>> /\ main = "accept"
          /\ \/ thread' = thread
             \/ \E c \in Backlog : thread' = [thread EXCEPT ![c] = "test"]
      BY <1>2 DEF Accept
    <2>2. ASSUME NEW c \in Backlog, thread' = [thread EXCEPT ![c] = "test"]
          PROVE  \A d \in Connections :
                   thread[d] \in {"store", "record"} \/ thread'[d] \in {"store", "record"} =>
                     thread'[d] = thread[d]
      BY <2>2 DEF Backlog, ServerInv, ServerTypeOK
    <2> QED
      BY <2>1, <2>2, QuietBooks
  <1> QED
    BY <1>1, <1>2

\* The loop of a thread, the lookups and the answer.
LEMMA LoopBooks ==
  ASSUME ServerInv, BooksInv, NEW c \in Connections,
         \/ ThreadTest(c) \/ ThreadHangup(c) \/ ThreadConnect(c) \/ FindSession(c)
         \/ MissSession(c) \/ FindAccount(c) \/ ThreadReply(c)
         \/ ThreadReceive(c) /\ ~Dispatch(c)
  PROVE  BooksInv'
  <1> USE DEF bank, mainVars, clientVars, diskVars, historyVars
  <1>1. /\ UNCHANGED <<accounts, log, disk, faulty, main, request>>
        /\ thread[c] \notin {"store", "record"}
        /\ job' = job \/ job' = [job EXCEPT ![c] = NONE]
        /\ \E s \in ThreadStages \ {"store", "record"} : Goto(c, s)
    BY DEF ThreadTest, ThreadHangup, ThreadConnect, FindSession, MissSession, FindAccount,
           AfterAccount, ThreadReply, ThreadReceive, ThreadStages, Running, HandlerStages
  <1>2. PICK s \in ThreadStages \ {"store", "record"} : Goto(c, s)
    BY <1>1
  <1>3. /\ main \in Serving /\ thread'[c] = s
        /\ \A d \in Connections \ {c} : thread'[d] = thread[d] /\ job'[d] = job[d]
        /\ job'[c] \in {job[c], NONE}
    <2>1. thread[c] \in Running
      BY DEF ThreadTest, ThreadHangup, ThreadConnect, FindSession, MissSession, FindAccount,
             ThreadReply, ThreadReceive, Running, HandlerStages
    <2> QED
      BY <1>1, <1>2, <2>1, OneGoes, RunningIsServing, ServerFacts
  <1>4. ASSUME NEW d \in Connections
        PROVE  /\ request'[d] \in {request[d], NONE} /\ job'[d] \in {job[d], NONE}
               /\ thread[d] \in {"store", "record"} \/ thread'[d] \in {"store", "record"} =>
                    thread'[d] = thread[d] /\ job'[d] = job[d]
    BY <1>1, <1>3
  <1> QED
    BY <1>1, <1>3, <1>4, QuietBooks DEF Serving

\* A request is sent, and received.
LEMMA RequestBooks ==
  ASSUME ServerInv, BooksInv, NEW c \in Connections,
         SendRequest(c) \/ (ThreadReceive(c) /\ Dispatch(c))
  PROVE  BooksInv'
  <1> USE DEF bank, mainVars, threadVars, clientVars, diskVars, historyVars
  <1>1. /\ UNCHANGED <<accounts, log, disk, faulty, main>>
        /\ \A d \in Connections \ {c} : request'[d] = request[d] /\ job'[d] = job[d]
        /\ \A d \in Connections :
             thread[d] \in {"store", "record"} \/ thread'[d] \in {"store", "record"} =>
               thread'[d] = thread[d] /\ job'[d] = job[d]
    <2>1. CASE SendRequest(c)
      BY <2>1, ServerFacts DEF SendRequest
    <2>2. CASE ThreadReceive(c) /\ Dispatch(c)
      <3>1. PICK s \in {"connect", "find"} : Goto(c, s)
        BY <2>2 DEF Dispatch
      <3>2. /\ thread[c] = "receive" /\ thread'[c] = s
            /\ \A d \in Connections \ {c} : thread'[d] = thread[d]
        BY <2>2, <3>1, OneGoes DEF ThreadReceive
      <3>3. \A d \in Connections \ {c} : request'[d] = request[d] /\ job'[d] = job[d]
        BY <2>2, ServerFacts DEF Dispatch
      <3> QED
        BY <2>2, <3>2, <3>3 DEF ThreadReceive
    <2> QED
      BY <2>1, <2>2
  <1>2. RequestsKept(c)'
    <2>1. RequestsKept(c)
      BY BooksParts
    <2>2. CASE SendRequest(c)
      <3>1. PICK r \in Menu[c][sent[c] + 1] : request' = [request EXCEPT ![c] = r]
        BY <2>2 DEF SendRequest
      <3>2. request'[c] = r /\ job' = job
        BY <2>2, <3>1, ServerFacts DEF SendRequest
      <3> QED
        BY <2>1, <2>2, <3>2, MenuCharges DEF RequestsKept
    <2>3. CASE ThreadReceive(c) /\ Dispatch(c)
      <3>1. /\ request[c] # NONE /\ request'[c] = NONE
            /\ job'[c] = [request |-> request[c], value |-> 0, id |-> 0]
        BY <2>3, ServerFacts DEF Dispatch
      <3> QED
        BY <2>1, <3>1 DEF RequestsKept
    <2> QED
      BY <2>2, <2>3
  <1>3. FilesBalanced'
    <2>1. \A customer, d : d \in Connections /\ Unrecorded(d, customer) => Unrecorded(d, customer)'
      BY <1>1 DEF Unrecorded
    <2> QED
      BY <1>1, <2>1, BooksParts DEF FilesBalanced
  <1>4. ASSUME NEW d \in Connections
        PROVE  RequestsKept(d)' /\ StoreKept(d)' /\ RecordKept(d)'
    <2>1. RequestsKept(d) /\ StoreKept(d) /\ RecordKept(d)
      BY BooksParts
    <2>2. RequestsKept(d)'
      BY <1>1, <1>2, <2>1 DEF RequestsKept
    <2>3. StoreKept(d)'
      BY <1>1, <2>1 DEF StoreKept
    <2>4. RecordKept(d)'
      BY <1>1, <2>1 DEF RecordKept
    <2> QED
      BY <2>2, <2>3, <2>4
  <1> QED
    BY <1>3, <1>4, BooksParts DEF BooksInv, RequestsKept, StoreKept, RecordKept

\* The files are loaded, whole or a part of them; a crash or the end of main
\* leaves no table.
LEMMA EndsBooks ==
  ASSUME ServerInv, BooksInv, LoadServerDB \/ Return \/ Crash
  PROVE  BooksInv'
  <1> USE DEF threadVars, clientVars, diskVars
  <1>1. \A c \in Connections :
          /\ thread'[c] \notin {"store", "record"} /\ job'[c] = NONE
          /\ request'[c] \in {request[c], NONE}
    <2>1. CASE LoadServerDB
      <3>1. main \notin Serving /\ UNCHANGED <<thread, job, request>>
        BY <2>1 DEF LoadServerDB, Serving
      <3> QED
        BY <3>1, NoJobs DEF Running, HandlerStages
    <2>2. CASE Return \/ Crash
      BY <2>2 DEF Return, Crash, ProcessEnds
    <2> QED
      BY <2>1, <2>2
  <1>2. FilesBalanced'
    <2>1. CASE LoadServerDB
      <3>1. ASSUME ~faulty'
            PROVE  /\ ~faulty /\ accounts' = disk.accounts /\ log' = disk.transactions
                   /\ disk' = disk /\ main = "load"
        BY <2>1, <3>1 DEF LoadServerDB
      <3> QED
        BY <3>1, BooksParts DEF FilesBalanced, Balanced
    <2>2. CASE Return \/ Crash
      <3>1. ASSUME ~faulty'
            PROVE  ~faulty /\ DOMAIN accounts' = {} /\ disk' = disk /\ main = "return"
        BY <2>2, <3>1, EmptyTable DEF Return, Crash, ProcessEnds
      <3> QED
        BY <3>1, BooksParts DEF FilesBalanced
    <2> QED
      BY <2>1, <2>2
  <1>3. \A c \in Connections : RequestsKept(c)' /\ StoreKept(c)' /\ RecordKept(c)'
    <2>1. \A c \in Connections : RequestsKept(c)
      BY BooksParts
    <2> QED
      BY <1>1, <2>1 DEF RequestsKept, StoreKept, RecordKept
  <1> QED
    BY <1>2, <1>3 DEF BooksInv, RequestsKept, StoreKept, RecordKept

\* The save: no charge is half done when main has joined the threads, so the
\* tables it writes balance.
LEMMA SaveBooks ==
  ASSUME ServerInv, BooksInv, SaveOpen \/ SaveWrite \/ SaveClose
  PROVE  BooksInv'
  <1> USE DEF bank, mainVars, threadVars, clientVars
  <1>1. /\ main \in {"open", "write"} /\ UNCHANGED <<accounts, log, thread, job, request>>
        /\ faulty => faulty'
    BY DEF SaveOpen, SaveWrite, SaveClose, NextFile, historyVars
  <1>2. main' \in {"open", "write", "return"}
    BY DEF SaveOpen, SaveWrite, SaveClose, NextFile
  <1>3. \A c \in Connections : thread[c] \notin {"store", "record"} /\ job[c] = NONE
    BY <1>1, NoJobs DEF Serving, Running, HandlerStages
  <1>4. ServerInv'
    BY SaveOpenStep, SaveWriteStep, SaveCloseStep
  <1>5. FilesBalanced'
    <2>1. ASSUME ~faulty'
          PROVE  Balanced(accounts, log)
      BY <1>1, <1>3, <2>1, BooksParts DEF FilesBalanced, Unrecorded, Balanced
    <2>2. ASSUME ~faulty', main' \notin {"open", "write"}
          PROVE  disk'.accounts = accounts' /\ disk'.transactions = log'
      BY <1>2, <1>4, <2>2 DEF ServerInv, SaveInv
    <2> QED
      BY <1>1, <2>1, <2>2 DEF FilesBalanced, Balanced
  <1>6. \A c \in Connections : RequestsKept(c)' /\ StoreKept(c)' /\ RecordKept(c)'
    <2>1. \A c \in Connections : RequestsKept(c)
      BY BooksParts
    <2> QED
      BY <1>1, <1>3, <2>1 DEF RequestsKept, StoreKept, RecordKept
  <1> QED
    BY <1>5, <1>6 DEF BooksInv, RequestsKept, StoreKept, RecordKept

---------------------------------------------------------------------------
(* The steps of a charge                                                   *)

\* A handler goes on with its request; what the others have loaded or stored is
\* left alone.
LEMMA OthersBooks ==
  ASSUME BooksInv, NEW c \in Connections, UNCHANGED <<request, faulty>>,
         \A d \in Connections \ {c} :
           /\ thread'[d] = thread[d] /\ job'[d] = job[d]
           /\ thread[d] \in {"store", "record"} =>
                LET customer == job[d].request.customer
                IN  /\ accounts'[customer] = accounts[customer]
                    /\ LedgerOf(log', customer) = LedgerOf(log, customer),
         job[c] # NONE, job'[c] # NONE, job'[c].request = job[c].request,
         StoreKept(c)', RecordKept(c)', FilesBalanced'
  PROVE  BooksInv'
  <1>1. ASSUME NEW d \in Connections
        PROVE  RequestsKept(d) /\ StoreKept(d) /\ RecordKept(d)
    BY BooksParts
  <1>2. RequestsKept(c)'
    BY <1>1 DEF RequestsKept
  <1>3. ASSUME NEW d \in Connections \ {c}
        PROVE  RequestsKept(d)' /\ StoreKept(d)' /\ RecordKept(d)'
    <2>1. RequestsKept(d)'
      BY <1>1 DEF RequestsKept
    <2>2. StoreKept(d)'
      BY <1>1 DEF StoreKept
    <2>3. RecordKept(d)'
      BY <1>1 DEF RecordKept
    <2> QED
      BY <2>1, <2>2, <2>3
  <1>4. \A d \in Connections : RequestsKept(d)' /\ StoreKept(d)' /\ RecordKept(d)'
    BY <1>2, <1>3
  <1> QED
    BY <1>4 DEF BooksInv, RequestsKept, StoreKept, RecordKept

\* An account that is opened has no record, and a balance of 0.
LEMMA CreateBooks ==
  ASSUME ServerInv, BooksInv, NEW c \in Connections, CreateInsert(c)
  PROVE  BooksInv'
  <1> DEFINE new == job[c].request.customer
  <1>1. /\ thread[c] = "create" /\ thread[c] \in HandlerStages /\ Goto(c, "reply")
        /\ accounts' = Insert(accounts, new, 0)
        /\ UNCHANGED <<log, main, job, disk, faulty, request>>
    BY DEF CreateInsert, mainVars, clientVars, diskVars, historyVars, HandlerStages
  <1> HIDE DEF new
  <1>2. /\ thread'[c] = "reply"
        /\ \A d \in Connections \ {c} : thread'[d] = thread[d]
    BY <1>1, OneGoes
  <1>3. \A customer \in DOMAIN accounts : accounts'[customer] = accounts[customer]
    BY <1>1 DEF Insert
  <1>4. FilesBalanced'
    <2>1. ASSUME ~faulty, NEW customer \in DOMAIN accounts',
                 \A d \in Connections : ~Unrecorded(d, customer)'
          PROVE  accounts'[customer] = LedgerOf(log, customer) % DwordMod
      <3>1. CASE customer \in DOMAIN accounts
        <4>1. \A d \in Connections : ~Unrecorded(d, customer)
          BY <1>1, <1>2, <2>1 DEF Unrecorded
        <4> QED
          BY <1>3, <2>1, <3>1, <4>1, BooksParts DEF FilesBalanced
      <3>2. CASE customer \notin DOMAIN accounts
        <4>1. accounts'[customer] = 0
          BY <1>1, <2>1, <3>2 DEF Insert
        <4>2. LogOK(log) /\ RecordsHaveAccounts(accounts, log)
          BY <1>1, <2>1, JobFacts, ServerFacts DEF TablesWellFormed
        <4>3. LedgerOf(log, customer) = 0
          BY <3>2, <4>2, LedgerType DEF RecordsHaveAccounts
        <4>4. 0 % DwordMod = 0
          BY ModSum, WidthAssumption DEF DWORD
        <4> QED
          BY <4>1, <4>3, <4>4
      <3> QED
        BY <3>1, <3>2
    <2> QED
      BY <1>1, <2>1, BooksParts DEF FilesBalanced
  <1>5. StoreKept(c)' /\ RecordKept(c)'
    BY <1>2 DEF StoreKept, RecordKept
  <1>6. ASSUME NEW d \in Connections, thread[d] \in {"store", "record"}
        PROVE  job[d].request.customer \in DOMAIN accounts
    BY <1>6, ServerFacts DEF Stage
  <1>7. job[c] # NONE
    BY <1>1, ServerFacts
  <1> QED
    BY <1>1, <1>2, <1>3, <1>4, <1>5, <1>6, <1>7, OthersBooks

\* The balance that is loaded is the balance.
LEMMA BalanceLoadBooks ==
  ASSUME ServerInv, BooksInv, NEW c \in Connections, BalanceLoad(c)
  PROVE  BooksInv'
  <1> DEFINE j == [job[c] EXCEPT !.value = accounts[job[c].request.customer]]
  <1>1. /\ thread[c] = "load" /\ thread[c] \in HandlerStages /\ Goto(c, "store")
        /\ job' = [job EXCEPT ![c] = j]
        /\ UNCHANGED <<accounts, log, main, disk, faulty, request>>
    BY ServerFacts
       DEF BalanceLoad, bank, mainVars, clientVars, diskVars, historyVars, HandlerStages
  <1>2. /\ thread'[c] = "store"
        /\ \A d \in Connections \ {c} : thread'[d] = thread[d]
    BY <1>1, OneGoes
  <1>3. /\ j.request = job[c].request /\ j.value = accounts[job[c].request.customer]
        /\ j \in Job /\ j # NONE
    <2>1. accounts[job[c].request.customer] \in DWORD /\ job[c] \in Job
      BY <1>1, JobFacts, ServerFacts DEF TablesWellFormed, BalancesOK
    <2> QED
      BY <2>1, ServerFacts DEF Job
  <1> HIDE DEF j
  <1>4. job'[c] = j /\ \A d \in Connections \ {c} : job'[d] = job[d]
    BY <1>1, ServerFacts
  <1>5. FilesBalanced'
    <2>1. ASSUME NEW customer, \A d \in Connections : ~Unrecorded(d, customer)'
          PROVE  \A d \in Connections : ~Unrecorded(d, customer)
      BY <1>1, <1>2, <1>4, <2>1 DEF Unrecorded
    <2> QED
      BY <1>1, <2>1, BooksParts DEF FilesBalanced
  <1>6. StoreKept(c)' /\ RecordKept(c)'
    BY <1>1, <1>2, <1>3, <1>4 DEF StoreKept, RecordKept
  <1>7. job[c] # NONE
    BY <1>1, ServerFacts
  <1> QED
    BY <1>1, <1>2, <1>3, <1>4, <1>5, <1>6, <1>7, OthersBooks

\* The balance that is stored is the one the log says, charged.
LEMMA BalanceStoreBooks ==
  ASSUME ServerInv, BooksInv, CustomersApart, NEW c \in Connections, BalanceStore(c)
  PROVE  BooksInv'
  <1> DEFINE r == job[c].request
  <1>1. /\ thread[c] = "store" /\ thread[c] \in HandlerStages /\ Goto(c, "record")
        /\ accounts' = [accounts EXCEPT ![r.customer] = Charged(r, job[c].value)]
        /\ UNCHANGED <<log, main, job, disk, faulty, request>>
    BY DEF BalanceStore, mainVars, clientVars, diskVars, historyVars, HandlerStages
  <1>2. /\ thread'[c] = "record"
        /\ \A d \in Connections \ {c} : thread'[d] = thread[d]
    BY <1>1, OneGoes
  <1>3. /\ r.customer \in DOMAIN accounts /\ job[c] # NONE
        /\ job[c].value = accounts[r.customer]
    BY <1>1, JobFacts, ServerFacts, BooksParts DEF StoreKept
  <1>4. \A d \in Connections \ {c} :
          thread[d] \in {"store", "record"} => job[d].request.customer # r.customer
    BY <1>1, ChargesApart
  <1> HIDE DEF r
  <1>5. /\ DOMAIN accounts' = DOMAIN accounts
        /\ accounts'[r.customer] = Charged(r, accounts[r.customer])
        /\ \A customer \in DOMAIN accounts \ {r.customer} :
             accounts'[customer] = accounts[customer]
    BY <1>1, <1>3
  <1>6. FilesBalanced'
    <2>1. ASSUME ~faulty, NEW customer \in DOMAIN accounts',
                 \A d \in Connections : ~Unrecorded(d, customer)'
          PROVE  accounts'[customer] = LedgerOf(log, customer) % DwordMod
      <3>1. customer # r.customer
        BY <1>1, <1>2, <2>1 DEF Unrecorded, r
      <3>2. \A d \in Connections : ~Unrecorded(d, customer)
        BY <1>1, <1>2, <2>1 DEF Unrecorded
      <3> QED
        BY <1>5, <2>1, <3>1, <3>2, BooksParts DEF FilesBalanced
    <2> QED
      BY <1>1, <2>1, BooksParts DEF FilesBalanced
  <1>7. StoreKept(c)' /\ RecordKept(c)'
    <2>1. ASSUME ~faulty
          PROVE  accounts[r.customer] = LedgerOf(log, r.customer) % DwordMod
      <3>1. \A d \in Connections : ~Unrecorded(d, r.customer)
        BY <1>1, <1>4 DEF Unrecorded
      <3> QED
        BY <1>3, <2>1, <3>1, BooksParts DEF FilesBalanced
    <2> QED
      BY <1>1, <1>2, <1>5, <2>1 DEF StoreKept, RecordKept, r
  <1>8. ASSUME NEW d \in Connections \ {c}, thread[d] \in {"store", "record"}
        PROVE  accounts'[job[d].request.customer] = accounts[job[d].request.customer]
    <2>1. job[d].request.customer \in DOMAIN accounts
      BY <1>8, ServerFacts DEF Stage
    <2> QED
      BY <1>4, <1>5, <1>8, <2>1
  <1> QED
    BY <1>1, <1>2, <1>3, <1>6, <1>7, <1>8, OthersBooks

\* What a charge does to a balance its record does to the ledger.
LEMMA ChargedLedger ==
  ASSUME LogOK(log), NEW r \in Request, r.type \in TransactionTypes, r.customer \in Customers,
         Record(r.customer, r.type, r.amount), NextID \notin DOMAIN log
  PROVE  /\ LedgerOf(log', r.customer) % DwordMod =
              Charged(r, LedgerOf(log, r.customer) % DwordMod)
         /\ \A customer : customer # r.customer =>
              LedgerOf(log', customer) = LedgerOf(log, customer)
  <1> DEFINE tr == TRANSACTION_INFO(r.amount, r.type, r.customer)
             L  == LedgerOf(log, r.customer)
  <1>1. /\ tr \in Transaction /\ tr.customer = r.customer /\ r.amount \in DWORD
        /\ Signed(tr) = (IF r.type = "DEPOSIT" THEN r.amount ELSE 0 - r.amount)
    BY BankAssumption DEF TRANSACTION_INFO, Transaction, Signed, Request
  <1>2. log' = Insert(log, NextID, tr)
    BY DEF Record
  <1> HIDE DEF tr
  <1>3. \A customer : LedgerOf(log', customer) =
          IF tr.customer = customer THEN Signed(tr) + LedgerOf(log, customer)
          ELSE LedgerOf(log, customer)
    BY <1>1, <1>2, LedgerInsert
  <1>4. L \in Int /\ Signed(tr) \in Int /\ r.amount \in Int
    BY <1>1, LedgerType, LogAmounts DEF DWORD
  <1>5. LedgerOf(log', r.customer) = Signed(tr) + L
    BY <1>1, <1>3
  <1> HIDE DEF L
  <1>6. /\ ((L % DwordMod) + Signed(tr)) % DwordMod = (L + Signed(tr)) % DwordMod
        /\ L % DwordMod \in DWORD
    BY <1>4, ModSum
  <1>7. L + Signed(tr) = Signed(tr) + L
    BY <1>4
  <1>8. Charged(r, L % DwordMod) = ((L % DwordMod) + Signed(tr)) % DwordMod
    <2>1. \A x \in DWORD : x - r.amount = x + (0 - r.amount)
      BY <1>4 DEF DWORD
    <2> QED
      BY <1>1, <1>6, <2>1 DEF Charged, incr_Balance, decr_Balance
  <1> QED
    BY <1>1, <1>3, <1>5, <1>6, <1>7, <1>8 DEF L

\* The record catches the log up with the balance.
LEMMA TransactionBooks ==
  ASSUME ServerInv, BooksInv, CustomersApart, NEW c \in Connections, TransactionInsert(c)
  PROVE  BooksInv'
  <1> DEFINE r == job[c].request
             j == [job[c] EXCEPT !.id = NextID]
  <1>1. /\ thread[c] = "record" /\ thread[c] \in HandlerStages /\ Goto(c, "reply")
        /\ Record(r.customer, r.type, r.amount) /\ job' = [job EXCEPT ![c] = j]
        /\ UNCHANGED <<accounts, main, disk, faulty, request>>
    BY ServerFacts
       DEF TransactionInsert, mainVars, clientVars, diskVars, historyVars, HandlerStages
  <1>2. /\ thread'[c] = "reply"
        /\ \A d \in Connections \ {c} : thread'[d] = thread[d]
    BY <1>1, OneGoes
  <1>3. /\ r \in Request /\ r.type \in TransactionTypes /\ r.customer \in Customers
        /\ r.amount \in DWORD /\ job[c] \in Job /\ job[c] # NONE
    BY <1>1, JobFacts, ServerFacts
  <1>4. NextID \in Nat /\ NextID \notin DOMAIN log
    BY <1>1, <1>3, ServerFacts, RecordFacts
  <1>5. /\ LedgerOf(log', r.customer) % DwordMod =
             Charged(r, LedgerOf(log, r.customer) % DwordMod)
        /\ \A customer : customer # r.customer =>
             LedgerOf(log', customer) = LedgerOf(log, customer)
    BY <1>1, <1>3, <1>4, ServerFacts, ChargedLedger DEF TablesWellFormed
  <1>6. \A d \in Connections \ {c} :
          thread[d] \in {"store", "record"} => job[d].request.customer # r.customer
    BY <1>1, ChargesApart
  <1>7. j.request = r /\ j # NONE
    <2>1. j \in Job /\ j.request = r
      BY <1>3, <1>4 DEF Job
    <2> QED
      BY <2>1, ServerFacts
  <1> HIDE DEF j
  <1>8. job'[c] = j /\ \A d \in Connections \ {c} : job'[d] = job[d]
    BY <1>1, ServerFacts
  <1>9. ~faulty => accounts[r.customer] = Charged(r, LedgerOf(log, r.customer) % DwordMod)
    BY <1>1, BooksParts DEF RecordKept
  <1> HIDE DEF r
  <1>10. FilesBalanced'
    <2>1. ASSUME ~faulty, NEW customer \in DOMAIN accounts,
                 \A d \in Connections : ~Unrecorded(d, customer)'
          PROVE  accounts[customer] = LedgerOf(log', customer) % DwordMod
      <3>1. CASE customer = r.customer
        BY <1>5, <1>9, <2>1, <3>1
      <3>2. CASE customer # r.customer
        <4>1. \A d \in Connections : ~Unrecorded(d, customer)
          BY <1>2, <1>8, <2>1, <3>2 DEF Unrecorded, r
        <4> QED
          BY <1>5, <2>1, <3>2, <4>1, BooksParts DEF FilesBalanced
      <3> QED
        BY <3>1, <3>2
    <2> QED
      BY <1>1, <2>1, BooksParts DEF FilesBalanced
  <1>11. StoreKept(c)' /\ RecordKept(c)'
    BY <1>2 DEF StoreKept, RecordKept
  <1>12. \A d \in Connections \ {c} : thread[d] \in {"store", "record"} =>
           /\ accounts'[job[d].request.customer] = accounts[job[d].request.customer]
           /\ LedgerOf(log', job[d].request.customer) = LedgerOf(log, job[d].request.customer)
    BY <1>1, <1>5, <1>6
  <1> QED
    BY <1>1, <1>2, <1>3, <1>7, <1>8, <1>10, <1>11, <1>12, OthersBooks DEF r

LEMMA NextBooks ==
  ASSUME ServerInv, BooksInv, CustomersApart, [ServerNext]_serverVars
  PROVE  BooksInv'
  <1>1. CASE UNCHANGED serverVars
    BY <1>1, QuietBooks
       DEF serverVars, bank, mainVars, threadVars, clientVars, diskVars, historyVars
  <1>2. CASE MainStep \/ Start \/ TerminateHandler \/ Crash \/ Restart
    BY <1>2, MainBooks, EndsBooks, SaveBooks DEF MainStep
  <1>3. ASSUME NEW c \in Connections, ThreadStep(c)
        PROVE  BooksInv'
    BY <1>3, LoopBooks, RequestBooks, CreateBooks, BalanceLoadBooks, BalanceStoreBooks,
       TransactionBooks DEF ThreadStep
  <1>4. ASSUME NEW c \in Connections, ClientMove(c)
        PROVE  BooksInv'
    <2>1. CASE Connect(c) \/ CloseClient(c)
      BY <2>1, QuietBooks
         DEF Connect, CloseClient, Leave, bank, mainVars, threadVars, diskVars, historyVars
    <2>2. CASE SendRequest(c)
      BY <2>2, RequestBooks
    <2> QED
      BY <1>4, <2>1, <2>2 DEF ClientMove
  <1> QED
    BY <1>1, <1>2, <1>3, <1>4 DEF ServerNext, Finished

LEMMA InitBooks ==
  ASSUME ServerInit, Balanced(SavedAccounts, SavedTransactions)
  PROVE  BooksInv
  <1>1. /\ DOMAIN accounts = {} /\ disk.accounts = SavedAccounts
        /\ disk.transactions = SavedTransactions
    BY EmptyTable DEF ServerInit
  <1> QED
    BY <1>1 DEF ServerInit, BooksInv, FilesBalanced

\* While no two connections charge one account, what a handler has loaded is
\* the balance until it stores, and a balance that is ahead of the log is ahead
\* by the one charge its handler is about to record, in every interleaving of
\* the unlocked += and -=, the transaction mutex, joins, saves and crashes.
THEOREM BooksInvariance ==
  CustomersApart /\ Balanced(SavedAccounts, SavedTransactions) /\ ServerSpec => []BooksInv
  <1>1. Balanced(SavedAccounts, SavedTransactions) /\ ServerInit => BooksInv
    BY InitBooks
  <1>2. CustomersApart /\ ServerInv /\ BooksInv /\ [ServerNext]_serverVars => BooksInv'
    BY NextBooks
  <1>3. CustomersApart => CustomersApart'
    BY DEF CustomersApart, ChargedBy
  <1> QED
    BY <1>1, <1>2, <1>3, ServerInvariance, PTL DEF ServerSpec

\* With files that balance to start from and no two connections that charge one
\* account, an account with no charge under way balances in memory, and what
\* SaveServerDB leaves in the files balances, unless the process crashed or a
\* file failed.
THEOREM FilesStayBalanced ==
  CustomersApart /\ Balanced(SavedAccounts, SavedTransactions) /\ ServerSpec => []FilesBalanced
  <1>1. BooksInv => FilesBalanced
    BY DEF BooksInv
  <1> QED
    BY <1>1, BooksInvariance, PTL

=============================================================================
