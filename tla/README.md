# TLA+ model of the CNP banking protocol

A specification, model-checking runs and machine-checked proofs for the C++
client and server of `src/` (the *CNP Protocol*: clients connect over TCP, open
accounts, log on, deposit, withdraw, buy stamps, query balance and history).

## 1. The system

### Components

| Component | State | Operations | Interacts through |
|---|---|---|---|
| Message handlers (`Server/CNP_Messaging.cpp`) | locals of the handler that runs | `ProcessConnectRequest`, `…CreateAccount…`, `…Logon…`, `…Logoff…`, `…Deposit…`, `…Withdrawal…`, `…BalanceQuery…`, `…TransactionQuery…`, `…StampPurchase…`, `ProcessDisconnect` | the three tables, the session's socket |
| Session table (`Server/CNP_Session.*`) | `g_SessionInfo`: client ID → state, socket, customer ID | insert on connect, `set_State`, `set_CustomerID`, erase on disconnect | shared by all threads; `g_SessionMutex` for insert and erase only |
| Account and transaction tables (`Server/CNP_ServerDB.h`) | `g_AccountInfo`: customer ID → balance; `g_TransactionInfo`: ID → record | insert, `incr_Balance`, `decr_Balance` | shared; one mutex each, for insert only |
| Persistence (`Server/CNP_ServerDB.cpp`) | two files | `LoadServerDB`, `SaveServerDB`, `GenerateCustomerID` | called by `main` before and after all connections |
| Client thread loop (`Server/CNP_Server.cpp`) | `wClientID`, receive buffer, `m_bTerminate` | receive, dispatch, `ProcessDisconnect` at end of stream | its socket, the handlers |
| Start-up and shutdown (`Server/CNP_Server.cpp`) | `g_bTerminate`, list of threads | accept, start a thread, signal, join, save | threads, signal handler |
| Protocol (`Include/CNP_Protocol.h`) | the client's sequence number | message constructors | client and server |
| Client program (`Client/CNP_Client.cpp`) | `wClientID`, `g_szBuffer` | menu loop: send one request, wait for one response | its socket |
| Sockets (`*/CNP_Socket.*`) | handle, last error | send, recv, accept, listen, … | the operating system |
| FNV-1a hash (`Server/FNV1A_Hash.*`) | none | `FNV1A_Hash` | `GenerateCustomerID` |
| `TSQueue.h`, `ThreadMisc.h` | a queue and its lock | push, pop | unused by the server |

One server thread per connection runs the handlers one after the other. The
threads share the three maps. Each map has a mutex, taken to insert or to erase
and **never to read**: every `find`, the `rbegin` of a connect, the walk of a
history query, the balance arithmetic and the writes through a session iterator
run unlocked.

### What is hard here

* Interleavings: two connects that read the same last key; two transactions on
  one account; a lookup while another thread rebalances the tree; a session
  erased under another thread's iterator.
* Sequences of legal requests: connect twice, connect and fail, log off without
  having logged on, create an account twice.
* The end of a connection in the middle of a handler.
* Arithmetic in WORD and DWORD width: client IDs, balances, the customer ID.
* Liveness: three mutexes without a time limit; requests that get no response.
* Shutdown: threads that still answer while `main` ends them one by one; sockets
  that `main` deletes; two files written one after the other.
* Failure: a crash at any step, a file that does not open, a write that fails, a
  server that goes while a client waits, a client's input that ends.

`PROJECT.json` lists these hazards line by line, with the properties that cover
them, and those that none covers yet.

### What makes each component correct

* *Handlers and tables*: the log only grows and its IDs are 1 .. n; accounts
  stay and change only by a transaction; every customer ID refers to an account;
  balance and log agree; a withdrawal never takes more than there is.
* *Sessions*: a client ID names one connected client and its socket, and its
  session goes when the client goes.
* *Protocol*: a response answers the request its receiver waits on, with the
  sequence number and the context of that request.
* *Threads*: handlers return; a thread ends after its client has gone.
* *Persistence*: what a client has been told of is on disk after a shutdown and
  loaded at the next start; balances and log are saved as of one moment, no charge
  half done; what is loaded after a failure has free IDs where the code takes them.
* *Lifecycle*: a signal leads to a save and to the end of `main`, and no thread
  loses the socket it receives on before it has ended.
* *Client*: it reports what the server did, and lists a history without gaps.

## 2. The modules

| Module | Models |
|---|---|
| `CNP_Protocol` | `CNP_Protocol.h`: widths, message types, result codes, header, requests, responses |
| `CNP_ServerDB` | `CNP_ServerDB.*`, `CNP_Common.h`: std::map as a function, balance arithmetic, customer ID, log records, the selection of a history query |
| `CNP_Session` | `CNP_Session.h`: the session record and its updates |
| `CNP_Messaging` | `CNP_Messaging.cpp`, `ClientThreadHandler`, the client's menu loop: the state machine of threads, tables and mutexes |
| `CNP_Properties` | its properties, and the inductive invariant `IInv` |
| `CNP_Ledger` | what a log adds up to: the sum every balance is compared with |
| `CNP_Bank` | the abstract specification: accounts and a log on which a request is one step |
| `CNP_Refinement` | the mapping from `CNP_Messaging` to `CNP_Bank`, and the assumption under which it holds |
| `CNP_Serial` | the inductive invariant `SerialIDsInv` of connections opened and closed one at a time, and how long client IDs last |
| `CNP_Server` | `main`, the signal handler, the threads' life with their handlers cut into steps, `LoadServerDB`, `SaveServerDB`, crash and restart |
| `CNP_Client` | `CNP_Client.cpp` and its socket, against whatever the server's threads may do with its requests |
| `CNP_TSQueue` | `TSQueue.h` and `TLock`, with the locks callers take themselves |
| `CNP_Messaging_proof`, `CNP_Refinement_proof`, `CNP_Serial_proof`, `CNP_Ledger_proof`, `CNP_Bank_proof`, `CNP_Server_proof`, `CNP_Client_proof` | theorems and proofs about the module each is named after |
| `MC_Races`, `MC_Serial`, `MC_Exclusive`, `MC_Server`, `MC_Client`, `MC_TSQueue` | instances for TLC |

`CNP_Protocol`, `CNP_ServerDB`, `CNP_Session`, `CNP_Messaging`, `CNP_Properties`,
`CNP_Refinement` and `CNP_Serial` extend one another in this order. `CNP_Ledger`
extends `CNP_ServerDB`, and `CNP_Properties`, `CNP_Bank` and `CNP_Client` extend it
(`CNP_Client` with `CNP_Session`). `CNP_Server` extends `CNP_Bank` for its tables and
its record of a transaction; its handlers are not steps of the bank. A proof module
extends the module it is about and the proof modules whose lemmas it uses.
Definitions named `X_Something` and introduced by "Faulty variant" are plausible
bugs of `X`, used only to show that the properties notice them.

### State and actions

The variables carry the names of the source: the tables `g_SessionInfo`,
`g_AccountInfo`, `g_TransactionInfo`, their mutexes, and per thread `wClientID`,
`stage` (the step the handler has reached) and `frame` (its locals). Of the client there is
`held` (its `wClientID`), `asked` (the header of the request it waits on),
`sent` (its sequence number), `inbox` (responses in its socket) and `open`.
A connection, its socket, its thread and its client share one name.

A handler is cut at the points where another thread can change its outcome:
each access to a shared map, the load and the store of `+=` and `-=`, and each
lock. A deposit, for instance, is `SendRequest`, `FindSession`, `ReadCustomer`,
`DepositRead`, `DepositWrite`, `TransactionLock`, `TransactionSize`,
`TransactionInsert`, `Respond`, with `MissSession`, `ReadCustomer` (no customer)
and `MissAccount` as its error paths. Code between two such points that touches
only locals belongs to the step before it.

Undefined behaviour is a choice over its outcomes:

* A lookup while another thread holds the map's mutex may miss an element that
  is there (`MayMiss`).
* `rbegin()->first` of a connect may read a node a disconnect is freeing: any
  WORD (`NewClientIDs`).
* An iterator to an erased session (`frame.stale`) reads any customer ID, and
  writes to nothing that matters or to a live session that got the memory
  (`CustomersRead`, `NodesWritten`).
* The history walk during an insert may skip records (`HistoryRead`).

A crash of the process, as another outcome of these, is `Crash` in `CNP_Server`.

**The refinement.** A transaction takes place in `CNP_Bank` when
`TransactionInsert` adds its record. Between the store of the balance
(`DepositWrite`, `WithdrawWrite`) and that step, `Committed` shows the account as
it was before the store; every other step of a handler changes neither balances
nor log. `ExclusiveSpec` is `Spec` with steps that put two handlers at work on one
account left out; the run `lost_update` shows it has to be.

**The server process** (`CNP_Server`). `main` is the step `main` has reached,
`thread[c]` that of a connection's thread: `test` the flag, `receive`, `hangup`
(`ProcessDisconnect`), or a stage of a handler. A handler is cut here too, where
another thread or `main` can come between: `connect`; `find`, the unlocked lookup of
the session, which goes on (`FindSession`) or ends the request without an answer
(`MissSession`); `account`, the unlocked lookup of the account and the check of the
balance; `create`; `load` and `store`, the two halves of `+=` and `-=`; `record`, under
the transaction mutex; `reply`. `job[c]` holds the request, the balance loaded and the
ID of the record. `missed` remembers the clients whose last request was dropped,
`acked` the records whose clients have been told `CER_SUCCESS`, `faulty` that the
process has crashed or a file has failed. A file is loaded whole or up to a read that
fails (`Prefixes`). The save is cut into open (which truncates), each write, and close,
for each file, so that a crash can come between any two; after a write that fails the
stream stays bad. A signal may come at any moment. A connection can wait in the
backlog; closing the listening socket ends it.

**The client** (`CNP_Client`). `step` is where the program is: at the menu, in the
prompts of a Send function, before `Send`, in `Receive`, or reading the response.
`g_szBuffer` keeps the last response, zeros at first. `link` is the connection as
Linux has it: after the server ends, data already received can be read, the first
`Send` is accepted and answered by a reset, the next one ends the process. `cin`
fails for good at the first input it cannot read; from then on the menu takes the
same option again and amounts are whatever is on the stack. `typed`, `done` and
`told` are the transactions asked for, made and reported. Of the server there are the
customers with an account, the log with the customer of each record, and the client's
session. `Handle` is any outcome the handlers have when other sessions are at work: a
withdrawal may succeed or be refused, since the balance is what all of them together
have left; a lookup may miss; a request may get no answer (`Unanswered`). `Others` opens
accounts and adds records for any account, this client's too.

**The queue** (`CNP_TSQueue`). A call is entry, lock (`SetLock`, with `bLock` only) and
body. `Lock` and `Unlock` are actions of the caller; a call without `bLock` is made by a
thread that has locked the queue with them. The recursive mutex counts how often its
owner has locked it.

### Abstractions

* Requests and responses are delivered whole and in order. Sending and receiving
  a request are one step: only this thread reads the socket.
* `g_dwValidationKey` is 1; any other key is invalid. Names are a small set and
  `NameHash` stands for the hash. The last name, the e-mail address and the time
  stamp, never read by a handler, are left out.
* `CreateInsert` joins the insert under the account mutex with the `set_State`
  that follows; the account and the state of a session are never read together.
* The request types share a payload record with unused fields at a default.
* In `CNP_Server` a mutex and what is done under it are one stage, during which the
  lookups of other threads may miss. Client IDs are unique, as `CNP_Serial` shows them
  to be when connections are opened one at a time: a connection, its session and its
  socket share one name, a reply goes to the thread's own socket, and a second connect
  finds the session there (the one it leaves behind is `leaked_session`). The customer
  of a request is part of it: logon state is what `CNP_Messaging` is about.
* In `CNP_Client` a handler is one step, with any result: the client waits for it, so
  that of its steps only the one that changes a table counts. Balances are left out,
  and a record keeps its customer only.
* The version numbers of a connect response are left out; the client does not
  read them.

## 3. Runs

| Run | Specification | Shows |
|---|---|---|
| `races` | `Spec` | `TypeOK`, `TransactionIDsSequential`, `NoTransactionLost`, `AccountsKept`, `CustomersHaveAccounts`, `IInv` in every interleaving of two clients that know the same credentials |
| `live` | `FairSpec` | `HandlersReturn`, `ThreadsEnd` |
| `serial` | `SerialSpec` | `UniqueClientIDs`, `ClientsOwnTheirSessions`, `RepliesAnswerRequests`, `ActsForItsClient`, `BalanceMatchesLedger`, `ExclusiveAccounts`, `NoOverdraft`, `SerialIDsInv` |
| `duplicate_id` | `Spec` | `UniqueClientIDs` fails |
| `lost_update` | `SerialSpec` | `BalanceMatchesLedger` fails for a shared account |
| `leaked_session` | `SerialSpec` | `SessionsOnlyWhileConnected` fails |
| `header_swap` | `SerialSpec` | `HeaderEchoed` fails |
| `exclusive` | `ExclusiveSpec` | `ImplementsBank`, `ExclusiveInv`, `BalanceMatchesLedger`, `NoOverdraft`, `SocketsKept` |
| `lifecycle` | `ServerSpec` | `ServerTypeOK`, `AcknowledgedKept`, `FilesBalanced`, `LoadedIDsSequential`, `SocketsOutliveThreads`, `ServerInv`, `BooksInv`, `ShutdownCompletes`, `RequestsAnswered` |
| `client` | `ClientSpec` | `ClientTypeOK`, `HistoryComplete`, `OrdersHonoured`, `ClientInv`, `HistoryInv`, `MenuReturns` |
| `stale_reply` | `ClientSpec` | `SuccessMeansDone` fails |
| `queue` | `Spec` of `CNP_TSQueue` | `CallsReturn` fails |

**What the failing runs show.**
*duplicate_id*: both threads read the last key (`CNP_Messaging.cpp:135`) before
either has the mutex (:147), so the ID announced as unique (:134) is given twice.
The `insert` of the second is ignored, and its client works on the first one's
session, whose socket gets the replies.
*lost_update*: `incr_Balance` and `decr_Balance` run under no lock, although the
comment above them (:390-392) rests on no mapped value being accessed.
*leaked_session*: a second connect overwrites the thread's `wClientID`
(`CNP_Server.cpp:123`), so that `ProcessDisconnect` erases one session of two,
against `ReadMe.md:89-90`.
*header_swap*: the constructor of `BALANCE_QUERY_RESPONSE`
(`CNP_Protocol.h:1710-1721`) exchanges sequence and context, against :767-769
and :792-793.
*stale_reply*: the client's server ends while a deposit is on its way; `Receive`
fails, `SendDeposit` does not look at that (`CNP_Client.cpp:234`) and shows the
`CER_SUCCESS` of the response before, or of the zeroed buffer.
*queue*: one thread returns from a locking call with the mutex still locked
(`ThreadMisc.h:59`); a locking call of another thread, in `SetLock`, never returns.

**What the passing runs show beyond their names.**
*exclusive*: one account, two clients, one of whom may be on the other's session
because their connects ran together. As long as no two handlers charge the account
at once, each balance and record change as one request of the bank.
*serial* checks `ExclusiveAccounts` too: with an account per client and connects
one at a time, the assumption of *exclusive* is a consequence.
*lifecycle*: what `AcknowledgedKept` and `FilesBalanced` promise they promise as
long as nothing has crashed or failed; the code does nothing for the other case.
`LoadedIDsSequential` has no such condition: even a file cut short by a crash has
the IDs 1 .. n, because records are written in key order and none after a failed
one, so that `size() + 1` is free again. `FilesBalanced` and `BooksInv` hold while no
two connections charge one account (`CustomersApart`, which the instance states);
with two on one account the code loses updates without any crash (`lost_update`).
They say of an account that it balances while no charge of it is stored and not
recorded, and of the files that `main` never saves such a charge.
`SocketsOutliveThreads` is about the socket a thread receives on: a session whose
client ID was given twice answers on another thread's socket, for which the joins
promise nothing. `RequestsAnswered` promises nothing to a request whose session was
not found, because the client has none or another thread was inserting or erasing one
under the unlocked `find`: the code sends no answer (`CNP_Messaging.cpp:244`, :311).
*client*: `OrdersHonoured` needs a server for its first half (*stale_reply*) and
sound input for its second: with a failed `std::cin` the client repeats its last
request, deposits included. `MenuReturns` has the same exception as
`RequestsAnswered`: a client whose request was dropped waits as long as the server is
there.

**Environments.** `Spec` allows everything. `SerialSpec` adds an assumption about
the outside: no connect or disconnect starts while another one is being handled.
Requests still interleave freely. With it, and with clients that have an account
each (`MC_Serial`), the properties of `serial` hold; the failing
runs show that neither assumption can be dropped.

**Bounds.** Two threads: every race in the code is between two threads over one
table. `Menu[t][n]` is the set of requests the client of `t` may send as its
`n`-th, and its length bounds the requests (3 to 5): enough to connect, log on
or create, transact and query, to connect again, and to fail at each step.
`WordMod = 8` leaves room for more client IDs than `races` and `serial` issue, so
the wrap of client IDs is not reached there (`IDsEnough` says so); `DwordMod = 16` is small enough for `serial` to
carry a balance over the limit (a deposit of 3 on 14). The databases start with
one account. Only the safety runs `races` and `exclusive` use the symmetry of the
two clients, whose menus are the same there. `exclusive` has `WordMod = 3`: the
second client ID is `INVALID_CLIENT_ID`, the third 0, the fourth 0 again.

`lifecycle`: two connections (one that main waits for while the other still works), the
menus connect, create and connect, deposit, withdraw, empty files to start from,
`DwordMod = 4`, and two starts (`MaxRuns`), so that a file that a crash, a failed
write or a failed load has left behind is loaded and saved again. The deposit may come
before, during and after the create of its account. One connection charges there; two
that charge at once, one account or two, are what `races`, `serial` and `exclusive`
check, and the theorem has any number. A record of the first run and one or two of the
second are enough to lose, to repeat or to misplace an ID.

`client`: four commands (`MaxCommands`), enough to connect, log on, trade and list.
Customer 1 starts with five records, exactly the page of `SendTransaction`; others open
the account 2 and add one record, of either customer, at any moment (`MaxRecords = 6`,
which the client's own transactions may exceed). The page size is the real one.
`queue`: two threads, two calls each.

**Deadlock** is checked in every run but `queue`, whose threads do stop. In
`lifecycle` and `client` the end of the program is a step of its own (`Finished`),
so any other standstill would be reported. A client may always close, so the one
state in which nothing more happens is the one where all threads have ended
(`Terminated`).

**Fairness.** `FairSpec` asks weak fairness of each `ServerStep(t)`: the operating
system keeps running a thread that can run, and a receive that has data or end
of file returns. A mutex wait needs no more than that here, since a client can
send only finitely many requests and so each mutex is asked for finitely often.
Clients owe nothing: they may stop anywhere, connected or not. `ServerSpec` asks it
of `main` and of each thread, `ClientSpec` of the client between prompts and of
the server's thread; signals, users, clients, the operator's port number, crashes
and restarts come or do not. The waits of `main` (for the head of its list) and of
a thread (500 microseconds in `recv`) stay enabled once they are, so weak fairness is
enough. The specification of the queue grants even strong fairness to its mutex and
weak fairness to a caller's `Unlock`, and a call still does not return.

The inductive invariants of the proofs (`IInv`, `ExclusiveInv`, `SerialIDsInv`,
`ServerInv`, `BooksInv`, `ClientInv`, `HistoryInv`) are invariants of these runs. Where a theorem
has a hypothesis about the constants, the instance states it as
`InstanceAssumption`, which TLC evaluates: no theorem is about nothing.

## 4. Proofs

Every safety property a passing run checks is also proved, for any number of
threads, connections, customers and requests, any menu, any saved tables that
`SaveServerDB` can have written and any widths.

| Theorem | States |
|---|---|
| **`CNP_Messaging_proof`**: every interleaving | |
| `Invariance` | `Spec => []IInv` |
| `TypeCorrect` | `Spec => []TypeOK` |
| `IDsSequential` | `Spec => []TransactionIDsSequential` |
| `CustomersKnown` | `Spec => []CustomersHaveAccounts` |
| `LogKept` | `Spec => NoTransactionLost` |
| `AccountsOnlyCharged` | `Spec => AccountsKept` |
| **`CNP_Refinement_proof`**: no two handlers charge one account at once | |
| `ChargesUndisturbed` | `ExclusiveSpec => []ExclusiveInv` |
| `ThreadsImplementBank` | `ExclusiveSpec => ImplementsBank` |
| `LedgerKept` | `Balanced(SavedAccounts, SavedTransactions) /\ ExclusiveSpec => []BalanceMatchesLedger` |
| `Covered` | `ExclusiveSpec => NoOverdraft` |
| `SessionsStayOnTheirSocket` | `Spec => SocketsKept` |
| **`CNP_Serial_proof`**: connections opened and closed one at a time | |
| `SerialInvariance` | `IDsEnough /\ SerialSpec => []SerialIDsInv` |
| `LastIDNotGiven`, `ClientIDsUnique`, `SessionsOwned`, `RepliesMatch`, `ActsOnlyForItsClient` | `IDsEnough /\ SerialSpec =>` `[]IDsLeft`, `[]UniqueClientIDs`, `[]ClientsOwnTheirSessions`, `[]RepliesAnswerRequests`, `[]ActsForItsClient` |
| `AccountsExclusive` | `CustomersDisjoint /\ IDsEnough /\ SerialSpec => []ExclusiveAccounts /\ ExclusiveSpec` |
| `SerialBooks` | under the same hypotheses `NoOverdraft`, `ImplementsBank` and, if the saved tables balance, `[]BalanceMatchesLedger` |
| **`CNP_Bank_proof`** | |
| `BooksBalance` | `Balanced(SavedAccounts, SavedTransactions) /\ BankSpec => []Balanced(accounts, log)` |
| **`CNP_Server_proof`**: start, shutdown, crash, restart | |
| `ServerInvariance` | `ServerSpec => []ServerInv` |
| `ServerTypes`, `LoadedIDs`, `SocketsOutlive`, `AcknowledgedStay` | `ServerSpec =>` `[]ServerTypeOK`, `[]LoadedIDsSequential`, `[]SocketsOutliveThreads`, `[]AcknowledgedKept` |
| `BooksInvariance`, `FilesStayBalanced` | `CustomersApart /\ Balanced(SavedAccounts, SavedTransactions) /\ ServerSpec =>` `[]BooksInv`, `[]FilesBalanced` |
| **`CNP_Client_proof`** | |
| `ClientInvariance` | `ClientSpec => []ClientInv` |
| `ClientTypes`, `OrdersAreHonoured` | `ClientSpec =>` `[]ClientTypeOK`, `[]OrdersHonoured` |
| `HistoryInvariance`, `HistoryIsComplete` | `LogFits /\ ClientSpec =>` `[]HistoryInv`, `[]HistoryComplete` |

### Hypotheses

* `WidthAssumption`, `NameAssumption`, `MessagingAssumption`, `SavedAssumption`,
  `BankAssumption`, `ServerAssumption`, `ClientAssumption` say what the constants are;
  TLC evaluates each in every run whose module has it.
* `Balanced(SavedAccounts, SavedTransactions)`: the files the first start finds agree
  with each other, as those of a server that has never failed do.
* `IDsEnough`: the clients can ask for fewer connections than there are client IDs
  (65535 in the code). Without it `INVALID_CLIENT_ID` is given to a session, and later
  the ID 0 a second time. It is about the constants alone; that no ID runs out in the
  course of a behaviour is a consequence (`LastIDNotGiven`).
* `CustomersDisjoint`: no two clients log on to one account; `CustomersApart`: no two
  connections of `CNP_Server` charge one. `lost_update` shows what happens otherwise.
* `LogFits`: the number of records stays below the number of DWORD values. Otherwise
  the start of the next page wraps to 0 and the history is listed again.

### The arguments

**`IInv`.** `TransactionIDsSequential` is not inductive: an insert keeps the
IDs dense only if the ID computed by `TransactionSize` is still the next one.
`IInv` therefore adds `FrameOK`, which says what each stage knows: between
`transSize` and the insert the thread holds `g_TransactionMutex` (so one thread
at most is there) and its ID is the number of records plus one. The set of IDs
must be finite for its cardinality to count. `CustomersHaveAccounts` likewise
needs that a handler past its lookup works on a customer with an account, even
if it read the customer ID through a stale iterator (the account lookup comes
after that read), and that a logon writes only a customer ID it has looked up.
`TypeOK` needs the message type each stage works on (a balance query leaves a
DWORD in `value`) and that a live iterator points into the session table.
`GotoKeepsIInv`, `StageKeepsIInv` and `FinishKeepsIInv` deal once with steps that
change only one thread's locals; then one lemma per action.

**`ExclusiveInv`** adds what a handler has read of its account: the value loaded is
still the balance when it is stored, an amount checked is still covered, a charge
stored and not recorded can be undone in DWORD width. In the refinement every step
maps to one request of the bank or to none: `TransactionInsert` to the transaction,
`CreateInsert` to `Open`, all others to a stutter, the store of a balance included,
because `Committed` takes it back until its record is there.

**The ledger.** A balance is compared with a sum over the log (`MapThenSumSet`). The
fold behind it takes the records in an order given by `CHOOSE`, so that a new record
adds its amount is not obvious. `CNP_Ledger_proof` shows that the order does not
matter. Induction is by a smallest counterexample: the subsets of a finite set are
well-founded under inclusion, so the facts need no induction theorem with an operator
for a parameter.

**`SerialIDsInv`.** A client ID is on its way between a session, a connect that has
chosen it, a response in a socket, a client that holds it, a request and a thread's
`wClientID`. `OwnsWhatItReliesOn` says of each of these places that the session is
there and answers on that client's socket; `Conversation`, what may be in them at each
stage. `IDsCounted` bounds IDs by the number of connects made: `rbegin()->first + 1`
is one more than the largest.

**`ServerInv`.** `LoadedIDsSequential` rests on `SaveInv`: what a save has written is
the part of the table its iterator has passed, and after a failed write nothing more
is written, so that the file has the IDs 1 .. n at whatever step the crash comes.
`AcknowledgedKept` needs to know in which of memory and files the records are at each
step of `main`.

**`BooksInv`.** That an account balances between charges is not inductive while `+=` is a
load and a store. `BooksInv` adds what a charge has done so far: the value loaded is
still the balance when it is stored, since nobody else charges the account
(`CustomersApart`) and a create inserts only what is not there; the balance stored is
what the log and the record about to be added make. A save finds no charge half done
because all threads have been joined.

**`ClientInv`** ties a request, its answer and what was typed, made and reported to
the one order under way (`Charging`: it has been typed and not made). **`HistoryInv`**:
what is listed is what the account had below the start of the next page, and the page
on its way is what there was from there on, or full and its first part
(`CollectFacts`, about the walk from `lower_bound`). Records added meanwhile come
after the last ID and disturb neither. `RecordsCounted` keeps IDs below the limit.
`InOrder` states the order of a page by counting, not with `SetToSortSeq` of the
community modules, of whose result the provers cannot know anything.

### Only model-checked

* Liveness (`HandlersReturn`, `ThreadsEnd`, `ShutdownCompletes`, `RequestsAnswered`,
  `MenuReturns`), which is beyond the prover.
* What the code does not keep (`duplicate_id`, `lost_update`, `leaked_session`,
  `header_swap`, `stale_reply`, `queue`): each is a counterexample.
* `CNP_TSQueue`, of which nothing else is claimed.

## 5. Plan

What is left, in order of what it adds:

1. Weaker hypotheses: which of the properties of `serial` survive when connects
   run together and only their IDs differ; `AccountsExclusive` from sessions that no
   two clients share instead of from one connect at a time.
2. What the failing runs leave true, as theorems: of `stale_reply`, that a report
   without a server repeats an answer the client had before; of `leaked_session`, that
   a client that connects once leaves no session.
3. `CNP_Server` with several requests of a client under way, with sends that block, and
   with client IDs given twice, so that a reply may meet a socket `main` has deleted.

## 6. Not modelled

* Partial or merged TCP messages (`ReadMe.md:473` says the code does not handle
  them) and sends that block: a client has one request under way at a time.
* Two server processes over the same files.
* A reply on the socket of another connection during the shutdown (`CNP_Server` has
  unique client IDs).
* The FNV-1a hash, third-party code: `NameHash` stands for it, and nothing is
  claimed of names whose hashes collide.
* Byte layout and byte order, apart from the size of a history response; the
  fixed-size name fields.
* The Windows branches where they differ (no SIGPIPE, `Sleep` in the loops).
* `TTSQueue::GetItems`, which no compiler can instantiate, and `TAutoLock`, which
  nothing uses.
* Build files and console output.

## 7. Running

    tlc -config MC_Races.cfg MC_Races        # likewise MC_Live.cfg with MC_Races,
    tlc -config MC_Serial.cfg MC_Serial      # MC_DuplicateID.cfg, MC_LostUpdate.cfg;
    tlc -config MC_Exclusive.cfg MC_Exclusive # MC_LeakedSession.cfg and MC_HeaderSwap.cfg
    tlc -config MC_Server.cfg MC_Server      # with MC_Serial
    tlc -config MC_Client.cfg MC_Client      # and MC_StaleReply.cfg
    tlc -config MC_TSQueue.cfg MC_TSQueue
    tlapm CNP_Messaging_proof.tla            # likewise CNP_Ledger_proof, CNP_Bank_proof,
                                             # CNP_Refinement_proof, CNP_Serial_proof,
                                             # CNP_Server_proof and CNP_Client_proof
