------------------------------ MODULE CNP_Serial ------------------------------
(***************************************************************************)
(* Why the second part of CNP_Properties holds when connections are opened *)
(* and closed one at a time: the inductive invariant of SerialSpec.        *)
(***************************************************************************)
EXTENDS CNP_Refinement

\* The last client ID, which also says that there is none, has not been given:
\* until then rbegin()->first + 1 does not wrap.
IDsLeft == INVALID_CLIENT_ID \notin DOMAIN g_SessionInfo

Owns(t, i) == i \in DOMAIN g_SessionInfo /\ g_SessionInfo[i].m_pSocket = t

\* The client IDs that a connection, wherever it has got, goes on to use: the
\* client's, the thread's, those of the handler at work and of the answer on
\* its way.
ReliesOn(t, i) ==
  \/ i = held[t]
  \/ stage[t] # "exited" /\ i = wClientID[t]
  \/ stage[t] = "find" /\ i = frame[t].msg.hdr.cid
  \/ stage[t] \in SessionStages /\ i = frame[t].itS
  \/ stage[t] = "respond" /\ Type(t) = "CONNECT" /\ i = frame[t].value
  \/ inbox[t] # <<>> /\ inbox[t][1].hdr.type = "CONNECT" /\ i = inbox[t][1].cid

OwnsWhatItReliesOn ==
  \A t \in Threads : \A i \in WORD :
    ReliesOn(t, i) /\ i # INVALID_CLIENT_ID => Owns(t, i)

\* A client waits for the answer to the one request its thread is working on,
\* or has it in its socket, or has gone.
ConnectStages == {"connect", "connectLock", "connectInsert"}
EndStages     == {"disconnectLock", "disconnectErase", "exited"}

Conversation(t) ==
  /\ frame[t].pSocket \in {NONE, t} /\ ~frame[t].stale
  /\ Type(t) = "CONNECT" => stage[t] \in ConnectStages \cup EndStages \cup {"receive", "respond"}
  /\ stage[t] \in EndStages => ~open[t]
  /\ ~open[t] => held[t] = INVALID_CLIENT_ID /\ asked[t] = NONE /\ inbox[t] = <<>>
  /\ open[t] /\ stage[t] # "receive" => asked[t] = frame[t].msg.hdr /\ inbox[t] = <<>>
  /\ stage[t] = "connect" => frame[t].value = INVALID_CLIENT_ID
  /\ stage[t] \in {"connectLock", "connectInsert"} => frame[t].value \notin DOMAIN g_SessionInfo

\* A handler works on a message of its client, for a customer of its client.
AsksOf(t) == UNION {Menu[t][n] : n \in DOMAIN Menu[t]}

ForItsClient(t) ==
  /\ stage[t] \notin EndStages \cup {"receive"} =>
       [type |-> Type(t), body |-> Body(t)] \in AsksOf(t)
  /\ stage[t] = "logonFind" => Type(t) = "LOGON"
  /\ stage[t] \in AccountStages \cup {"logonWrite"} => frame[t].customer \in CustomersOf(t)

SessionsForTheirClients ==
  \A i \in DOMAIN g_SessionInfo :
    LET s == g_SessionInfo[i]
    IN  IsValidCustomerID(s.m_qwCustomerID) => s.m_qwCustomerID \in CustomersOf(s.m_pSocket)

\* No two clients log on to the same account.
CustomersDisjoint ==
  \A t, u \in Threads : t # u => CustomersOf(t) \cap CustomersOf(u) = {}

SerialInv ==
  /\ IInv /\ IDsLeft /\ ConnectsSerial
  /\ OwnsWhatItReliesOn
  /\ RepliesAnswerRequests
  /\ SessionsForTheirClients
  /\ \A t \in Threads : Conversation(t) /\ ForItsClient(t)

---------------------------------------------------------------------------
(* How long client IDs last                                                *)

\* The requests of the clients that may be a CONNECT, and those already sent.
ConnectsAsked ==
  UNION {{t} \X {n \in DOMAIN Menu[t] : \E m \in Menu[t][n] : m.type = "CONNECT"} : t \in Threads}

ConnectsMade == {p \in ConnectsAsked : p[2] <= sent[p[1]]}

\* The clients connect fewer times than there are client IDs to give.
IDsEnough == IsFiniteSet(ConnectsAsked) /\ Cardinality(ConnectsAsked) < INVALID_CLIENT_ID

\* A client ID is at most the number of connects so far; one is not given yet
\* while a connect is being handled.
IDsCounted ==
  LET made == Cardinality(ConnectsMade)
  IN  /\ \A i \in DOMAIN g_SessionInfo : i <= made
      /\ \A t \in Threads :
           /\ stage[t] = "connect" => \A i \in {0} \cup DOMAIN g_SessionInfo : i < made
           /\ stage[t] \in {"connectLock", "connectInsert"} => frame[t].value <= made

SerialIDsInv == SerialInv /\ IDsCounted

==============================================================================
