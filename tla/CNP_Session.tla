----------------------------- MODULE CNP_Session -----------------------------
(***************************************************************************)
(* SESSION_INFO, the record the server keeps for a connected client, and   *)
(* the updates the handlers make to it (src/Server/CNP_Session.h).  The    *)
(* table g_SessionInfo maps client IDs to these records; a socket is named *)
(* by the connection (the client thread) it belongs to.                    *)
(***************************************************************************)
EXTENDS CNP_ServerDB

SESSION_STATE == {"SS_CONNECTED", "SS_ACCOUNT_CREATED", "SS_LOGGED_ON", "SS_LOGGED_OFF"}

\* The initialization constructor: a new session is not logged on.
SESSION_INFO(sState, pSocket) ==
  [m_wState |-> sState, m_pSocket |-> pSocket, m_qwCustomerID |-> INVALID_CUSTOMER_ID]

\* set_State and set_CustomerID on the node n of a session table; a node that
\* is no longer in the table leaves the table as it is.
set_State(table, n, sSet) ==
  [i \in DOMAIN table |->
     IF i = n THEN [table[i] EXCEPT !.m_wState = sSet] ELSE table[i]]

set_CustomerID(table, n, qwSet) ==
  [i \in DOMAIN table |->
     IF i = n THEN [table[i] EXCEPT !.m_qwCustomerID = qwSet] ELSE table[i]]

\* What a request on an account is answered when nobody is logged on: deposits
\* and withdrawals with the result code of wrong credentials.
NotLoggedOn(type) ==
  IF type \in {"DEPOSIT", "WITHDRAWAL"} THEN "CER_INVALID_NAME_PIN"
  ELSE "CER_CLIENT_NOT_LOGGEDON"

==============================================================================
