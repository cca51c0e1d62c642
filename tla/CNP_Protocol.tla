---------------------------- MODULE CNP_Protocol ----------------------------
(***************************************************************************)
(* The vocabulary of the CNP protocol (src/Include/CNP_Protocol.h): the    *)
(* integer widths, the message types, the result codes, the standard       *)
(* header and the request and response messages built on it.               *)
(*                                                                         *)
(* WORD and DWORD keep their wrap-around; their sizes are parameters so    *)
(* that TLC reaches the wrap on small instances (16 and 32 bits in the     *)
(* code; unsigned long makes DWORD 64 bits wide on LP64 systems).          *)
(***************************************************************************)
EXTENDS Integers

CONSTANTS
  WordMod,     \* number of WORD values  (2^16 in the code)
  DwordMod     \* number of DWORD values (2^32 in the code)

ASSUME WidthAssumption ==
  /\ WordMod \in Nat /\ WordMod > 1
  /\ DwordMod \in Nat /\ DwordMod >= WordMod
  /\ DwordMod % WordMod = 0

WORD  == 0 .. (WordMod - 1)
DWORD == 0 .. (DwordMod - 1)

\* static_cast<WORD>(~0), INVALID_PIN and the key the server compares with.
INVALID_CLIENT_ID == WordMod - 1
INVALID_PIN       == 0
g_dwValidationKey == 1

---------------------------------------------------------------------------
(* Message types: the pair of a request and its response carries one name. *)

TransactionTypes == {"DEPOSIT", "WITHDRAWAL", "STAMP_PURCHASE"}

\* Requests that name the account through the session's customer ID.
AccountTypes == TransactionTypes \cup {"BALANCE_QUERY", "TRANSACTION_QUERY"}

MSG_TYPE == AccountTypes \cup {"CONNECT", "CREATE_ACCOUNT", "LOGON", "LOGOFF"}

CER_TYPE ==
  {"CER_SUCCESS", "CER_AUTHENICATION_FAILED", "CER_UNSUPPORTED_PROTOCOL",
   "CER_INVALID_CLIENT_ID", "CER_INVALID_NAME_PIN", "CER_CLIENT_NOT_LOGGEDON",
   "CER_INSUFFICIENT_FUNDS", "CER_ACCOUNT_NOT_FOUND", "CER_ACCOUNT_EXISTS",
   "CER_ERROR"}

Succeeded(cerRR) == cerRR = "CER_SUCCESS"

---------------------------------------------------------------------------
(* The header and the request payloads.                                    *)

\* The constructor's argument order: sequence first, context second.
STD_HDR(type, wClientID, dwSequence, dwContext) ==
  [type |-> type, cid |-> wClientID, seq |-> dwSequence, ctx |-> dwContext]

Header == [type : MSG_TYPE, cid : WORD, seq : DWORD, ctx : DWORD]

\* m_Request of every request type in one record; a type leaves the fields
\* it does not have at their defaults.  A name is "" or a member of a small
\* set; the last name and the e-mail address are stored and never read.
Payload(Names) ==
  [key : DWORD, major : WORD, minor : WORD,
   name : Names, pin : WORD,
   amount : DWORD, start : DWORD, count : WORD]

EmptyPayload ==
  [key |-> 0, major |-> 0, minor |-> 0, name |-> "", pin |-> INVALID_PIN,
   amount |-> 0, start |-> 0, count |-> 0]

\* The *_REQUEST constructors: what a client can put on the wire.
CONNECT_REQUEST(wMajor, wMinor, dwKey) ==
  [type |-> "CONNECT",
   body |-> [EmptyPayload EXCEPT !.key = dwKey, !.major = wMajor, !.minor = wMinor]]

CREATE_ACCOUNT_REQUEST(szName, wPIN) ==
  [type |-> "CREATE_ACCOUNT",
   body |-> [EmptyPayload EXCEPT !.name = szName, !.pin = wPIN]]

LOGON_REQUEST(szName, wPIN) ==
  [type |-> "LOGON",
   body |-> [EmptyPayload EXCEPT !.name = szName, !.pin = wPIN]]

LOGOFF_REQUEST == [type |-> "LOGOFF", body |-> EmptyPayload]

DEPOSIT_REQUEST(dwAmount) ==
  [type |-> "DEPOSIT", body |-> [EmptyPayload EXCEPT !.amount = dwAmount]]

WITHDRAWAL_REQUEST(dwAmount) ==
  [type |-> "WITHDRAWAL", body |-> [EmptyPayload EXCEPT !.amount = dwAmount]]

STAMP_PURCHASE_REQUEST(dwAmount) ==
  [type |-> "STAMP_PURCHASE", body |-> [EmptyPayload EXCEPT !.amount = dwAmount]]

BALANCE_QUERY_REQUEST == [type |-> "BALANCE_QUERY", body |-> EmptyPayload]

TRANSACTION_QUERY_REQUEST(dwStartID, wCount) ==
  [type |-> "TRANSACTION_QUERY",
   body |-> [EmptyPayload EXCEPT !.start = dwStartID, !.count = wCount]]

---------------------------------------------------------------------------
(* The responses: header, result code and the data some types add.  "list" *)
(* is the set of IDs of the transactions a history response carries (they  *)
(* are written in ascending ID order).                                     *)

Response == [hdr : Header, result : CER_TYPE, cid : WORD, balance : DWORD,
             list : SUBSET Nat]

\* Faulty variant: context and sequence number change places.
PlainResponse_Swapped(type, cerRR, wClientID, dwSequence, dwContext) ==
  [hdr |-> STD_HDR(type, wClientID, dwContext, dwSequence),
   result |-> cerRR, cid |-> wClientID, balance |-> 0, list |-> {}]

\* CREATE_ACCOUNT, LOGON, LOGOFF, DEPOSIT, WITHDRAWAL and STAMP responses.
PlainResponse(type, cerRR, wClientID, dwSequence, dwContext) ==
  [hdr |-> STD_HDR(type, wClientID, dwSequence, dwContext),
   result |-> cerRR, cid |-> wClientID, balance |-> 0, list |-> {}]

CONNECT_RESPONSE(cerRR, wClientID, dwSequence, dwContext) ==
  PlainResponse("CONNECT", cerRR, wClientID, dwSequence, dwContext)

\* This constructor declares the context before the sequence number and hands
\* them to STD_HDR in that order.
BALANCE_QUERY_RESPONSE(cerRR, wClientID, dwBalance, dwContext, dwSequence) ==
  [hdr |-> STD_HDR("BALANCE_QUERY", wClientID, dwContext, dwSequence),
   result |-> cerRR, cid |-> wClientID, balance |-> dwBalance, list |-> {}]

TRANSACTION_QUERY_RESPONSE(cerRR, wClientID, ids, dwSequence, dwContext) ==
  [PlainResponse("TRANSACTION_QUERY", cerRR, wClientID, dwSequence, dwContext)
     EXCEPT !.list = ids]

=============================================================================
