------------------------------ MODULE CNP_TSQueue ------------------------------
(***************************************************************************)
(* The queue template TTSQueue (src/Server/TSQueue.h) and the lock it is   *)
(* guarded with (TLock, src/Server/ThreadMisc.h), used by some threads.    *)
(* The server does not use it ("Ultimately, it was not required", ReadMe   *)
(* 4.2); the calls are the ones its comments sketch: handlers push, another*)
(* thread takes.                                                           *)
(*                                                                         *)
(* A call with bLock locks the queue itself.  A call without it takes no   *)
(* lock; it is made by a thread that has locked the queue (Lock, Unlock),  *)
(* the one use of it without a race.  GetItems is left out: it cannot be   *)
(* instantiated (std::queue has no begin).                                 *)
(***************************************************************************)
EXTENDS Naturals, Sequences

CONSTANTS
  Threads,
  NONE,        \* no thread
  Items,
  MaxCalls     \* bound: calls of a thread

VARIABLES
  m_que,
  m_cs,      \* the recursive mutex: its owner and how often it is locked
  holds,     \* whether a thread has locked the queue with Lock
  call,      \* a thread: the call it is in
  locked,    \* whether SetLock has got the mutex for this call
  calls      \* history: calls begun

vars == <<m_que, m_cs, holds, call, locked, calls>>

Calls == [op : {"Push"}, item : Items, bLock : BOOLEAN]
           \cup [op : {"Pop", "PopFront", "Init"}, bLock : BOOLEAN]

Init ==
  /\ m_que = <<>>
  /\ m_cs = [owner |-> NONE, depth |-> 0]
  /\ holds = [t \in Threads |-> FALSE]
  /\ call = [t \in Threads |-> NONE]
  /\ locked = [t \in Threads |-> FALSE]
  /\ calls = [t \in Threads |-> 0]

\* The mutex is recursive: it is free for its owner.
Acquire(t) ==
  /\ m_cs.owner \in {NONE, t}
  /\ m_cs' = [owner |-> t, depth |-> m_cs.depth + 1]

Lock(t) ==
  /\ call[t] = NONE /\ calls[t] < MaxCalls /\ ~holds[t]
  /\ Acquire(t)
  /\ holds' = [holds EXCEPT ![t] = TRUE]
  /\ UNCHANGED <<m_que, call, locked, calls>>

Unlock(t) ==
  /\ call[t] = NONE /\ holds[t]
  /\ m_cs' = IF m_cs.depth = 1 THEN [owner |-> NONE, depth |-> 0]
             ELSE [m_cs EXCEPT !.depth = @ - 1]
  /\ holds' = [holds EXCEPT ![t] = FALSE]
  /\ UNCHANGED <<m_que, call, locked, calls>>

Enter(t) ==
  /\ call[t] = NONE /\ calls[t] < MaxCalls
  /\ \E c \in Calls :
       /\ c.bLock \/ holds[t]
       /\ call' = [call EXCEPT ![t] = c]
  /\ calls' = [calls EXCEPT ![t] = @ + 1]
  /\ UNCHANGED <<m_que, m_cs, holds, locked>>

\* lock.SetLock(this), of a call with bLock only.
SetLock(t) ==
  /\ call[t] # NONE /\ call[t].bLock /\ ~locked[t]
  /\ Acquire(t)
  /\ locked' = [locked EXCEPT ![t] = TRUE]
  /\ UNCHANGED <<m_que, holds, call, calls>>

Queue(c) ==
  CASE c.op = "Push" -> Append(m_que, c.item)
    [] c.op = "Init" -> <<>>
    [] OTHER         -> IF m_que = <<>> THEN m_que ELSE Tail(m_que)

\* The body and the return.  TLock has no destructor: a mutex that SetLock has
\* locked stays locked.
Body(t) ==
  /\ call[t] # NONE /\ (call[t].bLock => locked[t])
  /\ m_que' = Queue(call[t])
  /\ call' = [call EXCEPT ![t] = NONE]
  /\ locked' = [locked EXCEPT ![t] = FALSE]
  /\ UNCHANGED <<m_cs, holds, calls>>

Next == \E t \in Threads : Lock(t) \/ Unlock(t) \/ Enter(t) \/ SetLock(t) \/ Body(t)

\* The threads run; one that has locked the queue unlocks it, and a mutex that
\* is free again and again is obtained.
Spec ==
  /\ Init /\ [][Next]_vars
  /\ \A t \in Threads : SF_vars(SetLock(t)) /\ WF_vars(Body(t)) /\ WF_vars(Unlock(t))

---------------------------------------------------------------------------
(* Properties                                                              *)

\* "Thread Safe Queue with Associated Critical Section" (TSQueue.h:6): several
\* threads may use the queue, and a call returns.
CallsReturn == \A t \in Threads : (call[t] # NONE) ~> (call[t] = NONE)
================================================================================
