---------------------------- MODULE MyQueueCalls -----------------------------
(***************************************************************************)
(* Every sequence of my_queue_push and my_queue_pop calls on one queue.    *)
(* All callers in cw07 hold queue_semaphore (QUEUE) around the call, so a  *)
(* call is one step.  push and pop implement WaitingRoom.                  *)
(***************************************************************************)
EXTENDS MyQueue

VARIABLES
  m_queue,  \* the ring buffer
  result    \* the value the last call returned

queueVars == <<m_queue, result>>

QueueInit == m_queue = InitQueue /\ result = NoPid

PushCall(x) ==
  /\ result' = IF IsFull(m_queue) THEN -1 ELSE 0
  /\ m_queue' = Push(m_queue, x)

PopCall ==
  /\ result' = Popped(m_queue)
  /\ m_queue' = Pop(m_queue)

QueueNext == PopCall \/ \E x \in Clients : PushCall(x)

QueueSpec == QueueInit /\ [][QueueNext]_queueVars

(***************************************************************************)
(* Properties                                                              *)
(***************************************************************************)

\* my_queue.c keeps head and tail inside tab and max as it was given.
QueueTypeOK == m_queue \in Queues /\ result \in {-1, 0} \cup Pids

\* A waiting slot always holds a client: pop never hands kill() a 0 or a
\* stale -1 left in tab.
WaitingAreClients ==
  \A i \in 1 .. Length(m_queue) : Contents(m_queue)[i] \in Clients

\* push and pop are the calls of a bounded FIFO: across every wrap of head and
\* tail, pids leave in the order in which they came.
Room == INSTANCE WaitingRoom WITH line <- Contents(m_queue), answer <- result

ImplementsWaitingRoom == Room!Spec
==============================================================================
