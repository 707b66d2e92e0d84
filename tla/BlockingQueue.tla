--------------------------- MODULE BlockingQueue ----------------------------
(***************************************************************************)
(* base/BlockingQueue.h and base/BoundedBlockingQueue.h: a queue behind a  *)
(* mutex with the condition variables notEmpty_ and, when it is bounded,   *)
(* notFull_.  The two classes differ in maxSize_ only: without it put()    *)
(* never waits and the notFull_.notify_one() of take() would find nobody.  *)
(*                                                                         *)
(* A step is one critical section: from taking mutex_, at the call or at a *)
(* return of wait(), to releasing it, in the next wait() or at the end.    *)
(***************************************************************************)
EXTENDS Integers, Sequences, FiniteSets

CONSTANTS Threads,   \* the threads that share the queue
          Items,     \* what is put into it
          Nothing    \* what a thread without an item holds

Unbounded == -1

ASSUME NothingAssumption == Nothing \notin Items
ASSUME QueueAssumption == IsFiniteSet(Threads) /\ IsFiniteSet(Items)

VARIABLES queue,     \* queue_
          maxSize,   \* maxSize_, or Unbounded
          thread,    \* per thread: its position and the item it puts or has taken
          put,       \* history: items put so far, in order
          taken      \* history: items taken so far, in order

queueVars == <<queue, maxSize, thread, put, taken>>

\* A thread is outside ("idle"), about to lock mutex_ in put() or take(), or
\* waiting on a condition variable.
Positions == {"idle", "put", "take", "notEmpty", "notFull"}
in(pos) == {t \in Threads : thread[t].at = pos}

QueueInit(q, size) ==
  /\ queue = q
  /\ maxSize = size
  /\ thread = [t \in Threads |-> [at |-> "idle", item |-> Nothing]]
  /\ put = q
  /\ taken = <<>>

\* Fault: put() does not wait for a place.
fullNever == FALSE

full == Len(queue) = maxSize

\* Fault: nobody is notified.
NotifyNobody(th, condition, pos) == {th}

\* What notify_one() may do to the threads th: one of those that wait on the
\* condition, if any, goes on to lock mutex_ again.
NotifyOne(th, condition, pos) ==
  LET waiting == {t \in Threads : th[t].at = condition}
  IN IF waiting = {} THEN {th} ELSE {[th EXCEPT ![t].at = pos] : t \in waiting}

\* A call of put(x) or take() begins.
CallPut(t, x) ==
  /\ thread[t].at = "idle"
  /\ thread' = [thread EXCEPT ![t] = [at |-> "put", item |-> x]]
  /\ UNCHANGED <<queue, maxSize, put, taken>>

CallTake(t) ==
  /\ thread[t] = [at |-> "idle", item |-> Nothing]
  /\ thread' = [thread EXCEPT ![t].at = "take"]
  /\ UNCHANGED <<queue, maxSize, put, taken>>

\* put() waits while the queue is full, then pushes and notifies a taker.
PutWaits(t) ==
  /\ thread[t].at = "put"
  /\ full
  /\ thread' = [thread EXCEPT ![t].at = "notFull"]
  /\ UNCHANGED <<queue, maxSize, put, taken>>

Put(t) ==
  /\ thread[t].at = "put"
  /\ ~full
  /\ queue' = Append(queue, thread[t].item)
  /\ put' = Append(put, thread[t].item)
  /\ thread' \in NotifyOne([thread EXCEPT ![t] = [at |-> "idle", item |-> Nothing]],
                           "notEmpty", "take")
  /\ UNCHANGED <<maxSize, taken>>

\* take() waits while the queue is empty, then pops and notifies a putter.
TakeWaits(t) ==
  /\ thread[t].at = "take"
  /\ queue = <<>>
  /\ thread' = [thread EXCEPT ![t].at = "notEmpty"]
  /\ UNCHANGED <<queue, maxSize, put, taken>>

Take(t) ==
  /\ thread[t].at = "take"
  /\ queue # <<>>
  /\ queue' = Tail(queue)
  /\ taken' = Append(taken, Head(queue))
  /\ thread' \in NotifyOne([thread EXCEPT ![t] = [at |-> "idle", item |-> Head(queue)]],
                           "notFull", "put")
  /\ UNCHANGED <<maxSize, put>>

\* wait() may return without a notification.
SpuriousWakeup(t) ==
  /\ thread[t].at \in {"notEmpty", "notFull"}
  /\ thread' = [thread EXCEPT ![t].at = IF @ = "notEmpty" THEN "take" ELSE "put"]
  /\ UNCHANGED <<queue, maxSize, put, taken>>

LockStep(t) == PutWaits(t) \/ Put(t) \/ TakeWaits(t) \/ Take(t)

-----------------------------------------------------------------------------
(* Properties.                                                             *)

\* First in, first out, nothing lost or doubled, and never more than
\* maxSize_ items (the assertions at BoundedBlockingQueue.h:28 and 38).
QueueIsExact ==
  /\ put = taken \o queue
  /\ maxSize # Unbounded => Len(queue) <= maxSize

\* No waiter is forgotten: while a thread waits in take() there are at least
\* as many threads on their way to the queue as it has items, and likewise
\* for put() and the free places (put 23-41, take 43-52).
NoWaiterIsForgotten ==
  /\ in("notEmpty") # {} => Len(queue) <= Cardinality(in("take"))
  /\ in("notFull") # {} => maxSize - Len(queue) <= Cardinality(in("put"))
=============================================================================
