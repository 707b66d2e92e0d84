------------------------- MODULE SqlConnectionPool --------------------------
(***************************************************************************)
(* The users of the blocking queues.  Either threads that put and take     *)
(* items of their own, on a queue of any size, or net/sql/                 *)
(* sqlConnectionPool.cc: connections are kept in a BlockingQueue, borrowed *)
(* through ConnPoolWrapper objects, and deleted by destroy(), which the    *)
(* thread that ends the program calls while others still use the pool.     *)
(***************************************************************************)
EXTENDS BlockingQueue, SequencesExt

CONSTANTS Sizes,     \* the maxSize_ of the bounded queues
          Closer,    \* the thread that calls destroy()
          MaxUses    \* bound: calls of put(), of take() and of wrappers

ASSUME CloserAssumption == Closer \in Threads
ASSUME SizesAssumption == Sizes \subseteq Nat

VARIABLES pooled,    \* is the queue the pool's connections_?
          closing,   \* destroy(): "no", "test" (about to call size()), "take", "done"
          deleted,   \* connections deleted
          uses       \* calls made so far

poolVars == <<queueVars, pooled, closing, deleted, uses>>

\* SQLConnectionPool::init(): the connections that could be established.  An
\* object whose connect() failed is dropped and not put into the queue.
Established == {SetToSeq(S) : S \in SUBSET Items}

PoolInit ==
  /\ pooled \in BOOLEAN
  /\ IF pooled THEN \E q \in Established : QueueInit(q, Unbounded)
               ELSE \E n \in Sizes \union {Unbounded} : QueueInit(<<>>, n)
  /\ closing = "no"
  /\ deleted = {}
  /\ uses = 0

CountUse == uses < MaxUses /\ uses' = uses + 1

\* A plain user puts an item not used before, or takes one.
Produce(t, x) ==
  /\ ~pooled
  /\ CountUse
  /\ \A i \in DOMAIN put : put[i] # x
  /\ \A u \in Threads : thread[u].item # x
  /\ CallPut(t, x)
  /\ UNCHANGED <<pooled, closing, deleted>>

Consume(t) ==
  /\ ~pooled
  /\ CountUse
  /\ CallTake(t)
  /\ UNCHANGED <<pooled, closing, deleted>>

Forget(t) ==
  /\ ~pooled
  /\ thread[t].at = "idle" /\ thread[t].item # Nothing
  /\ thread' = [thread EXCEPT ![t].item = Nothing]
  /\ UNCHANGED <<queue, maxSize, put, taken, pooled, closing, deleted, uses>>

\* ConnPoolWrapper(): takeConnection().
Borrow(t) ==
  /\ pooled
  /\ t # Closer
  /\ CountUse
  /\ CallTake(t)
  /\ UNCHANGED <<pooled, closing, deleted>>

\* ~ConnPoolWrapper(): putConnection().
GiveBack(t) ==
  /\ pooled
  /\ t # Closer
  /\ thread[t].item # Nothing
  /\ CallPut(t, thread[t].item)
  /\ UNCHANGED <<pooled, closing, deleted, uses>>

\* destroy() is called (by ~SQLConnectionPool() or by a user).
Destroy ==
  /\ pooled
  /\ closing = "no"
  /\ closing' = "test"
  /\ UNCHANGED <<queueVars, pooled, deleted, uses>>

\* while (connections_.size() != 0): size() and take() lock one after the
\* other, so that take() may find the queue empty again and wait.
DestroyTest ==
  /\ closing = "test"
  /\ IF queue = <<>> THEN closing' = "done" /\ UNCHANGED queueVars
                     ELSE closing' = "take" /\ CallTake(Closer)
  /\ UNCHANGED <<pooled, deleted, uses>>

\* delete conn.
DestroyDelete ==
  /\ closing = "take"
  /\ thread[Closer].item # Nothing
  /\ closing' = "test"
  /\ deleted' = deleted \union {thread[Closer].item}
  /\ thread' = [thread EXCEPT ![Closer].item = Nothing]
  /\ UNCHANGED <<queue, maxSize, put, taken, pooled, uses>>

QueueStep(t) == LockStep(t) /\ UNCHANGED <<pooled, closing, deleted, uses>>
Spurious(t) == SpuriousWakeup(t) /\ UNCHANGED <<pooled, closing, deleted, uses>>

PoolNext ==
  \/ \E t \in Threads : QueueStep(t) \/ Spurious(t)
  \/ \E t \in Threads : Consume(t) \/ Forget(t) \/ \E x \in Items : Produce(t, x)
  \/ \E t \in Threads : Borrow(t) \/ GiveBack(t)
  \/ Destroy \/ DestroyTest \/ DestroyDelete

PoolSpec == PoolInit /\ [][PoolNext]_poolVars

(***************************************************************************)
(* Fairness: every thread that can run is scheduled, a borrower gives its  *)
(* connection back.  Nobody has to call anything, and wait() need not wake *)
(* up by itself.                                                           *)
(***************************************************************************)
FairPoolSpec ==
  /\ PoolSpec
  /\ \A t \in Threads : WF_poolVars(QueueStep(t)) /\ WF_poolVars(GiveBack(t))
  /\ WF_poolVars(DestroyTest) /\ WF_poolVars(DestroyDelete)

-----------------------------------------------------------------------------
(* Properties.                                                             *)

\* destroy() returns although a borrower may empty the queue between its
\* size() and its take(): somebody gives a connection back.  And a borrower
\* gets a connection, if any could be established, unless the pool is being
\* destroyed, after which takeConnection() blocks for ever.  Borrowers stop
\* borrowing at last (MaxUses): BoundedBlockingQueue keeps no order among those
\* who wait, and threads that borrow for ever could overtake one of them, or
\* destroy(), for ever.
PoolIsLive ==
  /\ closing # "no" ~> closing = "done"
  /\ \A t \in Threads : pooled /\ put # <<>> /\ thread[t].at = "take"
                            ~> thread[t].at = "idle" \/ closing # "no"
=============================================================================
