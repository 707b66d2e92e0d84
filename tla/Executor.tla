------------------------------ MODULE Executor ------------------------------
(***************************************************************************)
(* What EventLoop promises the callers of queueInLoop(): a serial executor *)
(* that runs every functor it is given at most once, one at a time, in the *)
(* order in which they were accepted.                                      *)
(***************************************************************************)
EXTENDS Sequences

CONSTANT Functors   \* the std::function objects handed to queueInLoop()

VARIABLES submitted,  \* functors accepted so far
          queue,      \* accepted, not yet started, oldest first
          ran         \* started so far, oldest first

vars == <<submitted, queue, ran>>

Init ==
  /\ submitted = {}
  /\ queue = <<>>
  /\ ran = <<>>

Submit(f) ==
  /\ f \notin submitted
  /\ submitted' = submitted \union {f}
  /\ queue' = Append(queue, f)
  /\ UNCHANGED ran

Run ==
  /\ queue # <<>>
  /\ ran' = Append(ran, Head(queue))
  /\ queue' = Tail(queue)
  /\ UNCHANGED submitted

Next == Run \/ \E f \in Functors : Submit(f)

Spec == Init /\ [][Next]_vars
=============================================================================
