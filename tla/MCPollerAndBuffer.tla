------------------------- MODULE MCPollerAndBuffer --------------------------
(***************************************************************************)
(* Model-checking instance of the two data structures that belong to one   *)
(* loop's thread: a poller with its channels, and a connection's Buffer.   *)
(* They share nothing, so a behaviour is about one of them.                *)
(***************************************************************************)
EXTENDS Poller, Buffer, TLC

VARIABLE object   \* what the behaviour is about

\* Byte strings up to length 3.
MCData == UNION {[1 .. n -> Byte \ {Zero}] : n \in 1 .. 3}

Symmetry == Permutations(Channels)

MCInit ==
  /\ object \in {"poller", "buffer"}
  /\ PollerInit /\ (object = "buffer" => kind = "epoll")
  /\ BufferInit

MCNext ==
  \/ object = "poller" /\ PollerNext /\ UNCHANGED <<object, buffer>>
  \/ object = "buffer" /\ BufferNext /\ UNCHANGED <<object, pollerVars>>

MCSpec == MCInit /\ [][MCNext]_<<object, pollerVars, buffer>>
=============================================================================
